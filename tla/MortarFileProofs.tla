-------------------------- MODULE MortarFileProofs --------------------------
(***************************************************************************)
(* Validation and deployment judge cycles alike, for any mortar file.      *)
(* The nodes that the depth-first search has finished form an order in     *)
(* which every node comes after its dependencies; and the path it is on    *)
(* goes down in every such order, so that a cycle it closes refutes them   *)
(* all.                                                                    *)
(***************************************************************************)
EXTENDS MortarFile, FiniteSetTheorems, SequenceTheorems, TLAPS

-----------------------------------------------------------------------------
(* The graph of a file.                                                     *)

\* The keys and dependencies of the services of a file f, and its nodes.
KeysIn(f) == {f.services[i].key : i \in DOMAIN f.services}
Needs(f, key) ==
  UNION {f.services[i].deps : i \in {j \in DOMAIN f.services : f.services[j].key = key}}
Nodes(f) == KeysIn(f) \cup UNION {f.services[i].deps : i \in DOMAIN f.services}

\* What ValidateFields looks for.
Valid(f) ==
  f.wellFormed /\ \A i \in DOMAIN f.services :
                    /\ f.services[i].source \in {"build", "image"}
                    /\ f.services[i].networks \subseteq f.networks
                    /\ f.services[i].mounts \subseteq f.volumes
                    /\ f.services[i].deps \subseteq KeysIn(f)

\* They are those of the model.
LEMMA InTheModel ==
  /\ Keys = KeysIn(file) /\ \A key : DepsOf(key) = Needs(file, key)
  /\ (file.wellFormed /\ \A i \in DOMAIN file.services : ServiceValid(file.services[i]))
       <=> Valid(file)
BY DEF Keys, KeysIn, DepsOf, Needs, ServiceValid, Valid

\* Dependencies are nodes, and keys if the file is valid.
LEMMA NeedsAreNodes ==
  ASSUME NEW f
  PROVE  /\ KeysIn(f) \subseteq Nodes(f) /\ \A x : Needs(f, x) \subseteq Nodes(f)
         /\ Valid(f) => Nodes(f) = KeysIn(f)
BY DEF KeysIn, Needs, Nodes, Valid

\* An order of the nodes in which each comes after what it needs.
Ranks(f, rank) ==
  /\ rank \in [Nodes(f) -> Nat]
  /\ \A x \in Nodes(f) : \A d \in Needs(f, x) : rank[d] < rank[x]

-----------------------------------------------------------------------------
(* The search.                                                              *)

\* A node on the path and its neighbours not dealt with.
Frame(f) == [node : Nodes(f), todo : SUBSET Nodes(f)]

\* The path has no node twice and follows the dependencies.
PathKept(f, path) ==
  /\ path \in Seq(Frame(f))
  /\ \A i, j \in 1..Len(path) : path[i].node = path[j].node => i = j
  /\ \A i \in 1..Len(path) : path[i].todo \subseteq Needs(f, path[i].node)
  /\ \A i \in 1..Len(path) : i < Len(path) => path[i + 1].node \in Needs(f, path[i].node)

\* It goes down in every order.
GoesDown(f, path) ==
  \A rank : Ranks(f, rank) =>
    \A i, j \in 1..Len(path) : i < j => rank[path[j].node] < rank[path[i].node]

\* fin are the m nodes that are finished, in the order in which they were:
\* what is visited is finished or on the path, what a finished node needs was
\* finished before it, and what a node on the path needs is finished, comes
\* next on the path or is still to do.
Explored(f, visited, path, m, fin) ==
  /\ m \in Nat /\ fin \in [1..m -> Nodes(f)]
  /\ \A p, q \in 1..m : fin[p] = fin[q] => p = q
  /\ \A x : x \in visited <=> \/ \E p \in 1..m : fin[p] = x
                              \/ \E i \in 1..Len(path) : path[i].node = x
  /\ \A p \in 1..m : \A i \in 1..Len(path) : fin[p] # path[i].node
  /\ \A p \in 1..m : \A d \in Needs(f, fin[p]) : \E q \in 1..m : q < p /\ fin[q] = d
  /\ \A i \in 1..Len(path) : \A d \in Needs(f, path[i].node) :
       \/ d \in path[i].todo
       \/ \E q \in 1..m : fin[q] = d
       \/ i < Len(path) /\ path[i + 1].node = d

\* What the search has found out by now.
Searched(f, visited, path) ==
  /\ PathKept(f, path) /\ GoesDown(f, path)
  /\ \E m, fin : Explored(f, visited, path, m, fin)

\* The verdict so far.
VerdictKept(f, s, acc) ==
  /\ s.pc = "fields" => acc /\ s.path = <<>> /\ s.visited = {}
  /\ s.pc # "fields" /\ acc => Valid(f)
  /\ s.pc = "search" /\ Valid(f) => acc
  /\ s.pc = "done" /\ acc => s.path = <<>> /\ KeysIn(f) \subseteq s.visited
  /\ s.pc = "done" /\ ~acc /\ Valid(f) => \A rank : ~Ranks(f, rank)

Judged(f, s, acc) ==
  /\ f \in Files /\ acc \in BOOLEAN
  /\ s \in [pc : {"fields", "search", "done"}, visited : SUBSET Nodes(f), path : Seq(Frame(f))]
  /\ Searched(f, s.visited, s.path) /\ VerdictKept(f, s, acc)

\* The inductive invariant.
FileInv == Judged(file, search, accepted)

\* Nothing is visited yet.
LEMMA NothingSearched ==
  ASSUME NEW f
  PROVE  Searched(f, {}, <<>>)
<1>1. /\ <<>> \in Seq(Frame(f)) /\ Len(<<>>) = 0 /\ 1..0 = {} /\ 0 \in Nat
      /\ <<>> \in [1..0 -> Nodes(f)]
  OBVIOUS
<1>2. PathKept(f, <<>>) /\ GoesDown(f, <<>>)
  BY <1>1 DEF PathKept, GoesDown
<1>3. Explored(f, {}, <<>>, 0, <<>>)
  BY <1>1 DEF Explored
<1> QED BY <1>2, <1>3 DEF Searched

\* The path old of length l with the neighbour n off the list of its last node.
WithoutLast(old, l, n, new) ==
  \A i \in 1..l : /\ new[i].node = old[i].node
                  /\ new[i].todo = IF i = l THEN old[i].todo \ {n} ELSE old[i].todo

Off(old, n) == [old EXCEPT ![Len(old)].todo = @ \ {n}]

\* A node is visited: it goes on the path, and off the list of the node that
\* was the last one.
LEMMA NodeVisited ==
  ASSUME NEW f, NEW visited, NEW path, Searched(f, visited, path), NEW l \in Nat, l = Len(path),
         NEW n \in Nodes(f), n \notin visited, l > 0 => n \in path[l].todo,
         NEW new \in Seq(Frame(f)), Len(new) = l + 1,
         WithoutLast(path, l, n, new), new[l + 1].node = n, new[l + 1].todo = Needs(f, n)
  PROVE  Searched(f, visited \cup {n}, new)
<1>1. PICK m, fin : Explored(f, visited, path, m, fin)
  BY DEF Searched
<1>2. /\ m \in Nat /\ fin \in [1..m -> Nodes(f)]
      /\ \A p, q \in 1..m : fin[p] = fin[q] => p = q
      /\ \A x : x \in visited <=> \/ \E p \in 1..m : fin[p] = x
                                  \/ \E i \in 1..l : path[i].node = x
      /\ \A p \in 1..m : \A i \in 1..l : fin[p] # path[i].node
      /\ \A p \in 1..m : \A d \in Needs(f, fin[p]) : \E q \in 1..m : q < p /\ fin[q] = d
      /\ \A i \in 1..l : \A d \in Needs(f, path[i].node) :
           \/ d \in path[i].todo
           \/ \E q \in 1..m : fin[q] = d
           \/ i < l /\ path[i + 1].node = d
  BY <1>1 DEF Explored
<1>3. \A i : i \in 1..(l + 1) <=> i \in 1..l \/ i = l + 1
  OBVIOUS
<1>4. (\A i \in 1..l : path[i].node # n) /\ (\A p \in 1..m : fin[p] # n)
  BY <1>2
<1>5. /\ \A i, j \in 1..l : path[i].node = path[j].node => i = j
      /\ \A i \in 1..l : path[i].todo \subseteq Needs(f, path[i].node)
      /\ \A i \in 1..l : i < l => path[i + 1].node \in Needs(f, path[i].node)
  BY DEF Searched, PathKept
<1>6. /\ \A i \in 1..l : new[i].node = path[i].node
      /\ \A i \in 1..l : new[i].todo \subseteq path[i].todo
      /\ \A i \in 1..l : i # l => new[i].todo = path[i].todo
      /\ \A i \in 1..l : i = l => new[i].todo = path[i].todo \ {n}
      /\ new[l + 1].node = n /\ new[l + 1].todo = Needs(f, n)
  BY DEF WithoutLast
<1>7. PathKept(f, new)
  <2>1. \A i, j \in 1..(l + 1) : new[i].node = new[j].node => i = j
    <3> SUFFICES ASSUME NEW i \in 1..(l + 1), NEW j \in 1..(l + 1), new[i].node = new[j].node
                 PROVE  i = j
      OBVIOUS
    <3>1. CASE i \in 1..l /\ j \in 1..l
      BY ONLY <1>5, <1>6, <3>1, new[i].node = new[j].node
    <3>2. CASE i \in 1..l /\ j = l + 1
      BY ONLY <1>4, <1>6, <3>2, new[i].node = new[j].node
    <3>3. CASE j \in 1..l /\ i = l + 1
      BY ONLY <1>4, <1>6, <3>3, new[i].node = new[j].node
    <3> QED BY <1>3, <3>1, <3>2, <3>3
  <2>2. \A i \in 1..(l + 1) : new[i].todo \subseteq Needs(f, new[i].node)
    <3>1. ASSUME NEW i \in 1..l PROVE new[i].todo \subseteq Needs(f, new[i].node)
      BY ONLY <1>5, <1>6, i \in 1..l
    <3> QED BY ONLY <1>3, <1>6, <3>1
  <2>3. ASSUME NEW i \in 1..l PROVE new[i + 1].node \in Needs(f, new[i].node)
    <3>1. CASE i = l
      <4>1. l > 0 /\ l \in 1..l
        BY <3>1
      <4> QED BY ONLY <1>5, <1>6, <3>1, <4>1, l > 0 => n \in path[l].todo
    <3>2. CASE i # l
      <4>1. i + 1 \in 1..l /\ i < l
        BY <3>2
      <4> QED BY <1>5, <1>6, <4>1
    <3> QED BY <3>1, <3>2
  <2>4. \A i \in 1..(l + 1) : i < l + 1 => i \in 1..l
    OBVIOUS
  <2> QED BY <2>1, <2>2, <2>3, <2>4 DEF PathKept
<1>8. GoesDown(f, new)
  <2> SUFFICES ASSUME NEW rank, Ranks(f, rank), NEW i \in 1..(l + 1), NEW j \in 1..(l + 1), i < j
               PROVE  rank[new[j].node] < rank[new[i].node]
    BY DEF GoesDown
  <2>1. \A a, b \in 1..l : a < b => rank[path[b].node] < rank[path[a].node]
    BY DEF Searched, GoesDown
  <2>2. i \in 1..l
    OBVIOUS
  <2>3. CASE j \in 1..l
    BY <1>6, <2>1, <2>2, <2>3
  <2>4. CASE j = l + 1
    <3>1. l \in 1..l /\ n \in Needs(f, path[l].node)
      BY <1>5, <2>2
    <3>2. path[l].node \in Nodes(f) /\ path[i].node \in Nodes(f)
      <4>1. path \in Seq(Frame(f))
        BY DEF Searched, PathKept
      <4>2. path[l] \in Frame(f) /\ path[i] \in Frame(f)
        BY <2>2, <3>1, <4>1
      <4> QED BY <4>2 DEF Frame
    <3>3. rank[n] < rank[path[l].node]
      BY <3>1, <3>2 DEF Ranks
    <3>4. rank[n] \in Nat /\ rank[path[l].node] \in Nat /\ rank[path[i].node] \in Nat
      BY <3>2 DEF Ranks
    <3>5. i = l \/ rank[path[l].node] < rank[path[i].node]
      BY <2>1, <2>2, <3>1
    <3>6. rank[n] < rank[path[i].node]
      BY ONLY <3>3, <3>4, <3>5
    <3> QED BY <1>6, <2>2, <2>4, <3>6
  <2> QED BY <1>3, <2>3, <2>4
<1>9. Explored(f, visited \cup {n}, new, m, fin)
  <2>1. \A x : x \in visited \cup {n} <=> \/ \E p \in 1..m : fin[p] = x
                                          \/ \E i \in 1..(l + 1) : new[i].node = x
    <3>1. \A x : (\E i \in 1..(l + 1) : new[i].node = x)
                   <=> (\E i \in 1..l : path[i].node = x) \/ x = n
      BY ONLY <1>3, <1>6, Zenon
    <3> QED BY ONLY <1>2, <3>1
  <2>2. \A p \in 1..m : \A i \in 1..(l + 1) : fin[p] # new[i].node
    <3> SUFFICES ASSUME NEW p \in 1..m, NEW i \in 1..(l + 1) PROVE fin[p] # new[i].node
      OBVIOUS
    <3>1. CASE i \in 1..l
      BY ONLY <1>2, <1>6, <3>1, p \in 1..m
    <3> QED BY <1>3, <1>4, <1>6, <3>1
  <2>3. ASSUME NEW i \in 1..(l + 1), NEW d \in Needs(f, new[i].node)
        PROVE  \/ d \in new[i].todo
               \/ \E q \in 1..m : fin[q] = d
               \/ i < l + 1 /\ new[i + 1].node = d
    <3>1. CASE i = l + 1
      BY <3>1
    <3>2. CASE i \in 1..l /\ i # l
      <4>1. i + 1 \in 1..l /\ i < l + 1
        BY <3>2
      <4>2. d \in Needs(f, path[i].node) /\ new[i].todo = path[i].todo /\ new[i + 1].node = path[i + 1].node
        BY ONLY <1>6, <2>3, <3>2, <4>1
      <4> QED BY ONLY <1>2, <3>2, <4>1, <4>2
    <3>3. CASE i \in 1..l /\ i = l
      <4>1. d \in Needs(f, path[i].node) /\ new[i].todo = path[i].todo \ {n}
        BY ONLY <1>6, <2>3, <3>3
      <4>2. \/ d \in path[i].todo
            \/ \E q \in 1..m : fin[q] = d
            \/ i < l /\ path[i + 1].node = d
        BY ONLY <1>2, <3>3, <4>1
      <4>3. ~(i < l) /\ i < l + 1
        BY <3>3
      <4> QED BY ONLY <1>6, <3>3, <4>1, <4>2, <4>3
    <3> QED BY <1>3, <3>1, <3>2, <3>3
  <2> QED BY <1>2, <2>1, <2>2, <2>3 DEF Explored
<1> QED BY <1>7, <1>8, <1>9 DEF Searched

\* A neighbour that was visited before and is not on the path is finished.
LEMMA NodeDealtWith ==
  ASSUME NEW f, NEW visited, NEW path, Searched(f, visited, path), NEW l \in Nat, l = Len(path),
         NEW n \in visited, \A i \in 1..l : path[i].node # n,
         NEW new \in Seq(Frame(f)), Len(new) = l,
         WithoutLast(path, l, n, new)
  PROVE  Searched(f, visited, new)
<1>1. PICK m, fin : Explored(f, visited, path, m, fin)
  BY DEF Searched
<1>2. \E q \in 1..m : fin[q] = n
  BY <1>1 DEF Explored
<1>3. \A i \in 1..l : i < l => i + 1 \in 1..l
  OBVIOUS
<1>4. /\ \A i \in 1..l : new[i].node = path[i].node
      /\ \A i \in 1..l : new[i].todo = path[i].todo \/ new[i].todo = path[i].todo \ {n}
  BY DEF WithoutLast
<1>5. PathKept(f, new)
  BY <1>4, <1>3 DEF Searched, PathKept
<1>6. GoesDown(f, new)
  BY <1>4 DEF Searched, GoesDown
<1>7. /\ m \in Nat /\ fin \in [1..m -> Nodes(f)]
      /\ \A p, q \in 1..m : fin[p] = fin[q] => p = q
      /\ \A x : x \in visited <=> \/ \E p \in 1..m : fin[p] = x
                                  \/ \E i \in 1..l : path[i].node = x
      /\ \A p \in 1..m : \A i \in 1..l : fin[p] # path[i].node
      /\ \A p \in 1..m : \A d \in Needs(f, fin[p]) : \E q \in 1..m : q < p /\ fin[q] = d
      /\ \A i \in 1..l : \A d \in Needs(f, path[i].node) :
           \/ d \in path[i].todo
           \/ \E q \in 1..m : fin[q] = d
           \/ i < l /\ path[i + 1].node = d
  BY <1>1 DEF Explored
<1>8. Explored(f, visited, new, m, fin)
  <2>1. ASSUME NEW i \in 1..l, NEW d \in Needs(f, new[i].node)
        PROVE  \/ d \in new[i].todo
               \/ \E q \in 1..m : fin[q] = d
               \/ i < l /\ new[i + 1].node = d
    <3>1. \/ d \in path[i].todo
          \/ \E q \in 1..m : fin[q] = d
          \/ i < l /\ path[i + 1].node = d
      BY ONLY <1>4, <1>7, <2>1, i \in 1..l
    <3>2. CASE i < l /\ path[i + 1].node = d
      BY ONLY <1>4, <1>3, <3>2, i \in 1..l
    <3>3. CASE d \in path[i].todo
      BY ONLY <1>4, <1>2, <3>3, i \in 1..l
    <3> QED BY ONLY <3>1, <3>2, <3>3
  <2>2. /\ \A x : x \in visited <=> \/ \E p \in 1..m : fin[p] = x
                                    \/ \E i \in 1..l : new[i].node = x
        /\ \A p \in 1..m : \A i \in 1..l : fin[p] # new[i].node
    <3>1. \A x : (\E i \in 1..l : new[i].node = x) <=> (\E i \in 1..l : path[i].node = x)
      BY ONLY <1>4, Zenon
    <3>2. \A x : x \in visited <=> \/ \E p \in 1..m : fin[p] = x
                                  \/ \E i \in 1..l : path[i].node = x
      BY ONLY <1>7
    <3>3. \A p \in 1..m : \A i \in 1..l : fin[p] # new[i].node
      BY ONLY <1>4, <1>7
    <3> QED BY ONLY <3>1, <3>2, <3>3
  <2> QED BY <1>4, <1>7, <2>1, <2>2 DEF Explored
<1> QED BY <1>5, <1>6, <1>8 DEF Searched

\* The last node of the path has no neighbour left: it is finished.
LEMMA NodeFinished ==
  ASSUME NEW f, NEW visited, NEW path, Searched(f, visited, path), NEW l \in Nat,
         l + 1 = Len(path), path[l + 1].todo = {},
         NEW new \in Seq(Frame(f)), Len(new) = l, \A i \in 1..l : new[i] = path[i]
  PROVE  Searched(f, visited, new)
<1>1. PICK m, fin : Explored(f, visited, path, m, fin)
  BY DEF Searched
<1>2. /\ m \in Nat /\ fin \in [1..m -> Nodes(f)]
      /\ \A p, q \in 1..m : fin[p] = fin[q] => p = q
      /\ \A x : x \in visited <=> \/ \E p \in 1..m : fin[p] = x
                                  \/ \E i \in 1..(l + 1) : path[i].node = x
      /\ \A p \in 1..m : \A i \in 1..(l + 1) : fin[p] # path[i].node
      /\ \A p \in 1..m : \A d \in Needs(f, fin[p]) : \E q \in 1..m : q < p /\ fin[q] = d
      /\ \A i \in 1..(l + 1) : \A d \in Needs(f, path[i].node) :
           \/ d \in path[i].todo
           \/ \E q \in 1..m : fin[q] = d
           \/ i < l + 1 /\ path[i + 1].node = d
  BY <1>1 DEF Explored
<1>3. \A i : i \in 1..(l + 1) <=> i \in 1..l \/ i = l + 1
  OBVIOUS
<1>4. \A i \in 1..l : i # l + 1 /\ (i < l => i + 1 \in 1..l) /\ (i < l \/ i = l)
  OBVIOUS
<1>5. /\ \A i, j \in 1..(l + 1) : path[i].node = path[j].node => i = j
      /\ path[l + 1].node \in Nodes(f)
  <2>1. path[l + 1] \in Frame(f)
    BY DEF Searched, PathKept
  <2> QED BY <2>1 DEF Searched, PathKept, Frame
<1>6. PathKept(f, new) /\ GoesDown(f, new)
  <2>1. /\ \A i \in 1..(l + 1) : path[i].todo \subseteq Needs(f, path[i].node)
        /\ \A i \in 1..(l + 1) : i < l + 1 => path[i + 1].node \in Needs(f, path[i].node)
        /\ \A rank : Ranks(f, rank) =>
             \A i, j \in 1..(l + 1) : i < j => rank[path[j].node] < rank[path[i].node]
    BY DEF Searched, PathKept, GoesDown
  <2>2. \A i \in 1..l : new[i] = path[i] /\ i \in 1..(l + 1)
    OBVIOUS
  <2>3. \A i \in 1..l : i < l => new[i + 1].node \in Needs(f, new[i].node)
    <3> SUFFICES ASSUME NEW i \in 1..l, i < l PROVE new[i + 1].node \in Needs(f, new[i].node)
      OBVIOUS
    <3>1. i + 1 \in 1..l /\ i < l + 1
      OBVIOUS
    <3> QED BY ONLY <2>1, <2>2, <3>1, i \in 1..l
  <2>4. PathKept(f, new)
    BY <1>5, <2>1, <2>2, <2>3 DEF PathKept
  <2>5. GoesDown(f, new)
    <3> SUFFICES ASSUME NEW rank, Ranks(f, rank), NEW i \in 1..l, NEW j \in 1..l, i < j
                 PROVE  rank[new[j].node] < rank[new[i].node]
      BY DEF GoesDown
    <3> QED BY ONLY <2>1, <2>2, Ranks(f, rank), i \in 1..l, j \in 1..l, i < j
  <2> QED BY <2>4, <2>5
<1> DEFINE last == path[l + 1].node
           more == [p \in 1..(m + 1) |-> IF p = m + 1 THEN last ELSE fin[p]]
<1>7. \A p : p \in 1..(m + 1) <=> p \in 1..m \/ p = m + 1
  BY <1>2
<1>8. \A p \in 1..m : p # m + 1 /\ p < m + 1
  BY <1>2
<1>9. /\ more \in [1..(m + 1) -> Nodes(f)] /\ more[m + 1] = last
      /\ \A p \in 1..m : more[p] = fin[p]
  BY <1>2, <1>5, <1>7, <1>8
<1> HIDE DEF more
<1>10. Explored(f, visited, new, m + 1, more)
  <2>1. \A p, q \in 1..(m + 1) : more[p] = more[q] => p = q
    BY <1>2, <1>3, <1>7, <1>9
  <2>2. \A x : x \in visited <=> \/ \E p \in 1..(m + 1) : more[p] = x
                                 \/ \E i \in 1..l : new[i].node = x
    BY <1>2, <1>3, <1>7, <1>9
  <2>3. \A p \in 1..(m + 1) : \A i \in 1..l : more[p] # new[i].node
    BY <1>2, <1>3, <1>4, <1>5, <1>7, <1>9
  <2>4. ASSUME NEW p \in 1..(m + 1), NEW d \in Needs(f, more[p])
        PROVE  \E q \in 1..(m + 1) : q < p /\ more[q] = d
    <3>1. CASE p \in 1..m
      BY <1>2, <1>7, <1>9, <3>1
    <3>2. CASE p = m + 1
      <4>1. l + 1 \in 1..(l + 1) /\ ~(l + 1 < l + 1)
        OBVIOUS
      <4>2. PICK q \in 1..m : fin[q] = d
        BY ONLY <1>2, <1>9, <2>4, <3>2, <4>1, path[l + 1].todo = {}
      <4> QED BY <1>7, <1>8, <1>9, <3>2, <4>2
    <3> QED BY <1>7, <3>1, <3>2
  <2>5. ASSUME NEW i \in 1..l, NEW d \in Needs(f, new[i].node)
        PROVE  \/ d \in new[i].todo
               \/ \E q \in 1..(m + 1) : more[q] = d
               \/ i < l /\ new[i + 1].node = d
    <3>1. \/ d \in path[i].todo
          \/ \E q \in 1..m : fin[q] = d
          \/ path[i + 1].node = d
      BY <1>2, <1>3
    <3>2. CASE path[i + 1].node = d
      BY <1>4, <1>7, <1>9, <3>2
    <3> QED BY <1>7, <1>9, <3>1, <3>2
  <2>6. m + 1 \in Nat
    BY <1>2
  <2> QED BY <1>9, <2>1, <2>2, <2>3, <2>4, <2>5, <2>6 DEF Explored
<1> QED BY <1>6, <1>10 DEF Searched

\* A neighbour on the path closes a cycle, which no order allows.
LEMMA CycleRefutes ==
  ASSUME NEW f, NEW visited, NEW path, Searched(f, visited, path), NEW l \in Nat \ {0},
         l = Len(path), NEW n \in path[l].todo, NEW k \in 1..l, path[k].node = n,
         NEW rank, Ranks(f, rank)
  PROVE  FALSE
<1>1. \A i \in 1..l : path[i].node \in Nodes(f)
  <2>1. \A i \in 1..l : path[i] \in Frame(f)
    BY DEF Searched, PathKept
  <2> QED BY <2>1 DEF Frame
<1>2. l \in 1..l /\ n \in Needs(f, path[l].node)
  <2>1. l \in 1..l
    OBVIOUS
  <2> QED BY <2>1 DEF Searched, PathKept
<1>3. rank[n] < rank[path[l].node]
  BY <1>1, <1>2 DEF Ranks
<1>4. k = l \/ rank[path[l].node] < rank[path[k].node]
  <2>1. k = l \/ k < l
    OBVIOUS
  <2> QED BY <1>2, <2>1 DEF Searched, GoesDown
<1>5. rank[n] \in Nat /\ rank[path[l].node] \in Nat
  BY <1>1, <1>2 DEF Ranks
<1> QED BY <1>3, <1>4, <1>5

-----------------------------------------------------------------------------
(* The steps.                                                               *)

\* A path of one or more nodes, and the neighbour n taken off the list of the
\* last one.
LEMMA DealtIs ==
  ASSUME NEW f, NEW path \in Seq(Frame(f)), NEW l \in Nat, l = Len(path), l # 0, NEW n
  PROVE  /\ Off(path, n) \in Seq(Frame(f)) /\ Len(Off(path, n)) = l
         /\ WithoutLast(path, l, n, Off(path, n))
<1>1. /\ l \in 1..l /\ DOMAIN path = 1..l /\ \A i \in 1..l : path[i] \in Frame(f)
  OBVIOUS
<1>2. PICK r \in Frame(f) : r = path[l]
  BY <1>1
<1>3. ASSUME NEW S, NEW q \in [node : S, todo : SUBSET S], NEW t \in SUBSET S
      PROVE  /\ [q EXCEPT !.todo = t] \in [node : S, todo : SUBSET S]
             /\ [q EXCEPT !.todo = t].node = q.node /\ [q EXCEPT !.todo = t].todo = t
  OBVIOUS
<1>4. r \in [node : Nodes(f), todo : SUBSET Nodes(f)] /\ r.todo \ {n} \in SUBSET Nodes(f)
  BY DEF Frame
<1>5. PICK e \in Frame(f) : /\ e = [r EXCEPT !.todo = r.todo \ {n}]
                            /\ e.node = r.node /\ e.todo = r.todo \ {n}
  <2>1. /\ [r EXCEPT !.todo = r.todo \ {n}] \in [node : Nodes(f), todo : SUBSET Nodes(f)]
        /\ [r EXCEPT !.todo = r.todo \ {n}].node = r.node
        /\ [r EXCEPT !.todo = r.todo \ {n}].todo = r.todo \ {n}
    BY ONLY <1>3, <1>4, Zenon
  <2> QED BY ONLY <2>1, Zenon DEF Frame
<1>6. Off(path, n) = [path EXCEPT ![l] = e]
  <2>1. Off(path, n) = [path EXCEPT ![l] = [path[l] EXCEPT !.todo = path[l].todo \ {n}]]
    BY DEF Off
  <2> QED BY ONLY <1>2, <1>5, <2>1
<1>7. /\ Off(path, n) \in Seq(Frame(f)) /\ Len(Off(path, n)) = l
      /\ \A i \in 1..l : Off(path, n)[i] = IF i = l THEN e ELSE path[i]
  BY ONLY <1>1, <1>6, path \in Seq(Frame(f)), l \in Nat, l = Len(path), ExceptSeq
<1> QED BY ONLY <1>2, <1>5, <1>7 DEF WithoutLast

\* The search begins with nothing visited.
LEMMA FileInitInv == FileInit => FileInv
<1> SUFFICES ASSUME FileInit PROVE Judged(file, search, accepted)
  BY DEF FileInv
<1>1. Searched(file, {}, <<>>)
  BY NothingSearched
<1>2. /\ search = [pc |-> "fields", visited |-> {}, path |-> <<>>]
      /\ file \in Files /\ accepted = TRUE
  BY DEF FileInit
<1>3. search \in [pc : {"fields", "search", "done"}, visited : SUBSET Nodes(file), path : Seq(Frame(file))]
  BY <1>2
<1>4. VerdictKept(file, search, accepted)
  BY <1>2 DEF VerdictKept
<1> QED BY <1>1, <1>2, <1>3, <1>4 DEF Judged

\* Every step keeps what the search has found out.
LEMMA FileStep == FileInv /\ [FileNext]_fileVars => FileInv'
<1> SUFFICES ASSUME Judged(file, search, accepted), [FileNext]_fileVars
             PROVE  Judged(file', search', accepted')
  BY DEF FileInv
<1> DEFINE Fields == [pc : {"fields", "search", "done"}, visited : SUBSET Nodes(file), path : Seq(Frame(file))]
<1>1. /\ file \in Files /\ accepted \in BOOLEAN /\ search \in Fields
      /\ Searched(file, search.visited, search.path) /\ VerdictKept(file, search, accepted)
  BY DEF Judged
<1>2. PICK visited \in SUBSET Nodes(file), path \in Seq(Frame(file)) :
        visited = search.visited /\ path = search.path
  BY <1>1
<1>3. PICK l \in Nat : l = Len(path) /\ (l = 0 <=> path = <<>>)
  <2>1. Len(path) \in Nat /\ (Len(path) = 0 <=> path = <<>>)
    OBVIOUS
  <2> QED BY <2>1
<1>4. Searched(file, visited, path)
  BY <1>1, <1>2
<1>5. /\ Keys = KeysIn(file) /\ \A key : DepsOf(key) = Needs(file, key)
      /\ KeysIn(file) \subseteq Nodes(file) /\ \A x : Needs(file, x) \subseteq Nodes(file)
  BY InTheModel, NeedsAreNodes
<1>6. ASSUME l # 0
      PROVE  Top = path[l] /\ path[l].todo \subseteq Nodes(file) /\ l \in 1..l
  <2>1. l \in 1..l /\ path[l] \in Frame(file)
    BY <1>3, <1>6
  <2> QED BY <1>2, <1>3, <2>1 DEF Top, Frame
<1>7. ASSUME ValidateFields PROVE Judged(file', search', accepted')
  <2>1. /\ search.pc = "fields" /\ search' = [search EXCEPT !.pc = "search"] /\ file' = file
        /\ accepted' = (file.wellFormed /\ \A i \in DOMAIN file.services : ServiceValid(file.services[i]))
    BY <1>7 DEF ValidateFields
  <2>2. /\ search' \in Fields /\ search'.pc = "search"
        /\ search'.visited = search.visited /\ search'.path = search.path
    BY <1>1, <2>1
  <2>3. accepted' \in BOOLEAN
    BY <2>1
  <2>4. accepted' <=> Valid(file)
    BY <2>1, InTheModel
  <2>5. VerdictKept(file, search', accepted')
    BY <2>2, <2>4 DEF VerdictKept
  <2> QED BY <1>1, <2>1, <2>2, <2>3, <2>5 DEF Judged
<1>8. ASSUME NEW p \in Seq(Frame(file)), NEW v \in SUBSET Nodes(file), Searched(file, v, p),
             search.pc = "search", search' = [search EXCEPT !.visited = v, !.path = p],
             file' = file, accepted' = accepted
      PROVE  Judged(file', search', accepted')
  <2>1. search' \in Fields /\ search'.pc = "search" /\ search'.visited = v /\ search'.path = p
    BY <1>1, <1>8
  <2>2. VerdictKept(file, search', accepted')
    BY <1>1, <1>8, <2>1 DEF VerdictKept
  <2> QED BY <1>1, <1>8, <2>1, <2>2 DEF Judged
<1>9. ASSUME NEW n, l # 0
      PROVE  /\ Off(path, n) \in Seq(Frame(file)) /\ Len(Off(path, n)) = l
             /\ WithoutLast(path, l, n, Off(path, n))
  BY ONLY <1>3, <1>9, path \in Seq(Frame(file)), l \in Nat, DealtIs
<1>10. ASSUME NextRoot PROVE Judged(file', search', accepted')
  <2>1. PICK n \in Keys \ search.visited :
          search' = [search EXCEPT !.visited = @ \cup {n},
                                   !.path = Append(<<>>, [node |-> n, todo |-> DepsOf(n)])]
    BY <1>10 DEF NextRoot, Visit
  <2>2. search.pc = "search" /\ search.path = <<>> /\ file' = file /\ accepted' = accepted
    BY <1>10 DEF NextRoot
  <2> DEFINE frame == [node |-> n, todo |-> Needs(file, n)]
  <2>3. n \in Nodes(file) /\ n \notin visited /\ frame \in Frame(file)
    BY <1>2, <1>5, <2>1 DEF Frame
  <2>4. l = 0
    BY <1>2, <1>3, <2>2
  <2> DEFINE new == <<frame>>
  <2>5. /\ new \in Seq(Frame(file)) /\ Len(new) = l + 1 /\ new[l + 1] = frame
        /\ 1..l = {} /\ Append(<<>>, frame) = new
    BY <2>3, <2>4
  <2> HIDE DEF new
  <2>6. Searched(file, visited \cup {n}, new)
    <3>1. new[l + 1].node = n /\ new[l + 1].todo = Needs(file, n)
      BY ONLY <2>5
    <3>2. WithoutLast(path, l, n, new)
      BY ONLY <2>5 DEF WithoutLast
    <3>3. l > 0 => n \in path[l].todo
      BY <2>4
    <3> QED BY ONLY <1>3, <1>4, <2>3, <2>5, <3>1, <3>2, <3>3, l \in Nat, NodeVisited
  <2>7. search' = [search EXCEPT !.visited = visited \cup {n}, !.path = new]
    <3>1. search' = [search EXCEPT !.visited = @ \cup {n}, !.path = new]
      BY <1>5, <2>1, <2>5
    <3> QED BY <1>2, <3>1
  <2>8. visited \cup {n} \in SUBSET Nodes(file)
    BY <2>3
  <2> QED BY ONLY <1>8, <2>2, <2>5, <2>6, <2>7, <2>8
<1>11. ASSUME Descend PROVE Judged(file', search', accepted')
  <2>1. PICK n \in Top.todo \ search.visited :
          search' = [search EXCEPT !.visited = @ \cup {n},
                                   !.path = Append(Dealt(n), [node |-> n, todo |-> DepsOf(n)])]
    BY <1>11 DEF Descend, Visit
  <2>2. search.pc = "search" /\ search.path # <<>> /\ file' = file /\ accepted' = accepted
    BY <1>11 DEF Descend
  <2>3. l # 0
    BY <1>2, <1>3, <2>2
  <2> DEFINE frame == [node |-> n, todo |-> Needs(file, n)]
             off == Off(path, n)
             new == Append(off, frame)
  <2>4. n \in Nodes(file) /\ n \notin visited /\ frame \in Frame(file) /\ n \in path[l].todo
    BY <1>2, <1>5, <1>6, <2>1, <2>3 DEF Frame
  <2>5. off \in Seq(Frame(file)) /\ Len(off) = l /\ WithoutLast(path, l, n, off)
    BY ONLY <1>9, <2>3
  <2>6. search' = [search EXCEPT !.visited = visited \cup {n}, !.path = new]
    <3>1. Dealt(n) = off
      BY <1>2 DEF Dealt, Off
    <3> QED BY ONLY <1>2, <1>5, <2>1, <3>1
  <2> HIDE DEF off
  <2>7. /\ new \in Seq(Frame(file)) /\ Len(new) = l + 1
        /\ \A i \in 1..l : new[i] = off[i]
        /\ new[l + 1] = frame
    BY <2>4, <2>5
  <2> HIDE DEF new
  <2>8. /\ WithoutLast(path, l, n, new)
        /\ new[l + 1].node = n /\ new[l + 1].todo = Needs(file, n)
    <3>1. WithoutLast(path, l, n, new)
      BY ONLY <2>5, <2>7 DEF WithoutLast
    <3> QED BY ONLY <2>7, <3>1
  <2>9. Searched(file, visited \cup {n}, new)
    BY ONLY <1>3, <1>4, <2>4, <2>7, <2>8, l \in Nat, NodeVisited
  <2>10. visited \cup {n} \in SUBSET Nodes(file)
    BY <2>4
  <2> QED BY ONLY <1>8, <2>2, <2>6, <2>7, <2>9, <2>10
<1>12. ASSUME SeenBefore PROVE Judged(file', search', accepted')
  <2>1. PICK n \in Top.todo \cap search.visited :
          IF n \in OnPath THEN accepted' = FALSE /\ search' = [search EXCEPT !.pc = "done"]
          ELSE search' = [search EXCEPT !.path = Dealt(n)] /\ UNCHANGED accepted
    BY <1>12 DEF SeenBefore
  <2>2. search.pc = "search" /\ search.path # <<>> /\ file' = file
    BY <1>12 DEF SeenBefore
  <2>3. l # 0
    BY <1>2, <1>3, <2>2
  <2>4. n \in path[l].todo /\ n \in visited
    BY <1>2, <1>6, <2>1, <2>3
  <2>5. DOMAIN search.path = 1..l
    BY <1>2, <1>3
  <2>6. CASE n \in OnPath
    <3>1. PICK k \in 1..l : path[k].node = n
      BY <1>2, <2>5, <2>6 DEF OnPath
    <3>2. \A rank : ~Ranks(file, rank)
      BY ONLY <1>3, <1>4, <2>3, <2>4, <3>1, CycleRefutes
    <3>3. /\ search' \in Fields /\ search'.pc = "done"
          /\ search'.visited = search.visited /\ search'.path = search.path
      BY <1>1, <2>1, <2>6
    <3>4. accepted' = FALSE
      BY <2>1, <2>6
    <3>5. VerdictKept(file, search', accepted')
      BY <3>2, <3>3, <3>4 DEF VerdictKept
    <3> QED BY <1>1, <2>2, <3>3, <3>4, <3>5 DEF Judged
  <2>7. CASE n \notin OnPath
    <3>1. \A i \in 1..l : path[i].node # n
      BY <1>2, <2>5, <2>7 DEF OnPath
    <3> DEFINE off == Off(path, n)
    <3>2. off \in Seq(Frame(file)) /\ Len(off) = l /\ WithoutLast(path, l, n, off)
      BY ONLY <1>9, <2>3
    <3>3. search' = [search EXCEPT !.visited = visited, !.path = off] /\ accepted' = accepted
      <4>1. Dealt(n) = off
        BY <1>2 DEF Dealt, Off
      <4>2. search' = [search EXCEPT !.path = off] /\ accepted' = accepted
        BY ONLY <2>1, <2>7, <4>1
      <4> QED BY <1>1, <1>2, <4>2
    <3> HIDE DEF off
    <3>4. Searched(file, visited, off)
      BY ONLY <1>3, <1>4, <2>4, <3>1, <3>2, NodeDealtWith
    <3> QED BY ONLY <1>2, <1>8, <2>2, <3>2, <3>3, <3>4
  <2> QED BY <2>6, <2>7
<1>13. ASSUME Backtrack PROVE Judged(file', search', accepted')
  <2>1. /\ search.pc = "search" /\ search.path # <<>> /\ file' = file /\ accepted' = accepted
        /\ Top.todo = {} /\ search' = [search EXCEPT !.path = Front(@)]
    BY <1>13 DEF Backtrack
  <2>2. PICK k \in Nat : k + 1 = l
    <3>1. l # 0
      BY <1>2, <1>3, <2>1
    <3>2. l - 1 \in Nat /\ (l - 1) + 1 = l
      BY ONLY <3>1, l \in Nat
    <3> QED BY ONLY <3>2
  <2>3. path[k + 1].todo = {} /\ k + 1 = Len(path)
    BY <1>3, <1>6, <2>1, <2>2
  <2>4. /\ Front(path) \in Seq(Frame(file)) /\ Len(Front(path)) = k
        /\ \A i \in 1..k : Front(path)[i] = path[i]
    BY <2>2, <2>3 DEF Front
  <2>5. Searched(file, visited, Front(path))
    BY ONLY <1>4, <2>2, <2>3, <2>4, NodeFinished
  <2>6. search' = [search EXCEPT !.visited = visited, !.path = Front(path)]
    BY <1>1, <1>2, <2>1
  <2> QED BY ONLY <1>2, <1>8, <2>1, <2>4, <2>5, <2>6
<1>14. ASSUME SearchDone PROVE Judged(file', search', accepted')
  <2>1. /\ search.pc = "search" /\ search.path = <<>> /\ file' = file /\ accepted' = accepted
        /\ Keys \subseteq search.visited /\ search' = [search EXCEPT !.pc = "done"]
    BY <1>14 DEF SearchDone
  <2>2. /\ search' \in Fields /\ search'.pc = "done"
        /\ search'.visited = search.visited /\ search'.path = search.path
    BY <1>1, <2>1
  <2>3. (accepted => Valid(file)) /\ (Valid(file) => accepted)
    BY <1>1, <2>1 DEF VerdictKept
  <2>4. VerdictKept(file, search', accepted')
    BY <1>5, <2>1, <2>2, <2>3 DEF VerdictKept
  <2> QED BY <1>1, <2>1, <2>2, <2>4 DEF Judged
<1>15. CASE UNCHANGED fileVars
  BY <1>15 DEF fileVars
<1> QED BY <1>7, <1>10, <1>11, <1>12, <1>13, <1>14, <1>15 DEF FileNext

-----------------------------------------------------------------------------
(* The verdict.                                                             *)

\* Services under their own names.
OwnNames(f) == \A i \in DOMAIN f.services : f.services[i].name = f.services[i].key

\* There are n numbers up to n.
LEMMA UpToHas ==
  ASSUME NEW n \in Nat
  PROVE  Cardinality(1..n) = n
<1>1. n \in Int /\ 1 \in Int /\ (1 > n \/ n - 1 + 1 = n) /\ (1 > n => n = 0)
  OBVIOUS
<1>2. Cardinality(1..n) = IF 1 > n THEN 0 ELSE n - 1 + 1
  BY FS_Interval
<1> QED BY <1>1, <1>2

\* The services of a file are numbered, and each is the node of its name.
LEMMA ServiceFacts ==
  ASSUME NEW f \in Files, OwnNames(f)
  PROVE  /\ Len(f.services) \in Nat /\ DOMAIN f.services = 1..Len(f.services)
         /\ \A i \in 1..Len(f.services) :
              /\ Node(f.services, f.services[i].key) = i
              /\ Node(f.services, f.services[i].name) = i
<1>1. f.services \in Seq(Range(f.services))
  BY FilesAssumption
<1>2. PICK n \in Nat : n = Len(f.services) /\ DOMAIN f.services = 1..n
  BY <1>1, LenProperties
<1>3. ASSUME NEW i \in 1..n
      PROVE  Node(f.services, f.services[i].key) = i /\ Node(f.services, f.services[i].name) = i
  <2>1. \A j \in DOMAIN f.services : f.services[j].name = f.services[i].name => j = i
    BY <1>2, FilesAssumption DEF OwnNames
  <2>2. i \in DOMAIN f.services /\ f.services[i].name = f.services[i].name /\ i <= i
    BY <1>2
  <2>3. Node(f.services, f.services[i].name) = i
    BY ONLY <2>1, <2>2 DEF Node
  <2> QED BY <1>2, <2>3 DEF OwnNames
<1> QED BY <1>2, <1>3

\* The edges of a valid file join services to those they need.
LEMMA EdgeIs ==
  ASSUME NEW f \in Files, OwnNames(f), Valid(f), NEW i \in DOMAIN f.services,
         NEW d \in f.services[i].deps
  PROVE  \E j \in DOMAIN f.services :
           /\ f.services[j].key = d /\ <<j, i>> \in Edges(f.services)
<1>1. PICK n : n = Len(f.services) /\ DOMAIN f.services = 1..n
  BY ServiceFacts
<1>2. \A k \in 1..n : /\ Node(f.services, f.services[k].key) = k
                      /\ Node(f.services, f.services[k].name) = k
  BY <1>1, ServiceFacts
<1>3. PICK j \in DOMAIN f.services : f.services[j].key = d
  BY DEF Valid, KeysIn
<1>4. Node(f.services, d) = j /\ Node(f.services, f.services[i].name) = i
  BY <1>1, <1>2, <1>3
<1>5. <<Node(f.services, d), Node(f.services, f.services[i].name)>> \in Edges(f.services)
  BY DEF Edges
<1> QED BY <1>3, <1>4, <1>5

\* The order in which the services of a valid file were finished is one in
\* which they can be started.
LEMMA FinishedIsAnOrder ==
  ASSUME NEW f \in Files, OwnNames(f), Valid(f), NEW visited, KeysIn(f) \subseteq visited,
         Searched(f, visited, <<>>)
  PROVE  StartupOrders(f.services) # {}
<1>1. PICK n \in Nat : n = Len(f.services) /\ DOMAIN f.services = 1..n
  BY ServiceFacts
<1>2. \A k \in 1..n : /\ Node(f.services, f.services[k].key) = k
                      /\ Node(f.services, f.services[k].name) = k
  BY <1>1, ServiceFacts
<1>3. PICK m, fin : Explored(f, visited, <<>>, m, fin)
  BY DEF Searched
<1>4. /\ m \in Nat /\ fin \in [1..m -> KeysIn(f)]
      /\ \A p, q \in 1..m : fin[p] = fin[q] => p = q
      /\ \A x \in KeysIn(f) : \E p \in 1..m : fin[p] = x
      /\ \A p \in 1..m : \A d \in Needs(f, fin[p]) : \E q \in 1..m : q < p /\ fin[q] = d
  <2>1. Len(<<>>) = 0 /\ 1..0 = {}
    OBVIOUS
  <2> QED BY <1>3, <2>1, NeedsAreNodes DEF Explored
<1> DEFINE order == [p \in 1..m |-> Node(f.services, fin[p])]
<1>5. \A p \in 1..m : order[p] \in 1..n /\ f.services[order[p]].key = fin[p]
  <2> SUFFICES ASSUME NEW p \in 1..m PROVE order[p] \in 1..n /\ f.services[order[p]].key = fin[p]
    OBVIOUS
  <2>1. PICK k \in 1..n : f.services[k].key = fin[p]
    BY <1>1, <1>4 DEF KeysIn
  <2>2. order[p] = k
    BY <1>2, <2>1
  <2> QED BY <2>1, <2>2
<1>6. \A k \in 1..n : \E p \in 1..m : order[p] = k /\ fin[p] = f.services[k].key
  <2> SUFFICES ASSUME NEW k \in 1..n
               PROVE  \E p \in 1..m : order[p] = k /\ fin[p] = f.services[k].key
    OBVIOUS
  <2>1. f.services[k].key \in KeysIn(f)
    BY <1>1 DEF KeysIn
  <2>2. PICK p \in 1..m : fin[p] = f.services[k].key
    BY <1>4, <2>1
  <2> QED BY <1>2, <2>2
<1>7. order \in [1..m -> 1..n]
  BY <1>5
<1> HIDE DEF order
<1>8. \A p, q \in 1..m : order[p] = order[q] => p = q
  BY <1>4, <1>5
<1>9. m = n
  <2>1. order \in Injection(1..m, 1..n) /\ order \in Surjection(1..m, 1..n)
    BY <1>6, <1>7, <1>8 DEF Injection, IsInjective, Surjection
  <2>2. IsFiniteSet(1..n)
    BY FS_Interval
  <2>3. Cardinality(1..m) = Cardinality(1..n)
    BY <2>1, <2>2, FS_Injection
  <2>4. Cardinality(1..m) = m /\ Cardinality(1..n) = n
    BY <1>4, UpToHas
  <2> QED BY <2>3, <2>4
<1>10. order \in SetToSeqs(DOMAIN f.services)
  <2>1. Cardinality(1..n) = n
    BY UpToHas
  <2> QED BY <1>1, <1>7, <1>8, <1>9, <2>1 DEF SetToSeqs
<1>11. ASSUME NEW e \in Edges(f.services)
       PROVE  \E p, q \in DOMAIN order : order[p] = e[1] /\ order[q] = e[2] /\ p < q
  <2>1. PICK i \in 1..n : \E d \in f.services[i].deps :
          e = <<Node(f.services, d), Node(f.services, f.services[i].name)>>
    BY ONLY <1>1, e \in Edges(f.services) DEF Edges
  <2>2. PICK d \in f.services[i].deps :
          e = <<Node(f.services, d), Node(f.services, f.services[i].name)>>
    BY <2>1
  <2>3. PICK q \in 1..m : order[q] = i /\ fin[q] = f.services[i].key
    BY <1>6
  <2>4. d \in Needs(f, fin[q])
    BY <1>1, <2>3 DEF Needs
  <2>5. PICK p \in 1..m : p < q /\ fin[p] = d
    BY <1>4, <2>4
  <2>6. order[p] = Node(f.services, d)
    BY <1>2, <1>5, <2>5
  <2>7. Node(f.services, f.services[i].name) = i
    BY <1>2
  <2>8. DOMAIN order = 1..m
    BY <1>7
  <2>9. e[1] = order[p] /\ e[2] = order[q]
    BY <2>2, <2>3, <2>6, <2>7
  <2> QED BY <2>5, <2>8, <2>9
<1>12. ~DependencyNotFound(f.services)
  BY DEF DependencyNotFound, Known, Valid, KeysIn, OwnNames
<1>13. order \in TopologicalOrders(f.services)
  BY <1>10, <1>11 DEF TopologicalOrders
<1> QED BY <1>12, <1>13 DEF StartupOrders

\* An order to start the services of a valid file in ranks its nodes.
LEMMA OrderRanks ==
  ASSUME NEW f \in Files, OwnNames(f), Valid(f), StartupOrders(f.services) # {}
  PROVE  \E rank : Ranks(f, rank)
<1>1. PICK n \in Nat : n = Len(f.services) /\ DOMAIN f.services = 1..n
  BY ServiceFacts
<1>2. \A k \in 1..n : Node(f.services, f.services[k].key) = k
  BY <1>1, ServiceFacts
<1>3. PICK order : order \in TopologicalOrders(f.services)
  BY DEF StartupOrders
<1>4. order \in [1..n -> 1..n] /\ \A p, q \in 1..n : order[p] = order[q] => p = q
  <2>1. Cardinality(1..n) = n
    BY UpToHas
  <2> QED BY <1>1, <1>3, <2>1 DEF TopologicalOrders, SetToSeqs
<1> DEFINE Place(x) == {p \in 1..n : order[p] = Node(f.services, x)}
           rank == [x \in Nodes(f) |-> IF Place(x) = {} THEN 0 ELSE CHOOSE p \in Place(x) : TRUE]
<1>5. \A x \in Nodes(f) : \A p \in Place(x) : rank[x] = p
  <2> SUFFICES ASSUME NEW x \in Nodes(f), NEW p \in Place(x) PROVE rank[x] = p
    OBVIOUS
  <2>1. \A q \in Place(x) : q = p
    BY <1>4
  <2> QED BY <2>1
<1>6. rank \in [Nodes(f) -> Nat]
  <2> SUFFICES ASSUME NEW x \in Nodes(f) PROVE rank[x] \in Nat
    OBVIOUS
  <2>1. CASE Place(x) = {}
    BY <2>1
  <2>2. CASE Place(x) # {}
    <3>1. PICK p \in Place(x) : rank[x] = p
      BY <1>5, <2>2
    <3> QED BY <3>1
  <2> QED BY <2>1, <2>2
<1> HIDE DEF rank
<1>7. ASSUME NEW x \in Nodes(f), NEW d \in Needs(f, x) PROVE rank[d] < rank[x]
  <2>1. PICK i \in 1..n : f.services[i].key = x /\ d \in f.services[i].deps
    BY <1>1 DEF Needs
  <2>2. PICK j \in 1..n : f.services[j].key = d /\ <<j, i>> \in Edges(f.services)
    BY <1>1, <2>1, EdgeIs
  <2>3. PICK p, q \in 1..n : order[p] = j /\ order[q] = i /\ p < q
    <3>1. PICK p, q \in DOMAIN order : order[p] = <<j, i>>[1] /\ order[q] = <<j, i>>[2] /\ p < q
      BY <1>3, <2>2 DEF TopologicalOrders
    <3> QED BY <1>4, <3>1
  <2>4. p \in Place(d) /\ q \in Place(x)
    BY <1>2, <2>1, <2>2, <2>3
  <2>5. d \in Nodes(f)
    BY NeedsAreNodes
  <2>6. rank[d] = p /\ rank[x] = q
    BY <1>5, <2>4, <2>5
  <2> QED BY <2>3, <2>6
<1> QED BY <1>6, <1>7 DEF Ranks

\* What the invariant says of a search that is over.
LEMMA InvAgrees == FileInv => VerdictsAgree
<1> SUFFICES ASSUME Judged(file, search, accepted), search.pc = "done",
                    \A i \in DOMAIN file.services :
                      /\ file.services[i].source # "image"
                      /\ file.services[i].name = file.services[i].key
             PROVE  IF accepted
                    THEN Deployable <=> \A i \in DOMAIN file.services : file.services[i].resolves
                    ELSE Valid(file) => StartupOrders(file.services) = {}
  BY InTheModel DEF FileInv, VerdictsAgree
<1>1. /\ file \in Files /\ accepted \in BOOLEAN /\ Searched(file, search.visited, search.path)
      /\ VerdictKept(file, search, accepted) /\ OwnNames(file)
  BY DEF Judged, OwnNames
<1>2. CASE accepted
  <2>1. Valid(file) /\ search.path = <<>> /\ KeysIn(file) \subseteq search.visited
    BY <1>1, <1>2 DEF VerdictKept
  <2>2. StartupOrders(file.services) # {}
    BY ONLY <1>1, <2>1, FinishedIsAnOrder
  <2> QED BY <1>2, <2>1, <2>2 DEF Deployable, Valid
<1>3. CASE ~accepted
  <2> SUFFICES ASSUME Valid(file) PROVE StartupOrders(file.services) = {}
    BY <1>3
  <2>1. \A rank : ~Ranks(file, rank)
    BY <1>1, <1>3 DEF VerdictKept
  <2> QED BY ONLY <1>1, <2>1, Valid(file), OrderRanks
<1> QED BY <1>1, <1>2, <1>3

\* `fabricks validate` and the daemon agree on every file, up to variables
\* that have neither value nor default: what is accepted can be deployed if
\* its environments resolve, what is refused for a cycle cannot, in whatever
\* order the services are searched.
THEOREM VerdictsAlwaysAgree == FileSpec => []VerdictsAgree
<1>1. FileSpec => []FileInv
  BY FileInitInv, FileStep, PTL DEF FileSpec
<1> QED BY <1>1, InvAgrees, PTL
=============================================================================
