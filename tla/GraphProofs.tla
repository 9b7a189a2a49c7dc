----------------------------- MODULE GraphProofs ----------------------------
(***************************************************************************)
(* add_dependency keeps the two adjacency maps mirrored and closed, and    *)
(* validate_acyclic accepts exactly the graphs without a cycle, for any    *)
(* names and any sequence of calls.                                        *)
(***************************************************************************)
EXTENDS DependencyGraph, FiniteSetTheorems, SequenceTheorems, TLAPS

-----------------------------------------------------------------------------
(* add_dependency.                                                         *)

LEMMA AtType ==
  ASSUME NEW map, ListMapOK(map), NEW k
  PROVE  At(map, k) \in Seq(Name)
  BY DEF ListMapOK, At

LEMMA PushBackType ==
  ASSUME NEW map, ListMapOK(map), NEW k \in Name, NEW v \in Name,
         NEW other \in Name
  PROVE  /\ ListMapOK(PushBack(map, k, v, other))
         /\ DOMAIN PushBack(map, k, v, other) = DOMAIN map \cup {k, other}
         /\ At(PushBack(map, k, v, other), k) = Append(At(map, k), v)
         /\ \A n : n # k => At(PushBack(map, k, v, other), n) = At(map, n)
  BY AtType DEF ListMapOK, PushBack, At

LEMMA OccursType ==
  ASSUME NEW list \in Seq(Name), NEW n
  PROVE  /\ IsFiniteSet({i \in DOMAIN list : list[i] = n})
         /\ Occurrences(list, n) \in Nat
  <1>1. DOMAIN list = 1 .. Len(list) /\ Len(list) \in Nat
    OBVIOUS
  <1>2. IsFiniteSet(DOMAIN list)
    BY <1>1, FS_Interval
  <1>3. IsFiniteSet({i \in DOMAIN list : list[i] = n})
    BY <1>2, FS_Subset
  <1> QED
    BY <1>3, FS_CardinalityType DEF Occurrences

\* Appending v adds one occurrence of v and none of another name.
LEMMA AppendOccurs ==
  ASSUME NEW list \in Seq(Name), NEW v \in Name, NEW n \in Name
  PROVE  Occurrences(Append(list, v), n) =
           Occurrences(list, n) + (IF v = n THEN 1 ELSE 0)
  <1> DEFINE places == {i \in DOMAIN list : list[i] = n}
             longer == {i \in DOMAIN Append(list, v) : Append(list, v)[i] = n}
  <1>1. /\ DOMAIN list = 1 .. Len(list) /\ Len(list) \in Nat
        /\ DOMAIN Append(list, v) = 1 .. Len(list) \cup {Len(list) + 1}
        /\ \A i \in 1 .. Len(list) : Append(list, v)[i] = list[i]
        /\ Append(list, v)[Len(list) + 1] = v
    OBVIOUS
  <1>2. IsFiniteSet(places) /\ Cardinality(places) \in Nat
    BY OccursType DEF Occurrences
  <1>3. CASE v = n
    <2>1. longer = places \cup {Len(list) + 1}
      BY <1>1, <1>3
    <2>2. Len(list) + 1 \notin places
      BY <1>1
    <2>3. Cardinality(longer) = Cardinality(places) + 1
      BY <1>2, <2>1, <2>2, FS_AddElement
    <2> QED
      BY <1>3, <2>3 DEF Occurrences
  <1>4. CASE v # n
    <2>1. longer = places
      BY <1>1, <1>4
    <2>2. Cardinality(longer) = Cardinality(places)
      BY <2>1
    <2>3. Cardinality(longer) = Cardinality(places) + 0
      <3> HIDE DEF longer, places
      <3> QED
        BY <1>2, <2>2
    <2> QED
      BY <1>4, <2>3 DEF Occurrences
  <1> QED
    BY <1>3, <1>4

\* Both maps get the edge, and every name it mentions an entry.
LEMMA AddMirrors ==
  ASSUME GraphTypeOK, EdgesMirrored, LookupsDoNotInsert,
         NEW u \in Name, NEW v \in Name, add_dependency(u, v)
  PROVE  /\ ListMapOK(adj') /\ ListMapOK(rev_adj')
         /\ EdgesMirrored'
         /\ LookupsDoNotInsert'
         /\ \A n : Len(At(adj, n)) <= Len(At(adj', n))
  <1>1. /\ ListMapOK(adj) /\ ListMapOK(rev_adj)
        /\ adj' = PushBack(adj, u, v, v)
        /\ rev_adj' = PushBack(rev_adj, v, u, u)
    BY DEF GraphTypeOK, add_dependency
  <1>2. /\ ListMapOK(adj')
        /\ DOMAIN adj' = DOMAIN adj \cup {u, v}
        /\ At(adj', u) = Append(At(adj, u), v)
        /\ \A n : n # u => At(adj', n) = At(adj, n)
    <2>1. /\ ListMapOK(PushBack(adj, u, v, v))
          /\ DOMAIN PushBack(adj, u, v, v) = DOMAIN adj \cup {u, v}
          /\ At(PushBack(adj, u, v, v), u) = Append(At(adj, u), v)
          /\ \A n : n # u => At(PushBack(adj, u, v, v), n) = At(adj, n)
      BY <1>1, PushBackType
    <2> QED
      BY <1>1, <2>1
  <1>3. /\ ListMapOK(rev_adj')
        /\ At(rev_adj', v) = Append(At(rev_adj, v), u)
        /\ \A n : n # v => At(rev_adj', n) = At(rev_adj, n)
    <2>1. /\ ListMapOK(PushBack(rev_adj, v, u, u))
          /\ At(PushBack(rev_adj, v, u, u), v) = Append(At(rev_adj, v), u)
          /\ \A n : n # v => At(PushBack(rev_adj, v, u, u), n) = At(rev_adj, n)
      BY <1>1, PushBackType
    <2> QED
      BY <1>1, <2>1
  <1>4. \A n : At(adj, n) \in Seq(Name) /\ At(rev_adj, n) \in Seq(Name)
    BY <1>1, AtType
  <1>5. ASSUME NEW m \in Name, NEW n \in Name
        PROVE  /\ Occurrences(At(adj', m), n) = Occurrences(At(adj, m), n)
                    + (IF m = u /\ n = v THEN 1 ELSE 0)
               /\ Occurrences(At(rev_adj', n), m) =
                    Occurrences(At(rev_adj, n), m)
                    + (IF m = u /\ n = v THEN 1 ELSE 0)
    <2>1. /\ Occurrences(At(adj, m), n) \in Nat
          /\ Occurrences(At(rev_adj, n), m) \in Nat
      BY <1>4, OccursType
    <2>2. Occurrences(At(adj', m), n) = Occurrences(At(adj, m), n)
            + (IF m = u /\ n = v THEN 1 ELSE 0)
      <3>1. CASE m = u
        <4>1. At(adj', m) = Append(At(adj, m), v)
          BY <1>2, <3>1
        <4> QED
          BY <1>4, <2>1, <3>1, <4>1, AppendOccurs
      <3>2. CASE m # u
        BY <1>2, <2>1, <3>2
      <3> QED
        BY <3>1, <3>2
    <2>3. Occurrences(At(rev_adj', n), m) = Occurrences(At(rev_adj, n), m)
            + (IF m = u /\ n = v THEN 1 ELSE 0)
      <3>1. CASE n = v
        <4>1. At(rev_adj', n) = Append(At(rev_adj, n), u)
          BY <1>3, <3>1
        <4> QED
          BY <1>4, <2>1, <3>1, <4>1, AppendOccurs
      <3>2. CASE n # v
        BY <1>3, <2>1, <3>2
      <3> QED
        BY <3>1, <3>2
    <2> QED
      BY <2>2, <2>3
  <1>6. EdgesMirrored'
    BY <1>5 DEF EdgesMirrored
  <1>7. \A n : Len(At(adj, n)) <= Len(At(adj', n))
    <2> TAKE n
    <2>1. CASE n = u
      BY <1>2, <1>4, <2>1
    <2>2. CASE n # u
      BY <1>2, <1>4, <2>2
    <2> QED
      BY <2>1, <2>2
  <1>8. LookupsDoNotInsert'
    <2> SUFFICES ASSUME NEW n \in DOMAIN adj', NEW i \in DOMAIN At(adj', n)
                 PROVE  At(adj', n)[i] \in DOMAIN adj'
      BY DEF LookupsDoNotInsert, Successors
    <2>1. DOMAIN At(adj, n) = 1 .. Len(At(adj, n))
      BY <1>4
    <2>2. CASE n = u
      <3>1. \/ At(adj', n)[i] = v
            \/ i \in DOMAIN At(adj, n) /\ At(adj', n)[i] = At(adj, n)[i]
        <4>1. At(adj', n) = Append(At(adj, n), v) /\ At(adj, n) \in Seq(Name)
          BY <1>2, <1>4, <2>2
        <4> QED
          BY <2>1, <4>1
      <3>2. i \in DOMAIN At(adj, n) => n \in DOMAIN adj
        BY <2>1 DEF At
      <3> QED
        BY <1>2, <3>1, <3>2 DEF LookupsDoNotInsert, Successors
    <2>3. CASE n # u
      <3>1. i \in DOMAIN At(adj, n) /\ At(adj', n)[i] = At(adj, n)[i]
        BY <1>2, <2>3
      <3>2. n \in DOMAIN adj
        BY <2>1, <3>1 DEF At
      <3> QED
        BY <1>2, <3>1, <3>2 DEF LookupsDoNotInsert, Successors
    <2> QED
      BY <2>2, <2>3
  <1> QED
    BY <1>2, <1>3, <1>6, <1>7, <1>8

-----------------------------------------------------------------------------
(* The stack of activations.                                               *)

LEMMA FrontOf ==
  ASSUME NEW S, NEW s \in Seq(S), NEW n \in Nat \ {0}, Len(s) = n
  PROVE  /\ SubSeq(s, 1, n - 1) \in Seq(S)
         /\ Len(SubSeq(s, 1, n - 1)) = n - 1
         /\ \A i \in 1 .. n - 1 : SubSeq(s, 1, n - 1)[i] = s[i]
  <1> DEFINE b == SubSeq(s, 1, n - 1)
  <1>1. \A i \in 1 .. n - 1 : s[i] \in S
    BY ElementOfSeq
  <1>2. /\ b \in Seq(S)
        /\ Len(b) = IF 1 <= n - 1 THEN n - 1 - 1 + 1 ELSE 0
        /\ \A i \in 1 .. n - 1 - 1 + 1 : b[i] = s[1 + i - 1]
    BY <1>1, SubSeqProperties
  <1> HIDE DEF b
  <1>3. ASSUME NEW i \in 1 .. n - 1
        PROVE  b[i] = s[i]
    <2>1. 1 + i - 1 = i /\ i \in 1 .. n - 1 - 1 + 1
      OBVIOUS
    <2> QED
      BY <1>2, <2>1
  <1>4. Len(b) = n - 1
    BY <1>2
  <1> QED
    BY <1>2, <1>3, <1>4 DEF b

LEMMA StackForms ==
  ASSUME GraphTypeOK, stack # <<>>
  PROVE  /\ Len(stack) \in Nat \ {0}
         /\ DOMAIN stack = 1 .. Len(stack)
         /\ Top = stack[Len(stack)] /\ Top \in Frame
         /\ Below \in Seq(Frame) /\ Len(Below) = Len(stack) - 1
         /\ \A i \in 1 .. Len(stack) - 1 : Below[i] = stack[i]
         /\ Advanced \in Frame
         /\ Advanced.node = Top.node /\ Advanced.next = Top.next + 1
  <1>1. stack \in Seq(Frame) /\ Len(stack) \in Nat \ {0}
    BY DEF GraphTypeOK
  <1>2. Top \in Frame
    BY <1>1 DEF Top
  <1>3. /\ Advanced \in Frame
        /\ Advanced.node = Top.node /\ Advanced.next = Top.next + 1
    BY <1>2 DEF Advanced, Frame
  <1>4. /\ Below \in Seq(Frame) /\ Len(Below) = Len(stack) - 1
        /\ \A i \in 1 .. Len(stack) - 1 : Below[i] = stack[i]
    BY <1>1, FrontOf DEF Below
  <1> QED
    BY <1>1, <1>2, <1>3, <1>4 DEF Top

\* The top activation moves on to its next edge.
LEMMA StackAdvances ==
  ASSUME GraphTypeOK, stack # <<>>, NEW s, s = Append(Below, Advanced)
  PROVE  /\ s \in Seq(Frame) /\ Len(s) = Len(stack)
         /\ DOMAIN s = 1 .. Len(stack)
         /\ \A i \in 1 .. Len(stack) - 1 : s[i] = stack[i]
         /\ s[Len(stack)] = Advanced
  <1> DEFINE b == Below
             a == Advanced
             n == Len(stack)
  <1>1. /\ n \in Nat \ {0} /\ b \in Seq(Frame) /\ Len(b) = n - 1
        /\ a \in Frame /\ \A i \in 1 .. n - 1 : b[i] = stack[i]
    BY StackForms
  <1>2. s = Append(b, a)
    OBVIOUS
  <1> HIDE DEF a, b, n
  <1>3. /\ s \in Seq(Frame) /\ Len(s) = Len(b) + 1
        /\ \A i \in 1 .. Len(b) : s[i] = b[i]
        /\ s[Len(b) + 1] = a
    BY <1>1, <1>2, AppendProperties
  <1>4. /\ s \in Seq(Frame) /\ Len(s) = n /\ DOMAIN s = 1 .. n
        /\ \A i \in 1 .. n - 1 : s[i] = stack[i]
        /\ s[n] = a
    BY <1>1, <1>3
  <1> QED
    BY <1>4 DEF a, n

\* It does so and calls dfs on a node.
LEMMA StackGrows ==
  ASSUME GraphTypeOK, stack # <<>>, NEW f \in Frame,
         NEW s, s = Append(Append(Below, Advanced), f)
  PROVE  /\ s \in Seq(Frame) /\ Len(s) = Len(stack) + 1
         /\ DOMAIN s = 1 .. Len(stack) + 1
         /\ \A i \in 1 .. Len(stack) - 1 : s[i] = stack[i]
         /\ s[Len(stack)] = Advanced /\ s[Len(stack) + 1] = f
  <1> DEFINE b == Append(Below, Advanced)
             n == Len(stack)
  <1>1. /\ n \in Nat \ {0} /\ b \in Seq(Frame) /\ Len(b) = n
        /\ \A i \in 1 .. n - 1 : b[i] = stack[i]
        /\ b[n] = Advanced
    BY StackForms, StackAdvances
  <1>2. s = Append(b, f)
    OBVIOUS
  <1> HIDE DEF b, n
  <1>3. /\ s \in Seq(Frame) /\ Len(s) = Len(b) + 1
        /\ \A i \in 1 .. Len(b) : s[i] = b[i]
        /\ s[Len(b) + 1] = f
    BY <1>1, <1>2, AppendProperties
  <1>4. /\ s \in Seq(Frame) /\ Len(s) = n + 1 /\ DOMAIN s = 1 .. n + 1
        /\ \A i \in 1 .. n - 1 : s[i] = stack[i]
        /\ s[n] = Advanced /\ s[n + 1] = f
    BY <1>1, <1>3
  <1> QED
    BY <1>4 DEF n

-----------------------------------------------------------------------------
(* The search.                                                             *)

Visited == {n \in Name : state[n] = "visited"}

\* No names of V lead round in a circle.
NoCycleIn(V) ==
  \A S \in SUBSET V : S # {} => \E n \in S : Successors(n) \cap S = {}

\* The edges an activation has taken lead to visited names, but for the one
\* it is inside.
Handled ==
  \A i \in DOMAIN stack : \A j \in 1 .. stack[i].next - 1 :
    \/ state[At(adj, stack[i].node)[j]] = "visited"
    \/ i < Len(stack) /\ j = stack[i].next - 1

\* What is visited is closed and has no cycle, and nothing the outer loop
\* has passed is unvisited.
SearchInv ==
  status = "dfs" =>
    /\ Handled
    /\ \A n \in Visited : Successors(n) \subseteq Visited
    /\ NoCycleIn(Visited)
    /\ \A n \in DOMAIN adj \ unstarted : state[n] # "unvisited"

GraphInv ==
  /\ GraphTypeOK /\ LookupsDoNotInsert /\ EdgesMirrored
  /\ VisitingIsOnStack /\ SearchInv /\ VerdictCorrect

\* The graph is what the search sees, however long it runs.
LEMMA SameGraph ==
  ASSUME UNCHANGED graphVars
  PROVE  /\ UNCHANGED <<adj, rev_adj, edges>>
         /\ \A n : At(adj', n) = At(adj, n)
         /\ \A n : Successors(n)' = Successors(n)
         /\ Cyclic' <=> Cyclic
         /\ LookupsDoNotInsert => LookupsDoNotInsert'
         /\ EdgesMirrored => EdgesMirrored'
         /\ ListMapOK(adj) => ListMapOK(adj')
         /\ ListMapOK(rev_adj) => ListMapOK(rev_adj')
  BY DEF graphVars, Successors, Cyclic, LookupsDoNotInsert, EdgesMirrored,
         ListMapOK

\* The edge at the top of the stack.
LEMMA AtTop ==
  ASSUME GraphInv, status = "dfs", stack # <<>>
  PROVE  /\ Top.node \in Name /\ Top.next \in Nat \ {0}
         /\ At(adj, Top.node) \in Seq(Name)
         /\ Len(At(adj, Top.node)) \in Nat
         /\ DOMAIN At(adj, Top.node) = 1 .. Len(At(adj, Top.node))
         /\ Top.next <= Len(At(adj, Top.node)) + 1
         /\ state[Top.node] = "visiting"
         /\ AtEdge => /\ Target \in Name /\ Target \in Successors(Top.node)
                      /\ Top.next <= Len(At(adj, Top.node))
  <1>1. /\ Len(stack) \in DOMAIN stack /\ Top = stack[Len(stack)]
        /\ Top \in Frame
    BY StackForms DEF GraphInv
  <1>2. Top.node \in Name /\ Top.next \in Nat \ {0}
    BY <1>1 DEF Frame
  <1>3. At(adj, Top.node) \in Seq(Name)
    BY AtType DEF GraphInv, GraphTypeOK
  <1>4. Top.next <= Len(At(adj, Top.node)) + 1
    BY <1>1 DEF GraphInv, GraphTypeOK
  <1>5. state[Top.node] = "visiting"
    BY <1>1 DEF GraphInv, VisitingIsOnStack
  <1>6. ASSUME AtEdge
        PROVE  /\ Target \in Name /\ Target \in Successors(Top.node)
               /\ Top.next <= Len(At(adj, Top.node))
    BY <1>2, <1>3, <1>6 DEF AtEdge, Target, Successors
  <1> QED
    BY <1>2, <1>3, <1>4, <1>5, <1>6

LEMMA StartKeeps ==
  ASSUME GraphInv, NEW n \in Name, StartNode(n)
  PROVE  GraphInv'
  <1>1. /\ UNCHANGED graphVars /\ status = "dfs" /\ status' = "dfs"
        /\ stack = <<>> /\ unstarted' = unstarted \ {n}
        /\ state \in [Name -> {"unvisited", "visiting", "visited"}]
        /\ unstarted \subseteq Name
    BY DEF StartNode, GraphInv, GraphTypeOK
  <1>2. CASE state[n] # "unvisited"
    <2>1. UNCHANGED <<state, stack>>
      BY <1>2 DEF StartNode
    <2>2. GraphTypeOK'
      BY <1>1, <2>1, SameGraph DEF GraphInv, GraphTypeOK
    <2>3. VisitingIsOnStack'
      BY <1>1, <2>1, SameGraph DEF GraphInv, VisitingIsOnStack
    <2>4. SearchInv'
      BY <1>1, <1>2, <2>1, SameGraph
      DEF GraphInv, SearchInv, Handled, Visited, NoCycleIn
    <2> QED
      BY <1>1, <2>2, <2>3, <2>4, SameGraph DEF GraphInv, VerdictCorrect
  <1>3. CASE state[n] = "unvisited"
    <2>1. /\ state' = [state EXCEPT ![n] = "visiting"]
          /\ stack' = <<[node |-> n, next |-> 1]>>
      BY <1>3 DEF StartNode
    <2>2. /\ [node |-> n, next |-> 1] \in Frame
          /\ stack' \in Seq(Frame) /\ Len(stack') = 1 /\ DOMAIN stack' = {1}
          /\ stack'[1] = [node |-> n, next |-> 1]
      BY <2>1 DEF Frame
    <2>3. Len(At(adj, n)) \in Nat
      BY AtType DEF GraphInv, GraphTypeOK
    <2>4. GraphTypeOK'
      BY <1>1, <2>1, <2>2, <2>3, SameGraph DEF GraphInv, GraphTypeOK
    <2>5. VisitingIsOnStack'
      <3>1. \A m \in Name : state[m] # "visiting"
        BY <1>1 DEF GraphInv, VisitingIsOnStack
      <3> QED
        BY <1>1, <2>1, <2>2, <3>1, SameGraph DEF VisitingIsOnStack
    <2>6. Visited' = Visited
      BY <1>1, <1>3, <2>1 DEF Visited
    <2>7. SearchInv'
      BY <1>1, <2>1, <2>2, <2>6, SameGraph
      DEF GraphInv, SearchInv, Handled, NoCycleIn
    <2> QED
      BY <1>1, <2>4, <2>5, <2>7, SameGraph DEF GraphInv, VerdictCorrect
  <1> QED
    BY <1>2, <1>3

LEMMA NotTheTop ==
  ASSUME NEW n \in Nat, NEW k \in 1 .. n, NEW i \in k .. n, i # n
  PROVE  i \in 1 .. n - 1 /\ i \in 1 .. n /\ i + 1 \in k .. n
  OBVIOUS

\* The names on the stack, from an activation to the top, lead round.
LEMMA BackEdgeRejects ==
  ASSUME GraphInv, BackEdge
  PROVE  GraphInv'
  <1>1. /\ AtEdge /\ status = "dfs" /\ stack # <<>>
        /\ status' = "rejected" /\ UNCHANGED <<graphVars, dfsVars>>
        /\ state[Target] = "visiting"
    BY DEF BackEdge, AtEdge
  <1>2. /\ Len(stack) \in Nat \ {0} /\ DOMAIN stack = 1 .. Len(stack)
        /\ Top = stack[Len(stack)]
        /\ Target \in Name /\ Target \in Successors(Top.node)
    BY <1>1, AtTop, StackForms DEF GraphInv
  <1>3. PICK k \in 1 .. Len(stack) : stack[k].node = Target
    BY <1>1, <1>2 DEF GraphInv, VisitingIsOnStack
  <1> DEFINE S == {stack[i].node : i \in k .. Len(stack)}
  <1>4. \A i \in 1 .. Len(stack) : stack[i] \in Frame
    BY <1>2 DEF GraphInv, GraphTypeOK
  <1>5. S \subseteq Name /\ Target \in S
    BY <1>2, <1>3, <1>4 DEF Frame
  <1>6. ASSUME NEW i \in k .. Len(stack)
        PROVE  Successors(stack[i].node) \cap S # {}
    <2>1. CASE i = Len(stack)
      BY <1>2, <1>5, <2>1
    <2>2. CASE i # Len(stack)
      <3>1. /\ i \in 1 .. Len(stack) - 1 /\ i + 1 \in k .. Len(stack)
            /\ i \in DOMAIN stack
        <4> HIDE DEF S
        <4>1. Len(stack) \in Nat
          BY <1>2
        <4>2. /\ i \in 1 .. Len(stack) - 1 /\ i \in 1 .. Len(stack)
              /\ i + 1 \in k .. Len(stack)
          BY <2>2, <4>1, NotTheTop
        <4> QED
          BY <1>2, <4>2
      <3>2. /\ stack[i].next > 1
            /\ stack[i + 1].node = At(adj, stack[i].node)[stack[i].next - 1]
        BY <1>1, <3>1 DEF GraphInv, VisitingIsOnStack
      <3>3. /\ stack[i].next \in Nat
            /\ stack[i].next <= Len(At(adj, stack[i].node)) + 1
        BY <1>2, <1>4, <3>1 DEF GraphInv, GraphTypeOK, Frame
      <3>4. /\ Len(At(adj, stack[i].node)) \in Nat
            /\ DOMAIN At(adj, stack[i].node) =
                 1 .. Len(At(adj, stack[i].node))
        BY AtType DEF GraphInv, GraphTypeOK
      <3>5. stack[i + 1].node \in Successors(stack[i].node)
        BY <3>2, <3>3, <3>4 DEF Successors
      <3> QED
        BY <3>1, <3>5
    <2> QED
      BY <2>1, <2>2
  <1>7. Cyclic
    <2>1. \A n \in S : Successors(n) \cap S # {}
      BY <1>6
    <2> HIDE DEF S
    <2> QED
      BY <1>5, <2>1 DEF Cyclic
  <1>8. GraphTypeOK'
    BY <1>1, SameGraph DEF GraphInv, GraphTypeOK, dfsVars
  <1> QED
    BY <1>1, <1>7, <1>8, SameGraph
    DEF GraphInv, VerdictCorrect, VisitingIsOnStack, SearchInv

LEMMA CrossEdgeKeeps ==
  ASSUME GraphInv, CrossEdge
  PROVE  GraphInv'
  <1>1. /\ AtEdge /\ status = "dfs" /\ stack # <<>> /\ status' = "dfs"
        /\ UNCHANGED <<graphVars, state, unstarted>>
        /\ state[Target] = "visited"
        /\ stack' = Append(Below, Advanced)
    BY DEF CrossEdge, AtEdge
  <1> DEFINE L == Len(stack)
  <1>2. /\ L \in Nat \ {0} /\ DOMAIN stack = 1 .. L
        /\ Top = stack[L] /\ Advanced \in Frame
        /\ Advanced.node = Top.node /\ Advanced.next = Top.next + 1
        /\ Top.next \in Nat \ {0}
        /\ Top.next <= Len(At(adj, Top.node))
        /\ Len(At(adj, Top.node)) \in Nat
    BY <1>1, AtTop, StackForms DEF GraphInv
  <1>3. /\ stack' \in Seq(Frame) /\ DOMAIN stack' = 1 .. L
        /\ Len(stack') = L
        /\ \A i \in 1 .. L - 1 : stack'[i] = stack[i]
        /\ stack'[L] = Advanced
    BY <1>1, StackAdvances DEF GraphInv
  <1> HIDE DEF L
  <1>4. \A i \in 1 .. L : /\ stack'[i].node = stack[i].node
                          /\ i # L => stack'[i].next = stack[i].next
    <2> TAKE i \in 1 .. L
    <2>1. CASE i = L
      BY <1>2, <1>3, <2>1
    <2>2. CASE i # L
      <3>1. i \in 1 .. L - 1
        BY <1>2, <2>2
      <3> QED
        BY <1>3, <3>1
    <2> QED
      BY <2>1, <2>2
  <1>5. \A i \in 1 .. L :
          stack'[i].next <= Len(At(adj, stack[i].node)) + 1
    <2> TAKE i \in 1 .. L
    <2>1. CASE i = L
      BY <1>2, <1>3, <2>1
    <2>2. CASE i # L
      BY <1>2, <1>4, <2>2 DEF GraphInv, GraphTypeOK
    <2> QED
      BY <2>1, <2>2
  <1>6. GraphTypeOK'
    BY <1>1, <1>3, <1>4, <1>5, SameGraph DEF GraphInv, GraphTypeOK
  <1>7. VisitingIsOnStack'
    <2>1. {stack'[i].node : i \in DOMAIN stack'} =
            {stack[i].node : i \in DOMAIN stack}
      BY <1>2, <1>3, <1>4
    <2>2. \A i \in 1 .. L - 1 :
            /\ i \in 1 .. L /\ i + 1 \in 1 .. L /\ i # L
      BY <1>2
    <2> QED
      BY <1>1, <1>2, <1>3, <1>4, <2>1, <2>2, SameGraph
      DEF GraphInv, VisitingIsOnStack, L
  <1>8. Handled'
    <2> SUFFICES ASSUME NEW i \in 1 .. L, NEW j \in 1 .. stack'[i].next - 1
                 PROVE  \/ state[At(adj, stack[i].node)[j]] = "visited"
                        \/ i < L /\ j = stack'[i].next - 1
      BY <1>1, <1>3, <1>4, SameGraph DEF Handled
    <2>1. \A m \in 1 .. L : \A l \in 1 .. stack[m].next - 1 :
            \/ state[At(adj, stack[m].node)[l]] = "visited"
            \/ m < L /\ l = stack[m].next - 1
      BY <1>1, <1>2 DEF GraphInv, SearchInv, Handled, L
    <2>2. CASE i # L
      BY <1>4, <2>1, <2>2
    <2>3. CASE i = L /\ j = Top.next
      BY <1>1, <1>2, <2>3 DEF Target
    <2>4. CASE i = L /\ j # Top.next
      <3>1. j \in 1 .. stack[L].next - 1
        BY <1>2, <1>3, <2>4
      <3> QED
        BY <1>2, <2>1, <2>4, <3>1
    <2> QED
      BY <2>2, <2>3, <2>4
  <1>9. Visited' = Visited
    BY <1>1 DEF Visited
  <1>10. SearchInv'
    BY <1>1, <1>8, <1>9, SameGraph DEF GraphInv, SearchInv, NoCycleIn
  <1> QED
    BY <1>1, <1>6, <1>7, <1>10, SameGraph DEF GraphInv, VerdictCorrect

LEMMA TreeEdgeKeeps ==
  ASSUME GraphInv, TreeEdge
  PROVE  GraphInv'
  <1> DEFINE f == [node |-> Target, next |-> 1]
             L == Len(stack)
  <1>1. /\ AtEdge /\ status = "dfs" /\ stack # <<>> /\ status' = "dfs"
        /\ UNCHANGED <<graphVars, unstarted>>
        /\ state[Target] = "unvisited"
        /\ state' = [state EXCEPT ![Target] = "visiting"]
        /\ stack' = Append(Append(Below, Advanced), f)
    BY DEF TreeEdge, AtEdge
  <1>2. /\ L \in Nat \ {0} /\ DOMAIN stack = 1 .. L
        /\ Top = stack[L]
        /\ Advanced.node = Top.node /\ Advanced.next = Top.next + 1
        /\ Top.next \in Nat \ {0}
        /\ Top.next <= Len(At(adj, Top.node))
        /\ Len(At(adj, Top.node)) \in Nat
        /\ Target \in Name
    BY <1>1, AtTop, StackForms DEF GraphInv
  <1>3. f \in Frame
    BY <1>2 DEF Frame
  <1>4. /\ stack' \in Seq(Frame) /\ DOMAIN stack' = 1 .. L + 1
        /\ Len(stack') = L + 1
        /\ \A i \in 1 .. L - 1 : stack'[i] = stack[i]
        /\ stack'[L] = Advanced
        /\ stack'[L + 1].node = Target /\ stack'[L + 1].next = 1
    <2>1. /\ stack' \in Seq(Frame) /\ DOMAIN stack' = 1 .. L + 1
          /\ Len(stack') = L + 1
          /\ \A i \in 1 .. L - 1 : stack'[i] = stack[i]
          /\ stack'[L] = Advanced
          /\ stack'[L + 1] = f
      <3> DEFINE s == Append(Append(Below, Advanced), f)
      <3>1. /\ s \in Seq(Frame) /\ Len(s) = Len(stack) + 1
            /\ DOMAIN s = 1 .. Len(stack) + 1
            /\ \A i \in 1 .. Len(stack) - 1 : s[i] = stack[i]
            /\ s[Len(stack)] = Advanced /\ s[Len(stack) + 1] = f
        <4> HIDE DEF f
        <4> QED
          BY <1>1, <1>3, StackGrows DEF GraphInv
      <3>2. stack' = s
        BY <1>1
      <3> HIDE DEF s, f
      <3> QED
        BY <3>1, <3>2
    <2>2. f.node = Target /\ f.next = 1
      OBVIOUS
    <2> HIDE DEF f, L
    <2> QED
      BY <2>1, <2>2
  <1>5. /\ state' \in [Name -> {"unvisited", "visiting", "visited"}]
        /\ \A n \in Name :
             state'[n] = IF n = Target THEN "visiting" ELSE state[n]
    BY <1>1, <1>2 DEF GraphInv, GraphTypeOK
  <1> HIDE DEF f, L
  <1>6. \A i \in 1 .. L : /\ stack'[i].node = stack[i].node
                          /\ i # L => stack'[i].next = stack[i].next
    <2> TAKE i \in 1 .. L
    <2>1. CASE i = L
      BY <1>2, <1>4, <2>1
    <2>2. CASE i # L
      <3>1. i \in 1 .. L - 1
        BY <1>2, <2>2
      <3> QED
        BY <1>4, <3>1
    <2> QED
      BY <2>1, <2>2
  <1>7. stack'[L].next = Top.next + 1
    BY <1>2, <1>4
  <1>8. \A i \in 1 .. L + 1 : i \in 1 .. L \/ i = L + 1
    BY <1>2
  <1>9. \A i \in 1 .. L + 1 :
          stack'[i].next <= Len(At(adj, stack'[i].node)) + 1
    <2> TAKE i \in 1 .. L + 1
    <2>1. CASE i = L
      BY <1>2, <1>4, <1>7, <2>1
    <2>2. CASE i = L + 1
      <3>1. Len(At(adj, Target)) \in Nat
        BY AtType DEF GraphInv, GraphTypeOK
      <3> QED
        BY <1>4, <2>2, <3>1
    <2>3. CASE i # L /\ i # L + 1
      <3>1. i \in 1 .. L
        BY <1>8, <2>3
      <3>2. stack[i].next <= Len(At(adj, stack[i].node)) + 1
        BY <1>2, <3>1 DEF GraphInv, GraphTypeOK
      <3> QED
        BY <1>6, <2>3, <3>1, <3>2
    <2> QED
      BY <2>1, <2>2, <2>3
  <1>10. GraphTypeOK'
    BY <1>1, <1>4, <1>5, <1>9, SameGraph DEF GraphInv, GraphTypeOK
  <1>11. VisitingIsOnStack'
    <2>1. \A i \in 1 .. L : stack[i].node # Target
      BY <1>1, <1>2 DEF GraphInv, VisitingIsOnStack
    <2>2. {n \in Name : state[n] = "visiting"} = {stack[i].node : i \in 1 .. L}
      BY <1>1, <1>2 DEF GraphInv, VisitingIsOnStack
    <2>3. {n \in Name : state'[n] = "visiting"} =
            {stack'[i].node : i \in DOMAIN stack'}
      <3>1. ASSUME NEW n \in Name, state'[n] = "visiting"
            PROVE  \E i \in DOMAIN stack' : n = stack'[i].node
        <4>1. CASE n = Target
          <5>1. L + 1 \in DOMAIN stack'
            BY <1>2, <1>4
          <5> QED
            BY <1>4, <4>1, <5>1
        <4>2. CASE n # Target
          <5>1. PICK i \in 1 .. L : n = stack[i].node
            BY <1>5, <2>2, <3>1, <4>2
          <5>2. i \in DOMAIN stack'
            BY <1>2, <1>4
          <5> QED
            BY <1>6, <5>1, <5>2
        <4> QED
          BY <4>1, <4>2
      <3>2. ASSUME NEW i \in DOMAIN stack'
            PROVE  /\ stack'[i].node \in Name
                   /\ state'[stack'[i].node] = "visiting"
        <4>1. CASE i = L + 1
          BY <1>2, <1>4, <1>5, <4>1
        <4>2. CASE i \in 1 .. L
          <5>1. /\ stack[i].node \in Name
                /\ state[stack[i].node] = "visiting"
            BY <2>2, <4>2
          <5> QED
            BY <1>5, <1>6, <2>1, <4>2, <5>1
        <4> QED
          BY <1>4, <1>8, <4>1, <4>2
      <3> QED
        BY <3>1, <3>2
    <2>4. ASSUME NEW i \in DOMAIN stack', NEW j \in DOMAIN stack',
                 stack'[i].node = stack'[j].node
          PROVE  i = j
      <3>1. CASE i = L + 1 \/ j = L + 1
        BY <1>4, <1>6, <1>8, <2>1, <2>4, <3>1
      <3>2. CASE i \in 1 .. L /\ j \in 1 .. L
        BY <1>1, <1>2, <1>6, <2>4, <3>2 DEF GraphInv, VisitingIsOnStack
      <3> QED
        BY <1>4, <1>8, <3>1, <3>2
    <2>5. ASSUME NEW i \in 1 .. L
          PROVE  /\ stack'[i].next > 1
                 /\ stack'[i + 1].node =
                      At(adj, stack'[i].node)[stack'[i].next - 1]
      <3>1. CASE i = L
        <4>1. At(adj, stack'[L].node)[stack'[L].next - 1] = Target
          <5>1. stack'[L].node = Top.node /\ stack'[L].next - 1 = Top.next
            BY <1>2, <1>4, <1>7
          <5> QED
            BY <5>1 DEF Target
        <4> QED
          BY <1>2, <1>4, <1>7, <3>1, <4>1
      <3>2. CASE i # L
        <4>1. i \in 1 .. L - 1 /\ i + 1 \in 1 .. L
          BY <1>2, <3>2
        <4>2. /\ stack[i].next > 1
              /\ stack[i + 1].node = At(adj, stack[i].node)[stack[i].next - 1]
          BY <1>1, <4>1 DEF GraphInv, VisitingIsOnStack, L
        <4> QED
          BY <1>6, <3>2, <4>1, <4>2
      <3> QED
        BY <3>1, <3>2
    <2>6. Len(stack') - 1 = L
      BY <1>2, <1>4
    <2> QED
      BY <1>1, <2>3, <2>4, <2>5, <2>6, SameGraph DEF VisitingIsOnStack
  <1>12. Visited' = Visited
    BY <1>1, <1>5 DEF Visited
  <1>13. Handled'
    <2> SUFFICES ASSUME NEW i \in 1 .. L + 1,
                        NEW j \in 1 .. stack'[i].next - 1
                 PROVE  \/ state'[At(adj, stack'[i].node)[j]] = "visited"
                        \/ i < L + 1 /\ j = stack'[i].next - 1
      BY <1>1, <1>4, SameGraph DEF Handled
    <2>1. ASSUME NEW n, state[n] = "visited"
          PROVE  state'[n] = "visited"
      BY <1>1, <1>5, <2>1 DEF GraphInv, GraphTypeOK
    <2>2. \A m \in 1 .. L : \A l \in 1 .. stack[m].next - 1 :
            \/ state[At(adj, stack[m].node)[l]] = "visited"
            \/ m < L /\ l = stack[m].next - 1
      BY <1>1, <1>2 DEF GraphInv, SearchInv, Handled, L
    <2>3. CASE i = L + 1
      BY <1>4, <2>3
    <2>4. CASE i = L /\ j = Top.next
      BY <1>2, <1>7, <2>4
    <2>5. CASE i = L /\ j # Top.next
      <3>1. L \in 1 .. L /\ j \in 1 .. stack[L].next - 1
        BY <1>2, <1>7, <2>5
      <3>2. state[At(adj, stack[L].node)[j]] = "visited"
        BY <1>2, <2>2, <3>1
      <3> QED
        BY <1>6, <2>1, <2>5, <3>1, <3>2
    <2>6. CASE i # L /\ i # L + 1
      <3>1. i \in 1 .. L /\ i < L + 1
        BY <1>2, <1>8, <2>6
      <3>2. stack'[i].node = stack[i].node /\ stack'[i].next = stack[i].next
        BY <1>6, <2>6, <3>1
      <3> QED
        BY <2>1, <2>2, <3>1, <3>2
    <2> QED
      BY <2>3, <2>4, <2>5, <2>6
  <1>14. SearchInv'
    <2>1. \A n \in DOMAIN adj' \ unstarted' : state'[n] # "unvisited"
      BY <1>1, <1>5, SameGraph
      DEF GraphInv, SearchInv, GraphTypeOK, ListMapOK
    <2> QED
      BY <1>1, <1>12, <1>13, <2>1, SameGraph
      DEF GraphInv, SearchInv, NoCycleIn
  <1> QED
    BY <1>1, <1>10, <1>11, <1>14, SameGraph DEF GraphInv, VerdictCorrect

\* A name whose successors are visited and which is not adds no cycle.
LEMMA VisitKeepsAcyclic ==
  ASSUME NEW V, V \subseteq Name, NoCycleIn(V),
         \A n \in V : Successors(n) \subseteq V,
         NEW u \in Name, u \notin V, Successors(u) \subseteq V
  PROVE  NoCycleIn(V \cup {u})
  <1> SUFFICES ASSUME NEW S \in SUBSET (V \cup {u}), S # {}
               PROVE  \E n \in S : Successors(n) \cap S = {}
    BY DEF NoCycleIn
  <1> DEFINE T == S \ {u}
  <1>1. T \in SUBSET V
    OBVIOUS
  <1>2. CASE T = {}
    BY <1>2
  <1>3. CASE T # {}
    <2>1. PICK n \in T : Successors(n) \cap T = {}
      BY <1>1, <1>3 DEF NoCycleIn
    <2>2. u \notin Successors(n)
      BY <1>1
    <2> QED
      BY <2>1, <2>2
  <1> QED
    BY <1>2, <1>3

LEMMA FinishKeeps ==
  ASSUME GraphInv, FinishNode
  PROVE  GraphInv'
  <1> DEFINE L == Len(stack)
             u == Top.node
  <1>1. /\ status = "dfs" /\ stack # <<>> /\ status' = "dfs"
        /\ UNCHANGED <<graphVars, unstarted>>
        /\ Top.next > Len(At(adj, u))
        /\ state' = [state EXCEPT ![u] = "visited"]
        /\ stack' = Below
    BY DEF FinishNode
  <1>2. /\ L \in Nat \ {0} /\ DOMAIN stack = 1 .. L
        /\ Top = stack[L] /\ stack[L].node = u
        /\ Top.next \in Nat \ {0}
        /\ Top.next <= Len(At(adj, u)) + 1
        /\ Len(At(adj, u)) \in Nat
        /\ DOMAIN At(adj, u) = 1 .. Len(At(adj, u))
        /\ At(adj, u) \in Seq(Name)
        /\ u \in Name /\ state[u] = "visiting"
    BY <1>1, AtTop, StackForms DEF GraphInv
  <1>3. /\ stack' \in Seq(Frame) /\ Len(stack') = L - 1
        /\ DOMAIN stack' = 1 .. L - 1
        /\ \A i \in 1 .. L - 1 : stack'[i] = stack[i]
    <2>1. /\ Below \in Seq(Frame) /\ Len(Below) = L - 1
          /\ \A i \in 1 .. L - 1 : Below[i] = stack[i]
      BY <1>1, StackForms DEF GraphInv
    <2>2. DOMAIN Below = 1 .. L - 1
      BY <2>1
    <2> QED
      BY <1>1, <2>1, <2>2
  <1>4. /\ state' \in [Name -> {"unvisited", "visiting", "visited"}]
        /\ \A n \in Name :
             state'[n] = IF n = u THEN "visited" ELSE state[n]
    BY <1>1, <1>2 DEF GraphInv, GraphTypeOK
  <1> HIDE DEF L, u
  <1>5. \A i \in 1 .. L - 1 : i \in 1 .. L /\ i # L
    BY <1>2
  <1>6. \A m \in 1 .. L : \A l \in 1 .. stack[m].next - 1 :
          \/ state[At(adj, stack[m].node)[l]] = "visited"
          \/ m < L /\ l = stack[m].next - 1
    BY <1>1, <1>2 DEF GraphInv, SearchInv, Handled, L
  <1>7. Successors(u) \subseteq Visited
    <2> SUFFICES ASSUME NEW j \in DOMAIN At(adj, u)
                 PROVE  At(adj, u)[j] \in Visited
      BY DEF Successors
    <2>1. L \in 1 .. L /\ j \in 1 .. stack[L].next - 1
      BY <1>1, <1>2
    <2>2. state[At(adj, stack[L].node)[j]] = "visited"
      BY <1>2, <1>6, <2>1
    <2> QED
      BY <1>2, <2>2 DEF Visited
  <1>8. Visited' = Visited \cup {u} /\ u \notin Visited
    BY <1>2, <1>4 DEF Visited
  <1>9. /\ \A n \in Visited : Successors(n) \subseteq Visited
        /\ NoCycleIn(Visited)
        /\ Visited \subseteq Name
    BY <1>1 DEF GraphInv, SearchInv, Visited
  <1>10. NoCycleIn(Visited \cup {u})
    BY <1>2, <1>7, <1>8, <1>9, VisitKeepsAcyclic
  <1>11. GraphTypeOK'
    BY <1>1, <1>2, <1>3, <1>4, <1>5, SameGraph DEF GraphInv, GraphTypeOK
  <1>12. VisitingIsOnStack'
    <2>1. {n \in Name : state[n] = "visiting"} = {stack[i].node : i \in 1 .. L}
      BY <1>1, <1>2 DEF GraphInv, VisitingIsOnStack
    <2>2. \A i, j \in 1 .. L : stack[i].node = stack[j].node => i = j
      BY <1>1, <1>2 DEF GraphInv, VisitingIsOnStack
    <2>3. \A i \in 1 .. L : i = L \/ i \in 1 .. L - 1
      BY <1>2
    <2>4. \A i \in 1 .. L - 1 : stack[i].node # u
      BY <1>2, <1>5, <2>2
    <2>5. {n \in Name : state'[n] = "visiting"} =
            {stack[i].node : i \in 1 .. L - 1}
      BY <1>2, <1>4, <1>5, <2>1, <2>3, <2>4
    <2>6. {stack'[i].node : i \in DOMAIN stack'} =
            {stack[i].node : i \in 1 .. L - 1}
      BY <1>3
    <2>7. \A i, j \in DOMAIN stack' :
            stack'[i].node = stack'[j].node => i = j
      BY <1>3, <1>5, <2>2
    <2>8. ASSUME NEW i \in 1 .. Len(stack') - 1
          PROVE  /\ stack'[i].next > 1
                 /\ stack'[i + 1].node =
                      At(adj, stack'[i].node)[stack'[i].next - 1]
      <3>1. i \in 1 .. L - 1 /\ i + 1 \in 1 .. L - 1
        BY <1>2, <1>3
      <3>2. /\ stack[i].next > 1
            /\ stack[i + 1].node = At(adj, stack[i].node)[stack[i].next - 1]
        BY <1>1, <3>1 DEF GraphInv, VisitingIsOnStack, L
      <3> QED
        BY <1>3, <3>1, <3>2
    <2> QED
      BY <1>1, <2>5, <2>6, <2>7, <2>8, SameGraph DEF VisitingIsOnStack
  <1>13. Handled'
    <2> SUFFICES ASSUME NEW i \in 1 .. L - 1,
                        NEW j \in 1 .. stack[i].next - 1
                 PROVE  \/ state'[At(adj, stack[i].node)[j]] = "visited"
                        \/ i < L - 1 /\ j = stack[i].next - 1
      BY <1>1, <1>3, SameGraph DEF Handled
    <2>1. ASSUME NEW n, state[n] = "visited"
          PROVE  state'[n] = "visited"
      BY <1>1, <1>4, <2>1 DEF GraphInv, GraphTypeOK
    <2>2. CASE state[At(adj, stack[i].node)[j]] = "visited"
      BY <2>1, <2>2
    <2>3. CASE i < L - 1 /\ j = stack[i].next - 1
      BY <2>3
    <2>4. CASE i = L - 1 /\ j = stack[i].next - 1
      <3>1. stack[i + 1].node = At(adj, stack[i].node)[stack[i].next - 1]
        BY <1>1 DEF GraphInv, VisitingIsOnStack, L
      <3>2. i + 1 = L
        BY <1>2, <2>4
      <3>3. At(adj, stack[i].node)[j] = u
        BY <1>2, <2>4, <3>1, <3>2
      <3> QED
        BY <1>2, <1>4, <3>3
    <2>5. \/ state[At(adj, stack[i].node)[j]] = "visited"
          \/ i < L /\ j = stack[i].next - 1
      BY <1>5, <1>6
    <2>6. i < L - 1 \/ i = L - 1
      BY <1>2
    <2> QED
      BY <2>2, <2>3, <2>4, <2>5, <2>6
  <1>14. SearchInv'
    <2>1. \A n \in DOMAIN adj' \ unstarted' : state'[n] # "unvisited"
      BY <1>1, <1>4, SameGraph
      DEF GraphInv, SearchInv, GraphTypeOK, ListMapOK
    <2>2. \A n \in Visited \cup {u} : Successors(n) \subseteq Visited \cup {u}
      BY <1>7, <1>9
    <2>3. NoCycleIn(Visited)'
      BY <1>1, <1>8, <1>10, SameGraph DEF NoCycleIn
    <2>4. \A n \in Visited' : Successors(n)' \subseteq Visited'
      BY <1>1, <1>8, <2>2, SameGraph
    <2> QED
      BY <1>13, <2>1, <2>3, <2>4 DEF SearchInv
  <1> QED
    BY <1>1, <1>11, <1>12, <1>14, SameGraph DEF GraphInv, VerdictCorrect

\* Nothing is left to visit, and what is visited has no cycle.
LEMMA EndAccepts ==
  ASSUME GraphInv, EndValidate
  PROVE  GraphInv'
  <1>1. /\ status = "dfs" /\ stack = <<>> /\ unstarted = {}
        /\ status' = "accepted" /\ UNCHANGED <<graphVars, dfsVars>>
    BY DEF EndValidate
  <1>2. \A n \in Name : state[n] # "visiting"
    BY <1>1 DEF GraphInv, VisitingIsOnStack
  <1>3. DOMAIN adj \subseteq Visited
    BY <1>1, <1>2 DEF GraphInv, SearchInv, GraphTypeOK, ListMapOK, Visited
  <1>4. ~Cyclic
    <2> SUFFICES ASSUME Cyclic PROVE FALSE
      OBVIOUS
    <2>1. PICK S \in (SUBSET Name) \ {{}} :
            \A n \in S : Successors(n) \cap S # {}
      BY DEF Cyclic
    <2>2. \A n \in S : n \in DOMAIN adj
      BY <2>1 DEF Successors, At
    <2>3. S # {}
      BY <2>1
    <2>4. \A n \in S : n \in Visited
      BY <1>3, <2>2
    <2>5. S \in SUBSET Visited
      BY <2>4
    <2> QED
      BY <1>1, <2>1, <2>3, <2>5 DEF GraphInv, SearchInv, NoCycleIn
  <1>5. GraphTypeOK'
    BY <1>1, SameGraph DEF GraphInv, GraphTypeOK, dfsVars
  <1> QED
    BY <1>1, <1>4, <1>5, SameGraph
    DEF GraphInv, VerdictCorrect, VisitingIsOnStack, SearchInv

LEMMA BeginKeeps ==
  ASSUME GraphInv, BeginValidate
  PROVE  GraphInv'
  <1>1. /\ status' = "dfs" /\ state' = [n \in Name |-> "unvisited"]
        /\ stack' = <<>> /\ unstarted' = DOMAIN adj /\ UNCHANGED graphVars
    BY DEF BeginValidate
  <1>2. /\ stack' \in Seq(Frame) /\ DOMAIN stack' = {} /\ Len(stack') = 0
    BY <1>1
  <1>3. GraphTypeOK'
    BY <1>1, <1>2, SameGraph DEF GraphInv, GraphTypeOK, ListMapOK
  <1>4. VisitingIsOnStack'
    BY <1>1, <1>2 DEF VisitingIsOnStack
  <1>5. Visited' = {}
    BY <1>1 DEF Visited
  <1>6. SearchInv'
    BY <1>1, <1>2, <1>5, SameGraph DEF SearchInv, Handled, NoCycleIn
  <1> QED
    BY <1>1, <1>3, <1>4, <1>6, SameGraph DEF GraphInv, VerdictCorrect

\* A new edge ends the search that was over, and lengthens no activation.
LEMMA AddKeeps ==
  ASSUME GraphInv, NEW u \in Name, NEW v \in Name, add_dependency(u, v)
  PROVE  GraphInv'
  <1>1. /\ ListMapOK(adj') /\ ListMapOK(rev_adj')
        /\ EdgesMirrored' /\ LookupsDoNotInsert'
        /\ \A n : Len(At(adj, n)) <= Len(At(adj', n))
    BY AddMirrors DEF GraphInv
  <1>2. /\ status' = "building" /\ UNCHANGED dfsVars
        /\ edges' = edges + 1 /\ edges < MaxEdges
    BY DEF add_dependency
  <1>3. edges' \in 0 .. MaxEdges
    BY <1>2, MaxEdgesAssumption DEF GraphInv, GraphTypeOK
  <1>4. \A i \in DOMAIN stack :
          stack[i].next <= Len(At(adj', stack[i].node)) + 1
    <2> TAKE i \in DOMAIN stack
    <2>1. /\ stack[i].next \in Nat
          /\ stack[i].next <= Len(At(adj, stack[i].node)) + 1
      <3>1. stack[i] \in Frame
        BY DEF GraphInv, GraphTypeOK
      <3> QED
        BY <3>1 DEF GraphInv, GraphTypeOK, Frame
    <2>2. /\ Len(At(adj, stack[i].node)) \in Nat
          /\ Len(At(adj', stack[i].node)) \in Nat
          /\ Len(At(adj, stack[i].node)) <= Len(At(adj', stack[i].node))
      BY <1>1, AtType DEF GraphInv, GraphTypeOK
    <2> QED
      BY <2>1, <2>2
  <1>5. GraphTypeOK'
    BY <1>1, <1>2, <1>3, <1>4 DEF GraphInv, GraphTypeOK, dfsVars
  <1> QED
    BY <1>1, <1>2, <1>5
    DEF GraphInv, VerdictCorrect, VisitingIsOnStack, SearchInv

LEMMA InitGraph == Init => GraphInv
  <1> SUFFICES ASSUME Init PROVE GraphInv
    OBVIOUS
  <1>1. \A n : At(adj, n) = <<>> /\ At(rev_adj, n) = <<>>
    BY DEF Init, At
  <1>2. stack \in Seq(Frame) /\ DOMAIN stack = {}
    BY DEF Init
  <1>3. GraphTypeOK
    BY <1>2, MaxEdgesAssumption DEF Init, GraphTypeOK, ListMapOK
  <1>4. EdgesMirrored
    <2>1. \A n : {i \in DOMAIN <<>> : <<>>[i] = n} = {}
      OBVIOUS
    <2>2. \A n : Occurrences(<<>>, n) = Cardinality({})
      BY <2>1 DEF Occurrences
    <2> QED
      BY <1>1, <2>2 DEF EdgesMirrored
  <1> QED
    BY <1>3, <1>4 DEF Init, GraphInv, LookupsDoNotInsert, VisitingIsOnStack,
                      SearchInv, VerdictCorrect

LEMMA GraphInductive == GraphInv /\ [Next]_vars => GraphInv'
  <1> SUFFICES ASSUME GraphInv, [Next]_vars PROVE GraphInv'
    OBVIOUS
  <1>1. ASSUME NEW u \in Name, NEW v \in Name, add_dependency(u, v)
        PROVE  GraphInv'
    BY <1>1, AddKeeps
  <1>2. CASE BeginValidate
    BY <1>2, BeginKeeps
  <1>3. CASE ValidateStep
    BY <1>3, StartKeeps, BackEdgeRejects, TreeEdgeKeeps, CrossEdgeKeeps,
       FinishKeeps, EndAccepts
    DEF ValidateStep
  <1>4. CASE UNCHANGED vars
    <2>1. UNCHANGED <<adj, rev_adj, edges, status, state, stack, unstarted>>
      BY <1>4 DEF vars, graphVars, dfsVars
    <2>2. UNCHANGED graphVars
      BY <2>1 DEF graphVars
    <2>3. GraphTypeOK' /\ VisitingIsOnStack'
      BY <2>1, <2>2, SameGraph DEF GraphInv, GraphTypeOK, VisitingIsOnStack
    <2>4. Visited' = Visited
      BY <2>1 DEF Visited
    <2>5. SearchInv'
      BY <2>1, <2>2, <2>4, SameGraph
      DEF GraphInv, SearchInv, Handled, NoCycleIn
    <2> QED
      BY <2>1, <2>2, <2>3, <2>5, SameGraph DEF GraphInv, VerdictCorrect
  <1> QED
    BY <1>1, <1>2, <1>3, <1>4 DEF Next

LEMMA GraphCorrect == Spec => []GraphInv
  BY InitGraph, GraphInductive, PTL DEF Spec

-----------------------------------------------------------------------------
(* Theorems.                                                               *)

\* Every variable keeps its type: an activation is never past the end of its
\* list, and the lists name nothing unknown.
THEOREM GraphTypeCorrect == Spec => []GraphTypeOK
  BY GraphCorrect, PTL DEF GraphInv

\* add_dependency keeps the lists the workers wait on equal to those
\* validate_acyclic searches.
THEOREM MirrorCorrect == Spec => []EdgesMirrored
  BY GraphCorrect, PTL DEF GraphInv

\* No look-up of dfs inserts into the map the outer loop iterates over.
THEOREM LookupsCorrect == Spec => []LookupsDoNotInsert
  BY GraphCorrect, PTL DEF GraphInv

\* The colour "visiting" is the recursion stack.
THEOREM StackCorrect == Spec => []VisitingIsOnStack
  BY GraphCorrect, PTL DEF GraphInv

\* validate_acyclic returns for no graph with a cycle and throws for no
\* graph without one.
THEOREM VerdictsCorrect == Spec => []VerdictCorrect
  BY GraphCorrect, PTL DEF GraphInv

=============================================================================
