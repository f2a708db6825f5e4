------------------------- MODULE ResolverWalkProofs -------------------------
(***************************************************************************)
(* For every set of indexes, entries and bounds: the walk of `resolve` is  *)
(* a bounded chain of fresh parent links without repetition, and each of   *)
(* its endings says of the index what the caller reads into it.            *)
(***************************************************************************)
EXTENDS ResolverWalk, DataInduction

\* One turn of the loop changes nothing but visited or result.
LEMMA ArgumentsFixed == [Next]_vars => UNCHANGED arguments
  BY DEF Next, Step, Done, vars, arguments, NoNameRecord, RootItself, StartWalk, ReachRoot,
         GiveUp, OrphanFound, Climb

\* Types are preserved by every turn of the loop.
THEOREM TypeCorrect == Spec => []TypeOK
<1>1. Init => TypeOK
  BY ParametersAssumption DEF Init, TypeOK
<1>2. TypeOK /\ [Next]_vars => TypeOK'
  <2> SUFFICES ASSUME TypeOK, [Next]_vars PROVE TypeOK'
    OBVIOUS
  <2> USE DEF TypeOK
  <2>0. index' = index /\ entry' = entry /\ max_depth' = max_depth
    BY ArgumentsFixed DEF arguments
  <2>1. CASE NoNameRecord
    BY <2>0, <2>1 DEF NoNameRecord, Return, OrphanPath, IsIndex
  <2>2. CASE RootItself
    BY <2>0, <2>2 DEF RootItself, Return, CleanPath, IsIndex
  <2>3. CASE StartWalk
    BY <2>0, <2>3 DEF StartWalk, IsIndex
  <2>4. CASE ReachRoot
    BY <2>0, <2>4 DEF ReachRoot, Return, CleanPath, IsIndex
  <2>5. CASE GiveUp
    BY <2>0, <2>5 DEF GiveUp, Return, CyclePath, IsIndex
  <2>6. CASE OrphanFound
    BY <2>0, <2>6 DEF OrphanFound, Return, OrphanPath, IsIndex
  <2>7. CASE Climb
    BY <2>0, <2>7 DEF Climb, ParentUsable, parent, IsIndex
  <2>8. CASE UNCHANGED vars
    BY <2>8 DEF vars, IsIndex
  <2> QED
    BY <2>1, <2>2, <2>3, <2>4, <2>5, <2>6, <2>7, <2>8 DEF Next, Step, Done
<1> QED
  BY <1>1, <1>2, PTL DEF Spec

-----------------------------------------------------------------------------
\* A climb lengthens a fresh chain by one fresh link to an entry not yet on it.
LEMMA ClimbKeepsChain ==
    TypeOK /\ WalkIsFreshChain /\ Climb => WalkIsFreshChain'
<1> SUFFICES ASSUME TypeOK, WalkIsFreshChain, Climb PROVE WalkIsFreshChain'
  OBVIOUS
<1> DEFINE n == Len(visited)
<1>1. /\ index' = index /\ entry' = entry /\ max_depth' = max_depth
      /\ visited \in Seq(DOMAIN index)
      /\ visited # << >>
      /\ n \in Nat /\ n >= 1
      /\ max_depth \in Nat
  BY ParametersAssumption DEF Climb, Walking, arguments, TypeOK
<1>2. parent = index[visited[n]].parent_entry
  BY DEF parent, Last
<1>3. /\ n < max_depth
      /\ \A i \in 1..n : visited[i] # parent
  BY <1>1, <1>2 DEF Climb, OutOfBounds, Last
<1>4. /\ parent # ROOT_ENTRY
      /\ parent \in DOMAIN index
      /\ index[parent].sequence = index[visited[n]].parent_seq
  BY <1>2 DEF Climb, AtRoot, ParentUsable, Last
<1>5. visited' = Append(visited, parent)
  BY DEF Climb
<1>6. /\ visited' \in Seq(DOMAIN index)
      /\ Len(visited') = n + 1
      /\ \A i \in 1..n : visited'[i] = visited[i]
      /\ visited'[n + 1] = parent
  BY <1>1, <1>4, <1>5
<1>7. Len(visited') <= max_depth'
  BY <1>1, <1>3, <1>6
<1>8. \A i \in 1..Len(visited') : visited'[i] \in DOMAIN index' \ {ROOT_ENTRY}
  BY <1>1, <1>4, <1>6 DEF WalkIsFreshChain
<1>9. \A i, j \in 1..Len(visited') : visited'[i] = visited'[j] => i = j
  BY <1>1, <1>3, <1>6 DEF WalkIsFreshChain
<1>10. \A i \in 1..(Len(visited') - 1) :
          /\ index[visited'[i]].parent_entry = visited'[i + 1]
          /\ index[visited'[i]].parent_seq = index[visited'[i + 1]].sequence
  <2> SUFFICES ASSUME NEW i \in 1..(Len(visited') - 1)
               PROVE  /\ index[visited'[i]].parent_entry = visited'[i + 1]
                      /\ index[visited'[i]].parent_seq = index[visited'[i + 1]].sequence
    OBVIOUS
  <2>1. CASE i < n
    BY <2>1, <1>1, <1>6 DEF WalkIsFreshChain, Fresh
  <2>2. CASE i = n
    BY <2>2, <1>1, <1>2, <1>4, <1>6
  <2> QED
    BY <2>1, <2>2, <1>1, <1>6
<1>11. \A i \in 1..(Len(visited') - 1) :
          /\ visited'[i] \in DOMAIN index'
          /\ visited'[i + 1] \in DOMAIN index'
          /\ index'[visited'[i]].parent_entry = visited'[i + 1]
          /\ index'[visited'[i]].parent_seq = index'[visited'[i + 1]].sequence
  BY <1>1, <1>6, <1>8, <1>10
<1>12. visited'[1] = entry'
  BY <1>1, <1>6 DEF WalkIsFreshChain
<1> QED
  BY <1>7, <1>8, <1>9, <1>11, <1>12 DEF WalkIsFreshChain, Fresh

\* The chain is kept by every turn: only a climb and the start touch it.
THEOREM FreshChain == Spec => []WalkIsFreshChain
<1>1. Init => WalkIsFreshChain
  <2> SUFFICES ASSUME Init PROVE WalkIsFreshChain
    OBVIOUS
  <2>1. visited = << >> /\ max_depth \in Nat \ {0}
    BY ParametersAssumption DEF Init
  <2>2. Len(visited) = 0
    BY <2>1
  <2> QED
    BY <2>1, <2>2 DEF WalkIsFreshChain
<1>2. TypeOK /\ WalkIsFreshChain /\ [Next]_vars => WalkIsFreshChain'
  <2> SUFFICES ASSUME TypeOK, WalkIsFreshChain, [Next]_vars PROVE WalkIsFreshChain'
    OBVIOUS
  <2>0. index' = index /\ entry' = entry /\ max_depth' = max_depth
    BY ArgumentsFixed DEF arguments
  <2>1. CASE visited' = visited
    BY <2>0, <2>1 DEF WalkIsFreshChain, Fresh
  <2>2. CASE StartWalk
    <3>1. visited' = <<entry>> /\ entry \in DOMAIN index /\ entry # ROOT_ENTRY
      BY <2>2 DEF StartWalk
    <3>2. max_depth \in Nat \ {0}
      BY ParametersAssumption DEF TypeOK
    <3>3. Len(visited') = 1 /\ visited'[1] = entry
      BY <3>1
    <3> QED
      BY <2>0, <3>1, <3>2, <3>3 DEF WalkIsFreshChain
  <2>3. CASE Climb
    BY <2>3, ClimbKeepsChain
  <2> QED
    BY <2>1, <2>2, <2>3 DEF Next, Step, Done, vars, NoNameRecord, RootItself, ReachRoot, GiveUp,
         OrphanFound, Return
<1> QED
  BY <1>1, <1>2, TypeCorrect, PTL DEF Spec

-----------------------------------------------------------------------------
\* Every ending is justified by the index: a clean path hangs off the root, $Orphan
\* quotes a parent that is absent or reused, $Cycle means a loop or the bound reached.
THEOREM EndingsJustified == Spec => []EndingIsJustified
<1>1. Init => EndingIsJustified
  BY DEF Init, EndingIsJustified
<1>2. TypeOK /\ WalkIsFreshChain /\ EndingIsJustified /\ [Next]_vars => EndingIsJustified'
  <2> SUFFICES ASSUME TypeOK, WalkIsFreshChain, EndingIsJustified, [Next]_vars
               PROVE  EndingIsJustified'
    OBVIOUS
  <2>0. index' = index /\ max_depth' = max_depth
    BY ArgumentsFixed DEF arguments
  <2>1. CASE NoNameRecord \/ RootItself
    BY <2>1 DEF NoNameRecord, RootItself, Starting, Return, EndingIsJustified
  <2>2. CASE StartWalk \/ Climb
    BY <2>2 DEF StartWalk, Climb, Starting, Walking, EndingIsJustified
  <2>3. CASE ReachRoot
    BY <2>0, <2>3 DEF ReachRoot, Return, CleanPath, AtRoot, Last, EndingIsJustified
  <2>4. CASE GiveUp
    <3>1. Len(visited) >= max_depth => Len(visited) = max_depth
      BY ParametersAssumption DEF TypeOK, WalkIsFreshChain
    <3>2. /\ visited' = visited
          /\ result' = <<CyclePath(index, visited)>>
          /\ index[visited[Len(visited)]].parent_entry # ROOT_ENTRY
          /\ \/ Len(visited) = max_depth
             \/ index[visited[Len(visited)]].parent_entry
                   \in {visited[i] : i \in 1..Len(visited)}
      BY <2>4, <3>1 DEF GiveUp, Return, AtRoot, OutOfBounds, Last
    <3>3. result'[1].end = "cycle"
      BY <3>2 DEF CyclePath
    <3> QED
      BY <2>0, <3>2, <3>3 DEF EndingIsJustified
  <2>5. CASE OrphanFound
    <3>1. /\ visited' = visited
          /\ result' = <<OrphanPath(index, parent, visited)>>
          /\ parent = index[visited[Len(visited)]].parent_entry
          /\ parent # ROOT_ENTRY
          /\ parent \in DOMAIN index
               => index[parent].sequence # index[visited[Len(visited)]].parent_seq
      BY <2>5 DEF OrphanFound, Return, AtRoot, ParentUsable, parent, Last
    <3>2. result'[1].end = "orphan" /\ result'[1].under = parent
      BY <3>1 DEF OrphanPath
    <3> QED
      BY <2>0, <3>1, <3>2 DEF EndingIsJustified
  <2>6. CASE UNCHANGED vars
    BY <2>6 DEF vars, EndingIsJustified
  <2> QED
    BY <2>1, <2>2, <2>3, <2>4, <2>5, <2>6 DEF Next, Step, Done
<1> QED
  BY <1>1, <1>2, TypeCorrect, FreshChain, PTL DEF Spec

-----------------------------------------------------------------------------
(***************************************************************************)
(* Clean paths.  A chain that ends below the root visits no entry twice:   *)
(* after a repetition it would go round for ever.                          *)
(***************************************************************************)
EndsBelowRoot(c, n) ==
    /\ c \in [1..n -> DOMAIN index]
    /\ IsChain(c)
    /\ index[c[n]].parent_entry = ROOT_ENTRY

\* The links of a chain that ends below the root.
LEMMA ChainIs ==
    ASSUME NEW n \in Nat \ {0}, NEW c, EndsBelowRoot(c, n)
    PROVE  /\ c[1] = entry
           /\ \A i \in 1..n : c[i] \in DOMAIN index /\ c[i] # ROOT_ENTRY
           /\ \A i \in 1..(n - 1) : Fresh(c[i], c[i + 1]) /\ c[i + 1] = index[c[i]].parent_entry
           /\ index[c[n]].parent_entry = ROOT_ENTRY
<1>1. Len(c) = n
  BY DEF EndsBelowRoot
<1> QED
  BY <1>1 DEF EndsBelowRoot, IsChain, Fresh

\* No entry comes twice in such a chain: from there on it would repeat itself, and never end.
LEMMA NoRepetition ==
    ASSUME NEW n \in Nat \ {0}, NEW c, EndsBelowRoot(c, n),
           NEW a \in 1..n, NEW b \in 1..n, a < b
    PROVE  c[a] # c[b]
<1> SUFFICES ASSUME c[a] = c[b] PROVE FALSE
  OBVIOUS
<1> DEFINE T == {k \in Nat : b + k <= n => c[a + k] = c[b + k]}
<1>1. 0 \in T
  OBVIOUS
<1>2. ASSUME NEW k \in T PROVE k + 1 \in T
  <2>1. SUFFICES ASSUME b + (k + 1) <= n PROVE c[a + (k + 1)] = c[b + (k + 1)]
    OBVIOUS
  <2>2. k \in Nat /\ a + k \in 1..(n - 1) /\ b + k \in 1..(n - 1) /\ b + k <= n
    BY <2>1
  <2>3. c[a + k] = c[b + k]
    BY <2>2
  <2>4. c[a + k + 1] = index[c[a + k]].parent_entry /\ c[b + k + 1] = index[c[b + k]].parent_entry
    BY <2>2, ChainIs
  <2>5. a + k + 1 = a + (k + 1) /\ b + k + 1 = b + (k + 1)
    BY <2>2
  <2> QED
    BY <2>3, <2>4, <2>5
<1>3. T = Nat
  <2> HIDE DEF T
  <2>1. T \in SUBSET Nat
    BY DEF T
  <2> QED
    BY <1>1, <1>2, <2>1, Induction
<1>4. n - b \in Nat /\ b + (n - b) = n
  OBVIOUS
<1> DEFINE i == a + (n - b)
<1>5. c[i] = c[n]
  <2>1. n - b \in T
    BY <1>3, <1>4
  <2> QED
    BY <1>4, <2>1
<1>6. i \in 1..(n - 1) /\ i + 1 \in 1..n
  OBVIOUS
<1> HIDE DEF i
<1>7. index[c[i]].parent_entry = c[i + 1] /\ c[i + 1] # ROOT_ENTRY
  BY <1>6, ChainIs
<1> QED
  BY <1>5, <1>7, ChainIs

\* As far as both go, the walk is the chain.
LEMMA WalkIsChain ==
    ASSUME NEW n \in Nat \ {0}, NEW c, EndsBelowRoot(c, n), TypeOK, WalkIsFreshChain
    PROVE  \A i \in 1..n : i <= Len(visited) => visited[i] = c[i]
<1> DEFINE T == {k \in Nat : k + 1 <= n /\ k + 1 <= Len(visited) => visited[k + 1] = c[k + 1]}
<1>0. Len(visited) \in Nat
  BY DEF TypeOK
<1>1. 0 \in T
  <2>1. SUFFICES ASSUME 1 <= Len(visited) PROVE visited[1] = c[1]
    OBVIOUS
  <2>2. visited # << >>
    BY <2>1
  <2> QED
    BY <2>2, ChainIs DEF WalkIsFreshChain
<1>2. ASSUME NEW k \in T PROVE k + 1 \in T
  <2>1. SUFFICES ASSUME k + 1 + 1 <= n, k + 1 + 1 <= Len(visited)
                 PROVE  visited[k + 1 + 1] = c[k + 1 + 1]
    OBVIOUS
  <2>2. k \in Nat /\ k + 1 \in 1..(n - 1) /\ k + 1 \in 1..(Len(visited) - 1)
    BY <1>0, <2>1
  <2>3. visited[k + 1] = c[k + 1]
    BY <1>0, <2>1, <2>2
  <2>4. Fresh(visited[k + 1], visited[k + 1 + 1])
    BY <2>2 DEF WalkIsFreshChain
  <2>5. c[k + 1 + 1] = index[c[k + 1]].parent_entry
    BY <2>2, ChainIs
  <2> QED
    BY <2>3, <2>4, <2>5 DEF Fresh
<1>3. T = Nat
  <2> HIDE DEF T
  <2>1. T \in SUBSET Nat
    BY DEF T
  <2> QED
    BY <1>1, <1>2, <2>1, Induction
<1> SUFFICES ASSUME NEW i \in 1..n, i <= Len(visited) PROVE visited[i] = c[i]
  OBVIOUS
<1>4. i - 1 \in Nat /\ (i - 1) + 1 = i
  OBVIOUS
<1>5. i - 1 \in T
  BY <1>3, <1>4
<1> QED
  BY <1>0, <1>4, <1>5

\* What is returned before the loop.
ReturnedAtOnce ==
    result # << >> /\ visited = << >> =>
        \/ entry \notin DOMAIN index /\ result[1].end = "orphan"
        \/ entry \in DOMAIN index /\ entry = ROOT_ENTRY /\ result[1].end = "clean"

\* An entry that is not in the index, and the root, are answered without a walk.
THEOREM AtOnce == Spec => []ReturnedAtOnce
<1>1. Init => ReturnedAtOnce
  BY DEF Init, ReturnedAtOnce
<1>2. TypeOK /\ ReturnedAtOnce /\ [Next]_vars => ReturnedAtOnce'
  <2> SUFFICES ASSUME TypeOK, ReturnedAtOnce, [Next]_vars PROVE ReturnedAtOnce'
    OBVIOUS
  <2>0. index' = index /\ entry' = entry
    BY ArgumentsFixed DEF arguments
  <2>1. CASE NoNameRecord
    BY <2>0, <2>1 DEF NoNameRecord, Return, OrphanPath, ReturnedAtOnce
  <2>2. CASE RootItself
    BY <2>0, <2>2 DEF RootItself, Return, CleanPath, ReturnedAtOnce
  <2>3. CASE StartWalk \/ Climb
    BY <2>3 DEF StartWalk, Climb, Starting, Walking, ReturnedAtOnce
  <2>4. CASE ReachRoot \/ GiveUp \/ OrphanFound
    BY <2>4 DEF ReachRoot, GiveUp, OrphanFound, Walking, Return, ReturnedAtOnce
  <2>5. CASE UNCHANGED vars
    BY <2>5 DEF vars, ReturnedAtOnce
  <2> QED
    BY <2>1, <2>2, <2>3, <2>4, <2>5 DEF Next, Step, Done
<1> QED
  BY <1>1, <1>2, TypeCorrect, PTL DEF Spec

\* A walk that ends although there is a chain to the root that fits the bound has
\* followed it to its end.
LEMMA ChainIsFollowed ==
    ASSUME TypeOK, WalkIsFreshChain, EndingIsJustified, ReturnedAtOnce, result # << >>,
           NEW n \in 1..max_depth, NEW c, EndsBelowRoot(c, n)
    PROVE  result[1].end = "clean"
<1> DEFINE m == Len(visited)
           up == index[visited[m]].parent_entry
<1>0. max_depth \in Nat /\ n \in Nat \ {0}
  BY ParametersAssumption DEF TypeOK
<1>1. visited # << >>
  <2>1. 1 \in 1..n
    BY <1>0
  <2>2. entry \in DOMAIN index /\ entry # ROOT_ENTRY
    BY <1>0, <2>1, ChainIs
  <2> QED
    BY <2>2 DEF ReturnedAtOnce
<1>2. m \in Nat /\ m >= 1
  BY <1>1 DEF TypeOK
<1>3. \A i \in 1..n : i <= m => visited[i] = c[i]
  BY <1>0, WalkIsChain
<1> HIDE DEF m
<1>4. CASE m < n
  <2>1. m \in 1..(n - 1) /\ m \in 1..n /\ m + 1 \in 1..n
    BY <1>0, <1>2, <1>4
  <2>2. visited[m] = c[m] /\ Fresh(c[m], c[m + 1]) /\ up = c[m + 1]
    BY <1>0, <1>2, <1>3, <2>1, ChainIs
  <2>3. up # ROOT_ENTRY /\ up \in DOMAIN index /\ index[visited[m]].parent_seq = index[up].sequence
    BY <1>0, <2>1, <2>2, ChainIs DEF Fresh
  <2>4. \A i \in 1..m : visited[i] # up
    <3>1. ASSUME NEW i \in 1..m PROVE visited[i] # up
      <4>1. i \in 1..n /\ i < m + 1 /\ visited[i] = c[i]
        BY <1>0, <1>2, <1>3, <1>4
      <4>2. c[i] # c[m + 1]
        BY <1>0, <2>1, <4>1, NoRepetition
      <4> QED
        BY <2>2, <4>1, <4>2
    <3> QED
      BY <3>1
  <2>5. m # max_depth
    BY <1>0, <1>4
  <2>6. result[1].end # "orphan" /\ result[1].end # "cycle"
    BY <1>1, <2>3, <2>4, <2>5 DEF EndingIsJustified, m, up
  <2> QED
    BY <2>6 DEF TypeOK
<1>5. CASE m >= n
  <2>1. visited[n] = c[n] /\ index[visited[n]].parent_entry = ROOT_ENTRY
    BY <1>0, <1>3, <1>5, ChainIs
  <2>2. m = n
    <3>1. SUFFICES ASSUME m > n PROVE FALSE
      BY <1>0, <1>2, <1>5
    <3>2. n \in 1..(m - 1) /\ n + 1 \in 1..m
      BY <1>0, <1>2, <3>1
    <3>3. Fresh(visited[n], visited[n + 1]) /\ visited[n + 1] # ROOT_ENTRY
      BY <3>2 DEF WalkIsFreshChain, m
    <3> QED
      BY <2>1, <3>3 DEF Fresh
  <2>3. up = ROOT_ENTRY
    BY <2>1, <2>2
  <2>4. result[1].end # "orphan" /\ result[1].end # "cycle"
    BY <1>1, <2>3 DEF EndingIsJustified, m, up
  <2> QED
    BY <2>4 DEF TypeOK
<1> QED
  BY <1>0, <1>2, <1>4, <1>5

\* A path is clean exactly when a chain of live directories within the bound leads from the
\* entry to the root.
THEOREM CleanExactly == Spec => []CleanIffShortChain
<1>1. TypeOK /\ WalkIsFreshChain /\ EndingIsJustified /\ ReturnedAtOnce => CleanIffShortChain
  <2> SUFFICES ASSUME TypeOK, WalkIsFreshChain, EndingIsJustified, ReturnedAtOnce, result # << >>
               PROVE  result[1].end = "clean" <=>
                         \/ entry = ROOT_ENTRY /\ entry \in DOMAIN index
                         \/ \E n \in 1..max_depth : \E c \in [1..n -> DOMAIN index] :
                               IsChain(c) /\ index[c[n]].parent_entry = ROOT_ENTRY
    BY DEF CleanIffShortChain
  <2>0. max_depth \in Nat
    BY ParametersAssumption DEF TypeOK
  <2>1. ASSUME NEW n \in 1..max_depth, NEW c \in [1..n -> DOMAIN index],
               IsChain(c), index[c[n]].parent_entry = ROOT_ENTRY
        PROVE  result[1].end = "clean"
    BY <2>1, ChainIsFollowed DEF EndsBelowRoot
  <2>2. ASSUME entry = ROOT_ENTRY, entry \in DOMAIN index PROVE result[1].end = "clean"
    <3>1. visited = << >>
      <4> SUFFICES ASSUME visited # << >> PROVE FALSE
        OBVIOUS
      <4>1. 1 \in 1..Len(visited) /\ visited[1] = entry
        BY DEF TypeOK, WalkIsFreshChain
      <4> QED
        BY <2>2, <4>1 DEF WalkIsFreshChain
    <3> QED
      BY <2>2, <3>1 DEF ReturnedAtOnce
  <2>3. ASSUME result[1].end = "clean", visited = << >>
        PROVE  entry = ROOT_ENTRY /\ entry \in DOMAIN index
    BY <2>3 DEF ReturnedAtOnce
  <2>4. ASSUME result[1].end = "clean", visited # << >>
        PROVE  \E n \in 1..max_depth : \E c \in [1..n -> DOMAIN index] :
                  IsChain(c) /\ index[c[n]].parent_entry = ROOT_ENTRY
    <3> DEFINE n == Len(visited)
    <3>1. n \in 1..max_depth
      BY <2>0, <2>4 DEF TypeOK, WalkIsFreshChain
    <3>2. visited \in [1..n -> DOMAIN index]
      BY DEF TypeOK
    <3>3. IsChain(visited)
      BY <2>4 DEF IsChain, WalkIsFreshChain
    <3>4. index[visited[n]].parent_entry = ROOT_ENTRY
      BY <2>4 DEF EndingIsJustified
    <3> QED
      BY <3>1, <3>2, <3>3, <3>4
  <2> QED
    BY <2>1, <2>2, <2>3, <2>4
<1> QED
  BY <1>1, TypeCorrect, FreshChain, EndingsJustified, AtOnce, PTL

-----------------------------------------------------------------------------
(***************************************************************************)
(* The loop and the function Resolve: the function has the same value at   *)
(* every turn of the walk.                                                 *)
(***************************************************************************)
\* The walk so far leads to the path that the entry itself leads to.
OnTheWay ==
    /\ visited # << >> /\ result = << >> =>
          /\ entry \in DOMAIN index /\ entry # ROOT_ENTRY
          /\ Climbed(index, max_depth)[visited] = Climbed(index, max_depth)[<<entry>>]
    /\ LoopComputesResolve

\* A turn of the loop leaves the result of the walk as it is.
LEMMA TurnKeepsTheWay ==
    ASSUME TypeOK, OnTheWay, ReachRoot \/ GiveUp \/ OrphanFound \/ Climb
    PROVE  OnTheWay'
<1> DEFINE f == Climbed(index, max_depth)
<1>0. index' = index /\ entry' = entry /\ max_depth' = max_depth
  BY DEF ReachRoot, GiveUp, OrphanFound, Climb, arguments
<1>1. /\ IsIndex(index) /\ max_depth \in Nat /\ visited \in Seq(Nat) /\ entry \in Nat
      /\ visited # << >> /\ result = << >> /\ entry \in DOMAIN index /\ entry # ROOT_ENTRY
      /\ f[visited] = f[<<entry>>]
  <2>1. visited # << >> /\ result = << >>
    BY DEF ReachRoot, GiveUp, OrphanFound, Climb, Walking
  <2> QED
    BY <2>1, ParametersAssumption DEF TypeOK, IsIndex, OnTheWay
<1>2. f[visited] = Turn(index, max_depth, f, visited)
  BY <1>1, ClimbedIs DEF IsIndex
<1>3. Resolve(index, entry, max_depth) = f[<<entry>>]
  BY <1>1, ResolveIs
<1> HIDE DEF f
<1>4. ASSUME NEW path, Return(path), path = Turn(index, max_depth, f, visited)
      PROVE  OnTheWay'
  <2>1. result' = <<path>> /\ result'[1] = Resolve(index, entry, max_depth)
    BY <1>1, <1>2, <1>3, <1>4 DEF Return
  <2>2. LoopComputesResolve'
    BY <1>0, <2>1 DEF LoopComputesResolve
  <2> QED
    BY <2>1, <2>2 DEF OnTheWay
<1>5. CASE ReachRoot
  <2>1. Turn(index, max_depth, f, visited) = CleanPath(index, visited)
    BY <1>5 DEF ReachRoot, Turn
  <2> QED
    BY <1>4, <1>5, <2>1 DEF ReachRoot
<1>6. CASE GiveUp
  <2>1. Turn(index, max_depth, f, visited) = CyclePath(index, visited)
    BY <1>6 DEF GiveUp, Turn
  <2> QED
    BY <1>4, <1>6, <2>1 DEF GiveUp
<1>7. CASE OrphanFound
  <2>1. Turn(index, max_depth, f, visited) = OrphanPath(index, parent, visited)
    BY <1>7 DEF OrphanFound, Turn, parent
  <2> QED
    BY <1>4, <1>7, <2>1 DEF OrphanFound
<1>8. CASE Climb
  <2>1. Turn(index, max_depth, f, visited) = f[Append(visited, parent)]
    BY <1>8 DEF Climb, Turn, parent
  <2>2. visited' = Append(visited, parent) /\ result' = << >>
    BY <1>1, <1>8 DEF Climb
  <2>3. f[visited'] = f[<<entry>>]
    BY <1>1, <1>2, <2>1, <2>2
  <2>4. Climbed(index, max_depth)'[visited'] = Climbed(index, max_depth)'[<<entry'>>]
    BY <1>0, <2>3 DEF f, Climbed
  <2> QED
    BY <1>0, <1>1, <2>2, <2>4 DEF OnTheWay, LoopComputesResolve
<1> QED
  BY <1>5, <1>6, <1>7, <1>8

\* The loop, turn by turn, returns what the function Resolve gives: what the modules that
\* use Resolve take for the path of an entry is what the code computes.
THEOREM LoopIsResolve == Spec => []LoopComputesResolve
<1>1. Init => OnTheWay
  BY DEF Init, OnTheWay, LoopComputesResolve
<1>2. TypeOK /\ OnTheWay /\ [Next]_vars => OnTheWay'
  <2> SUFFICES ASSUME TypeOK, OnTheWay, [Next]_vars PROVE OnTheWay'
    OBVIOUS
  <2>0. index' = index /\ entry' = entry /\ max_depth' = max_depth
    BY ArgumentsFixed DEF arguments
  <2>1. CASE NoNameRecord \/ RootItself
    <3>1. result' # << >> /\ result'[1] = Resolve(index, entry, max_depth)
      BY <2>1, ResolveIs DEF NoNameRecord, RootItself, Return
    <3>2. LoopComputesResolve'
      BY <2>0, <3>1 DEF LoopComputesResolve
    <3> QED
      BY <3>1, <3>2 DEF OnTheWay
  <2>2. CASE StartWalk
    <3>1. /\ visited' = <<entry>> /\ result' = << >>
          /\ entry \in DOMAIN index /\ entry # ROOT_ENTRY
      BY <2>2 DEF StartWalk, Starting
    <3>2. Climbed(index, max_depth)'[visited'] = Climbed(index, max_depth)'[<<entry'>>]
      BY <2>0, <3>1
    <3> QED
      BY <2>0, <3>1, <3>2 DEF OnTheWay, LoopComputesResolve
  <2>3. CASE UNCHANGED vars
    <3>1. LoopComputesResolve'
      BY <2>3 DEF vars, OnTheWay, LoopComputesResolve
    <3>2. Climbed(index, max_depth)' = Climbed(index, max_depth)
      BY <2>0 DEF Climbed
    <3> QED
      BY <2>3, <3>1, <3>2 DEF vars, OnTheWay
  <2> QED
    BY <2>1, <2>2, <2>3, TurnKeepsTheWay DEF Next, Step, Done
<1>3. OnTheWay => LoopComputesResolve
  BY DEF OnTheWay
<1> QED
  BY <1>1, <1>2, <1>3, TypeCorrect, PTL DEF Spec
=============================================================================
