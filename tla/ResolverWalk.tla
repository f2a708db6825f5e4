---------------------------- MODULE ResolverWalk ----------------------------
(***************************************************************************)
(* The loop of `resolve` (mft-core/src/resolver.rs) one turn at a time,    *)
(* over an index chosen in the initial state: a corrupt $MFT can hold any  *)
(* parent links at all, loops, dangling and stale references included.     *)
(***************************************************************************)
EXTENDS Resolver

CONSTANTS
    Indexes,      \* the resolver indexes that may be walked
    Entries,      \* the entries whose path may be asked for
    MaxDepths     \* values of the max_depth argument

\* An index: finitely many entry numbers, each with its node.
IsIndex(ix) ==
    /\ DOMAIN ix \subseteq Nat
    /\ \A e \in DOMAIN ix :
          ix[e] = Node(ix[e].name, ix[e].parent_entry, ix[e].parent_seq, ix[e].sequence)

ASSUME ParametersAssumption ==
    /\ \A ix \in Indexes : IsIndex(ix)
    /\ Entries \subseteq Nat
    /\ MaxDepths \subseteq Nat \ {0}

VARIABLES
    index,        \* the resolver index the walk reads
    entry,        \* the entry whose path is asked for
    max_depth,    \* the bound on the walk
    visited,      \* entries on the walk so far; components pushes in step with it
    result        \* << >> while the walk goes on, else << the path >>

arguments == <<index, entry, max_depth>>
vars == <<index, entry, max_depth, visited, result>>

Init ==
    /\ index \in Indexes
    /\ entry \in Entries
    /\ max_depth \in MaxDepths
    /\ visited = << >>
    /\ result = << >>

Return(path) == result' = <<path>> /\ UNCHANGED visited

(***************************************************************************)
(* Before the loop.                                                        *)
(***************************************************************************)
Starting == result = << >> /\ visited = << >>

\* The entry has no node: \$Orphan\ENTRY with no component.
NoNameRecord ==
    /\ Starting
    /\ entry \notin DOMAIN index
    /\ Return(OrphanPath(index, entry, << >>))
    /\ UNCHANGED arguments

\* The root is its own path.
RootItself ==
    /\ Starting
    /\ entry \in DOMAIN index
    /\ entry = ROOT_ENTRY
    /\ Return(CleanPath(index, <<entry>>))
    /\ UNCHANGED arguments

StartWalk ==
    /\ Starting
    /\ entry \in DOMAIN index
    /\ entry # ROOT_ENTRY
    /\ visited' = <<entry>>
    /\ UNCHANGED <<result, arguments>>

(***************************************************************************)
(* One turn of the loop.                                                   *)
(***************************************************************************)
Walking == result = << >> /\ visited # << >>

parent == index[Last(visited)].parent_entry

ReachRoot ==
    /\ Walking
    /\ AtRoot(index, visited)
    /\ Return(CleanPath(index, visited))
    /\ UNCHANGED arguments

\* (mutant: the bound is tested before the root)
GiveUpBeforeRoot ==
    /\ Walking
    /\ OutOfBounds(index, visited, max_depth)
    /\ Return(CyclePath(index, visited))
    /\ UNCHANGED arguments

GiveUp ==
    /\ Walking
    /\ ~AtRoot(index, visited)
    /\ OutOfBounds(index, visited, max_depth)
    /\ Return(CyclePath(index, visited))
    /\ UNCHANGED arguments

\* (mutant: $Orphan quotes the child instead of the missing parent)
OrphanFoundQuotesChild ==
    /\ Walking
    /\ ~AtRoot(index, visited)
    /\ ~OutOfBounds(index, visited, max_depth)
    /\ ~ParentUsable(index, visited)
    /\ Return(OrphanPath(index, Last(visited), visited))
    /\ UNCHANGED arguments

OrphanFound ==
    /\ Walking
    /\ ~AtRoot(index, visited)
    /\ ~OutOfBounds(index, visited, max_depth)
    /\ ~ParentUsable(index, visited)
    /\ Return(OrphanPath(index, parent, visited))
    /\ UNCHANGED arguments

\* (mutant: the entry is not pushed on visited, only current moves on)
ClimbWithoutPush ==
    /\ Walking
    /\ ~AtRoot(index, visited)
    /\ ~OutOfBounds(index, visited, max_depth)
    /\ ParentUsable(index, visited)
    /\ visited' = [visited EXCEPT ![Len(visited)] = parent]
    /\ UNCHANGED <<result, arguments>>

Climb ==
    /\ Walking
    /\ ~AtRoot(index, visited)
    /\ ~OutOfBounds(index, visited, max_depth)
    /\ ParentUsable(index, visited)
    /\ visited' = Append(visited, parent)
    /\ UNCHANGED <<result, arguments>>

Done == result # << >> /\ UNCHANGED vars

Step == NoNameRecord \/ RootItself \/ StartWalk \/ ReachRoot \/ GiveUp \/ OrphanFound \/ Climb

Next == Step \/ Done

\* The walk is a plain sequential loop: it keeps running until it returns.
Spec == Init /\ [][Next]_vars /\ WF_vars(Step)

-----------------------------------------------------------------------------
(***************************************************************************)
(* Properties.                                                             *)
(***************************************************************************)

\* Types of the variables.
TypeOK ==
    /\ IsIndex(index)
    /\ entry \in Entries
    /\ max_depth \in MaxDepths
    /\ visited \in Seq(DOMAIN index)
    /\ result = << >> \/ \E p \in {"clean", "orphan", "cycle"} : result[1].end = p

\* b is the parent that a names, present under the sequence number a expects.
Fresh(a, b) ==
    /\ a \in DOMAIN index
    /\ b \in DOMAIN index
    /\ index[a].parent_entry = b
    /\ index[a].parent_seq = index[b].sequence

\* The walk is always a chain of fresh parent links that starts at the entry,
\* passes no entry twice, stays off the root and is no longer than max_depth:
\* what the bound and the visited-set check of the loop are there to ensure.
WalkIsFreshChain ==
    /\ Len(visited) <= max_depth
    /\ \A i \in 1..Len(visited) : visited[i] \in DOMAIN index \ {ROOT_ENTRY}
    /\ \A i, j \in 1..Len(visited) : visited[i] = visited[j] => i = j
    /\ \A i \in 1..(Len(visited) - 1) : Fresh(visited[i], visited[i + 1])
    /\ visited # << >> => visited[1] = entry

\* What each ending claims about the index, for the walk that led to it: a clean
\* path hangs off the root; $Orphan quotes a parent that is absent or whose slot
\* was reused; $Cycle means a parent already on the walk, or the bound reached.
EndingIsJustified ==
    result # << >> /\ visited # << >> =>
        LET last == visited[Len(visited)]
            up   == index[last].parent_entry
        IN  CASE result[1].end = "clean"  -> up = ROOT_ENTRY
              [] result[1].end = "orphan" ->
                    /\ up # ROOT_ENTRY
                    /\ up = result[1].under
                    /\ up \in DOMAIN index => index[up].sequence # index[last].parent_seq
              [] result[1].end = "cycle"  ->
                    /\ up # ROOT_ENTRY
                    /\ \/ up \in {visited[i] : i \in 1..Len(visited)}
                       \/ Len(visited) = max_depth

\* Entries above `e`, nearest first, found with no regard to bounds: the reference
\* definition of a chain, by its length.
IsChain(c) ==
    /\ c[1] = entry
    /\ \A i \in 1..Len(c) : c[i] \in DOMAIN index \ {ROOT_ENTRY}
    /\ \A i \in 1..(Len(c) - 1) : Fresh(c[i], c[i + 1])

\* A path is clean exactly when some fresh chain of at most max_depth entries
\* leads from the entry to a child of the root (or the entry is the root).  The
\* bound neither rejects a path that fits it nor lets a longer one through.
CleanIffShortChain ==
    result # << >> =>
        (result[1].end = "clean" <=>
            \/ entry = ROOT_ENTRY /\ entry \in DOMAIN index
            \/ \E n \in 1..max_depth : \E c \in [1..n -> DOMAIN index] :
                  IsChain(c) /\ index[c[n]].parent_entry = ROOT_ENTRY)

\* The loop computes the function Resolve, which the other modules use.
LoopComputesResolve ==
    result # << >> => result[1] = Resolve(index, entry, max_depth)

\* No index, however corrupt, makes the walk spin (resolver.rs, module comment:
\* "a corrupt or hostile $MFT with a parent loop or absurd depth can never spin").
WalkEnds == <>(result # << >>)
=============================================================================
