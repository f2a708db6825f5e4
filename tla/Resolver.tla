------------------------------ MODULE Resolver ------------------------------
(***************************************************************************)
(* Parent-reference path reconstruction (mft-core/src/resolver.rs).        *)
(*                                                                         *)
(* A resolver index maps an entry number to a node: the entry's own name,  *)
(* the parent entry it names, the sequence number it expects of that       *)
(* parent, and its own sequence number.  A path is not a string here but   *)
(* what the string is assembled from: how the walk ended, the entry the    *)
(* $Orphan prefix quotes, and the component names from the top down.       *)
(***************************************************************************)
EXTENDS Naturals, Sequences, SequencesExt

\* The volume root's entry number.
ROOT_ENTRY == 5

\* The index with no entries (BTreeMap::new, BTreeMap::clear).
EmptyIndex == << >>

\* The node that a walk reads, as far as paths depend on it.
Node(name, parent_entry, parent_seq, sequence) ==
    [name |-> name, parent_entry |-> parent_entry,
     parent_seq |-> parent_seq, sequence |-> sequence]

\* The component names of a walk: it climbs, so the path reads backwards.
Components(index, visited) ==
    Reverse([i \in 1..Len(visited) |-> index[visited[i]].name])

\* The three shapes of a resolved path: NAME\NAME, \$Orphan\PARENT\NAME..., \$Cycle\NAME...
CleanPath(index, visited) ==
    [end |-> "clean", under |-> 0, components |-> Components(index, visited)]

OrphanPath(index, parent, visited) ==
    [end |-> "orphan", under |-> parent, components |-> Components(index, visited)]

CyclePath(index, visited) ==
    [end |-> "cycle", under |-> 0, components |-> Components(index, visited)]

\* The tests of one turn of the loop, in the order in which the code makes them.
AtRoot(index, visited) == index[Last(visited)].parent_entry = ROOT_ENTRY

\* (mutant: the bound is off by one)
OutOfBoundsEarly(index, visited, maxDepth) ==
    \/ Len(visited) + 1 >= maxDepth
    \/ \E i \in 1..Len(visited) : visited[i] = index[Last(visited)].parent_entry

OutOfBounds(index, visited, maxDepth) ==
    \/ Len(visited) >= maxDepth
    \/ \E i \in 1..Len(visited) : visited[i] = index[Last(visited)].parent_entry

\* (mutant: an absent parent passes)
ParentUsableIfAbsent(index, visited) ==
    LET child == index[Last(visited)]
    IN  child.parent_entry \in DOMAIN index
          => index[child.parent_entry].sequence = child.parent_seq

\* (mutant: the sequence number is not compared)
ParentUsableIfReused(index, visited) == index[Last(visited)].parent_entry \in DOMAIN index

\* The parent is in the index, under the sequence number the child expects of it.
ParentUsable(index, visited) ==
    LET child == index[Last(visited)]
    IN  /\ child.parent_entry \in DOMAIN index
        /\ index[child.parent_entry].sequence = child.parent_seq

\* The path of an entry: the loop of `resolve`, as a recursive function of the
\* entries visited so far.
Resolve(index, entry, maxDepth) ==
    LET climb[visited \in Seq(Nat)] ==
            LET parent == index[Last(visited)].parent_entry
            IN  CASE AtRoot(index, visited) -> CleanPath(index, visited)
                  [] ~AtRoot(index, visited) /\ OutOfBounds(index, visited, maxDepth)
                        -> CyclePath(index, visited)
                  [] OTHER ->
                        IF ParentUsable(index, visited)
                        THEN climb[Append(visited, parent)]
                        ELSE OrphanPath(index, parent, visited)
    IN  IF entry \notin DOMAIN index
        THEN OrphanPath(index, entry, << >>)
        ELSE IF entry = ROOT_ENTRY
             THEN CleanPath(index, <<entry>>)
             ELSE climb[<<entry>>]
=============================================================================
