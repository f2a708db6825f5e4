--------------------------- MODULE MCResolverWalk ---------------------------
(***************************************************************************)
(* Small instance of ResolverWalk: the root and three more entries, each   *)
(* present or not, with any parent among four entries, expecting of it the *)
(* sequence number it has or another.                                      *)
(*                                                                         *)
(* A node's own sequence number is 1 throughout: only whether the number a *)
(* child expects matches it is ever asked.  The name is the entry number.  *)
(* The links of the root's own node are never read, so they are fixed.     *)
(***************************************************************************)
EXTENDS ResolverWalk

MCEntries == {1, 2, 3, ROOT_ENTRY}

MCLinks == {[parent |-> p, seq |-> s] : p \in MCEntries, s \in {1, 2}}

MCIndexes ==
    {[e \in DOMAIN links |-> Node(e, links[e].parent, links[e].seq, 1)] :
        links \in {l \in UNION {[D -> MCLinks] : D \in SUBSET MCEntries} :
            ROOT_ENTRY \in DOMAIN l => l[ROOT_ENTRY] = [parent |-> ROOT_ENTRY, seq |-> 1]}}

MCMaxDepths == {1, 2, 3, 4}
=============================================================================
