------------------------------ MODULE DiamondCut ------------------------------
(***************************************************************************)
(* The diamond's routing table (LibDiamond) and the cuts that change it.   *)
(* A selector knows its facet and its place in the facet's list of         *)
(* selectors, a facet its place in the list of facets; removals swap the   *)
(* last entry into the gap.  Facets are addresses 1, 2, ...; 0 is none.    *)
(* A cut that is refused leaves ok false, and the transaction undone.      *)
(***************************************************************************)
EXTENDS Naturals, SequencesExt

CONSTANTS Selectors, MaxAddress

Addresses == 1 .. MaxAddress

\* Positions count from 0.
NoRoutes == [facetOf |-> [s \in Selectors |-> 0], posOf |-> [s \in Selectors |-> 0],
             list |-> [a \in Addresses |-> <<>>], facetPos |-> [a \in Addresses |-> 0],
             facets |-> <<>>, ok |-> TRUE]

Refuse(ds) == [ds EXCEPT !.ok = FALSE]

addFacet(ds, a) ==
    [ds EXCEPT !.facetPos[a] = Len(ds.facets), !.facets = Append(@, a)]

addFunction(ds, s, a) ==
    [ds EXCEPT !.facetOf[s] = a, !.posOf[s] = Len(ds.list[a]), !.list[a] = Append(@, s)]

\* The last facet takes the place of one that has no selectors left.
dropFacet(ds, a) ==
    LET last == Last(ds.facets)
        gap == ds.facetPos[a]
    IN  [ds EXCEPT !.facets = Front([@ EXCEPT ![gap + 1] = last]),
                   !.facetPos = [@ EXCEPT ![last] = gap, ![a] = 0]]

\* Mutant: the selector that moves is not told its new place.
removeFunction_MovesBlindly(ds, s) ==
    LET a == ds.facetOf[s]
        gap == ds.posOf[s]
        without == [ds EXCEPT !.list[a] = Front([@ EXCEPT ![gap + 1] = Last(ds.list[a])]),
                              !.posOf[s] = 0, !.facetOf[s] = 0]
    IN  IF a = 0 THEN Refuse(ds)
        ELSE IF Len(ds.list[a]) = 1 THEN dropFacet(without, a) ELSE without

removeFunction(ds, s) ==
    LET a == ds.facetOf[s]
        last == Last(ds.list[a])
        gap == ds.posOf[s]
        without == [ds EXCEPT !.list[a] = Front([@ EXCEPT ![gap + 1] = last]),
                              !.posOf = [@ EXCEPT ![last] = gap, ![s] = 0],
                              !.facetOf[s] = 0]
    IN  IF a = 0 THEN Refuse(ds)
        ELSE IF Len(ds.list[a]) = 1 THEN dropFacet(without, a) ELSE without

Announce(ds, a) == IF ds.list[a] = <<>> THEN addFacet(ds, a) ELSE ds

\* One round of each loop; after a refusal nothing counts.
AddOne(ds, a, s) ==
    IF ~ds.ok \/ ds.facetOf[s] # 0 THEN Refuse(ds) ELSE addFunction(ds, s, a)
ReplaceOne(ds, a, s) ==
    IF ~ds.ok \/ ds.facetOf[s] \in {0, a} THEN Refuse(ds)
    ELSE addFunction(removeFunction(ds, s), s, a)
RemoveOne(ds, s) == IF ds.ok THEN removeFunction(ds, s) ELSE ds

addFunctions(ds, a, selectors) ==
    IF a = 0 \/ selectors = <<>> THEN Refuse(ds)
    ELSE FoldLeft(LAMBDA d, s : AddOne(d, a, s), Announce(ds, a), selectors)

replaceFunctions(ds, a, selectors) ==
    IF a = 0 \/ selectors = <<>> THEN Refuse(ds)
    ELSE FoldLeft(LAMBDA d, s : ReplaceOne(d, a, s), Announce(ds, a), selectors)

removeFunctions(ds, a, selectors) ==
    IF a # 0 \/ selectors = <<>> THEN Refuse(ds)
    ELSE FoldLeft(RemoveOne, ds, selectors)

ApplyCut(ds, cut) ==
    IF ~ds.ok THEN ds
    ELSE CASE cut.action = "Add"     -> addFunctions(ds, cut.facet, cut.selectors)
           [] cut.action = "Replace" -> replaceFunctions(ds, cut.facet, cut.selectors)
           [] cut.action = "Remove"  -> removeFunctions(ds, cut.facet, cut.selectors)

\* diamondCut: the cuts of one transaction, in their order.
diamondCut(ds, cuts) == FoldLeft(ApplyCut, ds, cuts)

\* What DiamondLoupeFacet and the proxy's fallback answer.
facetAddress(ds, s) == ds.facetOf[s]
facetFunctionSelectors(ds, a) == IF a = 0 THEN <<>> ELSE ds.list[a]
-----------------------------------------------------------------------------
(* The table's two indices agree: the proxy routes by the one, the loupe   *)
(* and the upgrade scripts read the other.                                 *)

SelectorsIndexed(ds) ==
    /\ \A a \in Addresses : \A i \in 1 .. Len(ds.list[a]) :
          /\ ds.facetOf[ds.list[a][i]] = a
          /\ ds.posOf[ds.list[a][i]] = i - 1
    /\ \A s \in Selectors : ds.facetOf[s] # 0 =>
          /\ ds.posOf[s] < Len(ds.list[ds.facetOf[s]])
          /\ ds.list[ds.facetOf[s]][ds.posOf[s] + 1] = s

FacetsIndexed(ds) ==
    /\ \A i \in 1 .. Len(ds.facets) : ds.facetPos[ds.facets[i]] = i - 1
    /\ ToSet(ds.facets) = {a \in Addresses : ds.list[a] # <<>>}
=============================================================================
