-------------------------------- MODULE Browse --------------------------------
(***************************************************************************)
(* The search of the OPC UA connector: breadth-first below the configured  *)
(* root, a batch of nodes to a Browse call, until enough variables match,  *)
(* as many nodes were seen or everything as deep as allowed was looked at. *)
(* The address space is a graph that may have cycles and several ways to a *)
(* node; references to properties and to other servers are not in it.      *)
(***************************************************************************)
EXTENDS Naturals, Sequences, FiniteSets, SequencesExt

CONSTANTS
    Root,          \* browse_root
    AddressSpaces, \* what a server may have: a sequence of references for every node
    Matching,      \* the variables whose names match the query
    BrowseBatch, BrowseDepth, BrowseLimit, SearchLimit

ASSUME BrowseAssumption ==
    /\ {BrowseBatch, BrowseDepth, BrowseLimit, SearchLimit} \subseteq Nat \ {0}
    /\ \A s \in AddressSpaces : Root \in DOMAIN s /\ \A n \in DOMAIN s : s[n] \in Seq(DOMAIN s)

VARIABLES
    space,     \* the references of the server's nodes
    frontier,  \* the nodes still to browse, with their depth
    answers,   \* the references of the batch that are not looked at yet, with the depth of their source
    seen,      \* the nodes that were come across
    found      \* what the search has found

browseVars == <<space, frontier, answers, seen, found>>

Nodes    == DOMAIN space
AtDepths == {[node |-> n, depth |-> d] : n \in Nodes, d \in 0..(BrowseDepth - 1)}

\* The type invariant.
BrowseTypeOK ==
    /\ space \in AddressSpaces
    /\ \A i \in DOMAIN frontier : frontier[i] \in AtDepths
    /\ \A i \in DOMAIN answers : answers[i] \in AtDepths
    /\ seen \subseteq Nodes
    /\ \A i \in DOMAIN found : found[i] \in Matching

BrowseInit ==
    /\ space \in AddressSpaces
    /\ frontier = <<[node |-> Root, depth |-> 0]>>
    /\ answers = <<>> /\ seen = {Root} /\ found = <<>>

\* The references of a node, whatever number of continuation points they come with.
References(entry) == [i \in DOMAIN space[entry.node] |-> [node |-> space[entry.node][i], depth |-> entry.depth]]

\* The next batch is browsed.
BrowseNodes ==
    /\ answers = <<>> /\ frontier # <<>>
    /\ Len(found) < SearchLimit /\ Cardinality(seen) < BrowseLimit
    /\ LET batch == SubSeq(frontier, 1, Min({BrowseBatch, Len(frontier)})) IN
         /\ answers' = FlattenSeq([i \in DOMAIN batch |-> References(batch[i])])
         /\ frontier' = SubSeq(frontier, Len(batch) + 1, Len(frontier))
    /\ UNCHANGED <<space, seen, found>>

\* Mutant of Expanded: what is found last is browsed first.
ExpandedFirst(ref) ==
    IF ref.depth + 1 < BrowseDepth THEN <<[node |-> ref.node, depth |-> ref.depth + 1]>> \o frontier ELSE frontier

\* A node is to be browsed unless its references are too deep.
Expanded(ref) ==
    IF ref.depth + 1 < BrowseDepth THEN Append(frontier, [node |-> ref.node, depth |-> ref.depth + 1]) ELSE frontier

\* Mutant of IsNews: only what waits to be browsed is known, not all that was seen.
IsNewsUnlessAhead(ref) ==
    ref.node \notin {frontier[i].node : i \in DOMAIN frontier} /\ Cardinality(seen) < BrowseLimit

\* A node that was not come across, while the search is within its bound.
IsNews(ref) == ref.node \notin seen /\ Cardinality(seen) < BrowseLimit

\* One reference of the batch: a node that is news is found, when it matches, and browsed later;
\* with the last match that is asked for, the rest of the batch does not matter.
LookAt ==
    /\ answers # <<>>
    /\ LET ref == Head(answers) IN
         IF IsNews(ref)
         THEN /\ seen' = seen \union {ref.node}
              /\ found' = IF ref.node \in Matching THEN Append(found, ref.node) ELSE found
              /\ IF Len(found') = SearchLimit
                 THEN answers' = <<>> /\ UNCHANGED frontier
                 ELSE answers' = Tail(answers) /\ frontier' = Expanded(ref)
         ELSE answers' = Tail(answers) /\ UNCHANGED <<frontier, seen, found>>
    /\ UNCHANGED space

BrowseNext == BrowseNodes \/ LookAt

BrowseSpec == BrowseInit /\ [][BrowseNext]_browseVars

-----------------------------------------------------------------------------
(* Properties *)

\* The nodes that so many references lead to.
Within[steps \in Nat] ==
    IF steps = 0 THEN {Root}
    ELSE Within[steps - 1] \union UNION {{space[n][i] : i \in DOMAIN space[n]} : n \in Within[steps - 1]}

SearchEnds == answers = <<>> /\ (frontier = <<>> \/ Len(found) >= SearchLimit \/ Cardinality(seen) >= BrowseLimit)

\* A search (opc_ua/connector.py:196-229) finds no variable twice, no more than was asked for and
\* none deeper than allowed; unless it was cut by one of its bounds, it has found every variable
\* within its depth that matches, whatever ways lead there.
SearchFindsAll ==
    /\ \A i, j \in DOMAIN found : found[i] = found[j] => i = j
    /\ Len(found) <= SearchLimit
    /\ \A i \in DOMAIN found : found[i] \in Within[BrowseDepth]
    /\ (SearchEnds /\ Len(found) < SearchLimit /\ Cardinality(seen) < BrowseLimit) =>
         (Within[BrowseDepth] \ {Root}) \intersect Matching \subseteq {found[i] : i \in DOMAIN found}
=============================================================================
