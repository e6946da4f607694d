---------------------------- MODULE TargetRegistry ----------------------------
(***************************************************************************)
(* The element references of one tab: src/browser/target-registry.ts.      *)
(*                                                                         *)
(* A registry r is [gen, recs, seq]: the page generation it was last set   *)
(* to, its records, oldest first, and the counter of references.  A record *)
(* keeps the node it was made from, the generation it was registered under *)
(* and, as history, the revision the page really had when it was read.     *)
(***************************************************************************)
EXTENDS Naturals, Sequences, FiniteSets

CONSTANTS None, MaxRefs     \* maxRefs

ASSUME MaxRefsAssumption == MaxRefs \in Nat \ {0}

\* A node: test is its data-testid or None, name "" when it has none.
NewRegistry == [gen |-> 0, recs |-> <<>>, seq |-> 0]

SetGeneration(r, generation) == [r EXCEPT !.gen = generation, !.recs = <<>>]

LastOf(s, n) == IF Len(s) <= n THEN s ELSE SubSeq(s, Len(s) - n + 1, Len(s))

Records(r, nodes, generation, seen) ==
    [i \in 1..Len(nodes) |-> [ref |-> r.seq + i, node |-> nodes[i], gen |-> generation, seen |-> seen]]

\* Mutant: a reference is registered under the generation of the moment.
Mutant_Register_now(r, nodes, generation, seen) ==
    [r EXCEPT !.recs = LastOf(@ \o Records(r, nodes, r.gen, seen), MaxRefs), !.seq = @ + Len(nodes)]

\* register for every node of a snapshot, under the snapshot's generation: the
\* oldest records make room.
Register(r, nodes, generation, seen) ==
    [r EXCEPT !.recs = LastOf(@ \o Records(r, nodes, generation, seen), MaxRefs), !.seq = @ + Len(nodes)]

\* pruneExpired: the oldest reference is two minutes old.
PruneOldest(r) == [r EXCEPT !.recs = Tail(@)]

Lookup(r, ref) == {i \in 1..Len(r.recs) : r.recs[i].ref = ref}

\* resolve up to its first await; generation is the session's pageGeneration.
ResolveVerdict(r, ref, generation) ==
    IF Lookup(r, ref) = {} THEN "TARGET_NOT_FOUND"
    ELSE IF \A i \in Lookup(r, ref) : r.recs[i].gen # generation THEN "STALE_TARGET"
    ELSE "ok"

\* semanticTargetFromMetadata, and locatorForTarget: which nodes the target of
\* a node matches.
Matches(made, node) ==
    IF made.test # None THEN node.test = made.test
    ELSE IF made.name # "" THEN node.role = made.role /\ node.name = made.name
    ELSE node.role = made.role

\* metadataMatches with allowUnknown
SameMetadata(current, expected) ==
    /\ current.role = expected.role \/ expected.role = "generic"
    /\ current.name = expected.name \/ expected.name = ""

Located(made, content) == {i \in 1..Len(content) : Matches(made, content[i])}

\* The rest of resolve, on the content the page has by then.  actionable: the
\* answer of assertActionable.
LocateVerdict(made, content, actionable) ==
    LET found == Located(made, content)
    IN  IF found = {} THEN "TARGET_NOT_FOUND"
        ELSE IF Cardinality(found) # 1 THEN "TARGET_AMBIGUOUS"
        ELSE IF \E i \in found : ~SameMetadata(content[i], made) THEN "STALE_TARGET"
        ELSE IF ~actionable THEN "TARGET_NOT_ACTIONABLE" ELSE "ok"

=============================================================================
