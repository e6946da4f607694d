---------------------------- MODULE SnapshotHistory ----------------------------
(***************************************************************************)
(* The bounded snapshot history of one tab and the differences between     *)
(* snapshots: src/browser/snapshot-history.ts.                             *)
(*                                                                         *)
(* A history h is [entries, expired, total, seq]: retained entries oldest  *)
(* first, tombstones of expired ids oldest first, the bytes accounted for, *)
(* the id counter.  A stored node is a node with the reference it was      *)
(* given; its text stands for the digest that is kept in its place.        *)
(***************************************************************************)
EXTENDS Naturals, Sequences, FiniteSets

CONSTANTS
    MaxSnapshots,       \* maxSnapshots
    MaxBytes,           \* maxBytes
    MaxSnapshotBytes,   \* maxSnapshotBytes
    MaxNodes,           \* maxNodes
    Ttl                 \* ttlMs

ASSUME HistoryAssumption ==
    /\ MaxSnapshots \in Nat \ {0} /\ Ttl \in Nat \ {0} /\ MaxNodes \in Nat \ {0}
    /\ MaxBytes \in Nat /\ MaxSnapshotBytes \in 1..MaxBytes

NewHistory == [entries |-> <<>>, expired |-> <<>>, total |-> 0, seq |-> 0]

Sum(entries) ==
    LET s[i \in 0..Len(entries)] == IF i = 0 THEN 0 ELSE s[i - 1] + entries[i].bytes
    IN  s[Len(entries)]

Without(s, k) == SubSeq(s, k + 1, Len(s))
Smallest(S) == CHOOSE n \in S : \A m \in S : n <= m

\* prune: expired entries leave a tombstone, which expires and is bounded too.
Prune(h, now) ==
    LET gone == SelectSeq(h.entries, LAMBDA e : e.expiresAt <= now)
        kept == SelectSeq(h.entries, LAMBDA e : e.expiresAt > now)
        stones == SelectSeq(h.expired \o [i \in 1..Len(gone) |-> [id |-> gone[i].id, at |-> now]],
                            LAMBDA t : t.at + Ttl > now)
        over == IF Len(stones) > 2 * MaxSnapshots THEN Len(stones) - 2 * MaxSnapshots ELSE 0
    IN  [h EXCEPT !.entries = kept, !.total = @ - Sum(gone), !.expired = Without(stones, over)]

Position(h, id) == {i \in 1..Len(h.entries) : h.entries[i].id = id}
Expired(h, id) == \E i \in 1..Len(h.expired) : h.expired[i].id = id

\* requireEntry
RequireVerdict(h, id) ==
    IF Position(h, id) # {} THEN "ok"
    ELSE IF Expired(h, id) THEN "SNAPSHOT_EXPIRED" ELSE "SNAPSHOT_NOT_FOUND"

\* The loop that evicts the oldest until there is room for one more.
Evict(h, bytes) ==
    LET fits == {k \in 0..Len(h.entries) :
                    /\ Len(h.entries) - k < MaxSnapshots
                    /\ h.total - Sum(SubSeq(h.entries, 1, k)) + bytes <= MaxBytes}
        k == Smallest(fits \cup {Len(h.entries)})
    IN  [h EXCEPT !.entries = Without(@, k), !.total = @ - Sum(SubSeq(h.entries, 1, k))]

\* prepareSnapshot: the entry of a page's nodes.  Its size is that of its nodes
\* and a fixed part.
Prepared(h, nodes, revision, now) ==
    LET kept == SubSeq(nodes, 1, IF Len(nodes) > MaxNodes THEN MaxNodes ELSE Len(nodes))
    IN  [id |-> h.seq + 1, rev |-> revision, nodes |-> kept, bytes |-> Len(kept) + 1, expiresAt |-> now + Ttl]

RetainVerdict(entry) ==
    IF entry.bytes > MaxSnapshotBytes \/ entry.bytes > MaxBytes THEN "RESOURCE_EXHAUSTED" ELSE "ok"

\* retainPrepared of a new id
Retain(h, entry) ==
    LET room == Evict(h, entry.bytes)
    IN  [room EXCEPT !.entries = Append(@, entry), !.total = @ + entry.bytes, !.seq = entry.id]

-----------------------------------------------------------------------------
(* makeDiff *)

SemanticKey(node, none) == IF node.test # none THEN <<"test", node.test>> ELSE <<node.role, node.name>>

\* changedFields: the fields but the reference.
Changed(a, b) == <<a.test, a.role, a.name, a.text>> # <<b.test, b.role, b.name, b.text>>

\* Mutant: a base node may be matched twice.
Mutant_Matching_reuses(cur, base, none) ==
    [i \in 1..Len(cur) |->
        LET same == {j \in 1..Len(base) : SemanticKey(base[j], none) = SemanticKey(cur[i], none)}
        IN  IF same = {} THEN 0 ELSE Smallest(same)]

\* For every current node, the index of the base node it is matched with or 0:
\* the first unused one with its reference, then with its semantic key.
Matching(cur, base, none) ==
    LET m[i \in 0..Len(cur)] ==
            IF i = 0 THEN <<>>
            ELSE LET unused == {j \in 1..Len(base) : \A k \in 1..(i - 1) : m[i - 1][k] # j}
                     byRef == {j \in unused : base[j].ref = cur[i].ref}
                     bySem == {j \in unused : SemanticKey(base[j], none) = SemanticKey(cur[i], none)}
                 IN  Append(m[i - 1], IF byRef # {} THEN Smallest(byRef)
                                      ELSE IF bySem # {} THEN Smallest(bySem) ELSE 0)
    IN  m[Len(cur)]

\* Indices of the added and removed nodes, and the pairs that changed.
MakeDiff(cur, base, none) ==
    LET match == Matching(cur, base, none)
    IN  [added   |-> {i \in 1..Len(cur) : match[i] = 0},
         removed |-> {j \in 1..Len(base) : \A i \in 1..Len(cur) : match[i] # j},
         updated |-> {i \in 1..Len(cur) : match[i] # 0 /\ Changed(base[match[i]], cur[i])},
         match   |-> match]

=============================================================================
