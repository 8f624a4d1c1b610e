-------------------------------- MODULE Scopes --------------------------------
(***************************************************************************)
(* Scopes and depths as pure operators: what a grant covers, as the Go code*)
(* decides it (Covers) and as the queries over facts decide it (SqlCovers),*)
(* and how deep a fact may be read.  A scope is an operation, a sequence of*)
(* segments, and a target or none.                                         *)
(***************************************************************************)
EXTENDS Integers, Sequences, FiniteSets

CONSTANTS
    NoTarget,
    LookAlikes        \* pairs of segments where the first, its _ unescaped,
                      \* is a LIKE pattern for the second

\* strings.HasPrefix(r, g + "."), or the same operation.
OpCovers(g, r) ==
    /\ Len(g) <= Len(r)
    /\ \A i \in 1 .. Len(g) : g[i] = r[i]

Covers(g, r) == g.target = r.target /\ OpCovers(g.op, r.op)

AnyCovers(granted, r) == \E g \in granted : Covers(g, r)

Missing(requested, granted) == {r \in requested : ~AnyCovers(granted, r)}

\* Seeded fault: the _ of a segment is not escaped.
FaultyLikeSegment(p, s) == p = s \/ <<p, s>> \in LookAlikes

\* A segment of an escaped pattern against one of a scope.
LikeSegment(p, s) == p = s

\* fs.scope LIKE '<g>.%': the strict descendants, of an untargeted scope.
LikeDescendant(g, r) ==
    /\ g.target = NoTarget
    /\ r.target = NoTarget
    /\ Len(g.op) < Len(r.op)
    /\ \A i \in 1 .. Len(g.op) : LikeSegment(g.op[i], r.op[i])

\* fs.scope = ANY(granted) OR fs.scope LIKE ANY(prefixes)
SqlCovers(granted, r) == \E g \in granted : g = r \/ LikeDescendant(g, r)

\* Has tags, and no tag that is not covered.
SqlVisible(tags, granted) == tags # {} /\ \A t \in tags : SqlCovers(granted, t)

-------------------------------------------------------------------------------
DepthOrder == <<"summary", "facts", "full">>

DepthRank(d) == CHOOSE i \in 1 .. 3 : DepthOrder[i] = d

Most(S) == CHOOSE x \in S : \A y \in S : y <= x
Least(S) == CHOOSE x \in S : \A y \in S : x <= y

\* The scopes of a set of [scope, depth].
ScopesOf(granted) == {g.scope : g \in granted}

\* The ranks a tag is granted at.
TagRanks(tag, granted) ==
    {DepthRank(g.depth) : g \in {x \in granted : Covers(x.scope, tag)}}

\* Seeded fault: the most permissive tag decides.
FaultyEffectiveDepth(tags, granted) ==
    IF tags = {} \/ \E t \in tags : TagRanks(t, granted) = {}
    THEN "summary"
    ELSE DepthOrder[Most({Most(TagRanks(t, granted)) : t \in tags})]

\* Union over the grants that cover a tag, intersection over the tags.
EffectiveDepth(tags, granted) ==
    IF tags = {} \/ \E t \in tags : TagRanks(t, granted) = {}
    THEN "summary"
    ELSE DepthOrder[Least({Most(TagRanks(t, granted)) : t \in tags})]
===============================================================================
