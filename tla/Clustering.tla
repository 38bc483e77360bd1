------------------------------- MODULE Clustering -------------------------------
(***************************************************************************)
(* The clustering engine: a sample of the schedules, its feature vectors,  *)
(* the number of families, K-means, and the families as they are shown.    *)
(*                                                                         *)
(* A vector is one whole number, the normalised score of a schedule; the   *)
(* scores are multiples of every size a family can have, so that means are *)
(* whole as well.  The generators are seeded in the code; here every draw  *)
(* is possible, and an operator gives the set of its possible results.     *)
(***************************************************************************)
EXTENDS Integers, FiniteSets, SequencesExt, FiniteSetsExt

CONSTANTS
    MaxSample,      \* max_sample
    MaxIterations,  \* max_iterations of K-means
    KMin, KMax      \* k_min and k_max, the bounds of automatic K

ASSUME ClusteringAssumption ==
    /\ MaxSample \in Nat \ {0} /\ MaxIterations \in Nat \ {0}
    /\ 1 <= KMin /\ KMin <= KMax

Positions(points) == DOMAIN points
Total(points, S) == MapThenSumSet(LAMBDA i : points[i], S)
Mean(points, S) == Total(points, S) \div Cardinality(S)
Distance(p, q) == IF p < q THEN q - p ELSE p - q

\* sample_indices: everything, or a sorted draw.
sample_indices(population) ==
    IF population <= MaxSample THEN {[i \in 1 .. population |-> i - 1]}
    ELSE {s \in [1 .. MaxSample -> 0 .. population - 1] :
             \A i, j \in 1 .. MaxSample : i < j => s[i] < s[j]}

-----------------------------------------------------------------------------
(***************************************************************************)
(* K-means.                                                                *)
(***************************************************************************)
\* _kmeans_plus_plus_init: a seed lies on another place than the seeds before it as long as
\* there is one.
Seeds(points, k) ==
    {c \in [1 .. k -> Range(points)] :
        \A j \in 2 .. k :
            LET before == {c[i] : i \in 1 .. j - 1}
            IN c[j] \notin before \/ Range(points) \subseteq before}

Nearest(p, centroids) ==
    Min({c \in DOMAIN centroids :
              \A d \in DOMAIN centroids : Distance(p, centroids[c]) <= Distance(p, centroids[d])})

Labels(points, centroids) == [i \in Positions(points) |-> Nearest(points[i], centroids)]

\* The first of the points that are farthest from their nearest centroid.
Farthest(points, centroids) ==
    LET far(i) == Distance(points[i], centroids[Nearest(points[i], centroids)])
    IN points[Min({i \in Positions(points) : \A j \in Positions(points) : far(j) <= far(i)})]

_recompute_centroids(points, labels, previous) ==
    FoldLeft(LAMBDA centroids, c :
                LET members == {i \in Positions(points) : labels[i] = c}
                IN [centroids EXCEPT ![c] = IF members # {} THEN Mean(points, members)
                                                            ELSE Farthest(points, centroids)],
             previous, [c \in DOMAIN previous |-> c])

\* Lloyd's loop; it begins with every label 0, the first family.
Lloyd(points, seeds) ==
    FoldLeft(LAMBDA out, i :
                LET labels == Labels(points, out.centroids)
                IN IF out.stable THEN out
                   ELSE IF labels = out.labels THEN [out EXCEPT !.stable = TRUE]
                   ELSE [labels |-> labels, stable |-> FALSE,
                         centroids |-> _recompute_centroids(points, labels, out.centroids)],
             [labels |-> [i \in Positions(points) |-> 1], centroids |-> seeds, stable |-> FALSE],
             [i \in 1 .. MaxIterations |-> i])

kmeans(points, k) == {Lloyd(points, s) : s \in Seeds(points, IF k < Len(points) THEN k ELSE Len(points))}

-----------------------------------------------------------------------------
(***************************************************************************)
(* Automatic K.  A silhouette is a fraction; sums and comparisons are      *)
(* cross-multiplied.                                                       *)
(***************************************************************************)
Add(x, y) == <<x[1] * y[2] + y[1] * x[2], x[2] * y[2]>>
Less(x, y) == x[1] * y[2] < y[1] * x[2]

\* The mean distance of a point to the members of a family other than itself.
MeanDistance(points, i, members) ==
    LET others == members \ {i}
    IN <<MapThenSumSet(LAMBDA j : Distance(points[i], points[j]), others), Cardinality(others)>>

\* (b - a) / max(a, b): 0 for the only member of a family, and where all distances are 0.
Silhouette(points, labels, i) ==
    LET family(c) == {j \in Positions(points) : labels[j] = c}
        a == MeanDistance(points, i, family(labels[i]))
        bs == {MeanDistance(points, i, family(c)) : c \in Range(labels) \ {labels[i]}}
        b == CHOOSE x \in bs : \A y \in bs : ~Less(y, x)
        largest == IF Less(a, b) THEN b ELSE a
    IN IF family(labels[i]) = {i} \/ largest[1] = 0 THEN <<0, 1>>
       ELSE <<(b[1] * a[2] - a[1] * b[2]) * largest[2], a[2] * b[2] * largest[1]>>

_silhouette(points, labels) ==
    IF Cardinality(Range(labels)) < 2 THEN <<0, 1>>
    ELSE LET sum == FoldLeft(LAMBDA acc, i : Add(acc, Silhouette(points, labels, i)),
                             <<0, 1>>, [i \in Positions(points) |-> i])
         IN <<sum[1], sum[2] * Len(points)>>

\* AutoKSelector.choose: the first K with the best silhouette, of one partition for each K.
choose_k(points) ==
    LET n == Len(points)
        upper == IF KMax < n - 1 THEN KMax ELSE n - 1
        lower == IF KMin < 2 THEN 2 ELSE KMin
        best(tried) == Min({k \in DOMAIN tried : \A l \in DOMAIN tried : ~Less(tried[k], tried[l])})
    IN IF n <= 2 \/ KMin >= n THEN {IF KMin < n THEN KMin ELSE n}
       ELSE IF upper < lower THEN {lower}
       ELSE {best([k \in lower .. upper |-> _silhouette(points, out[k].labels)]) :
                out \in {f \in [lower .. upper -> UNION {kmeans(points, k) : k \in lower .. upper}] :
                            \A k \in lower .. upper : f[k] \in kmeans(points, k)}}

-----------------------------------------------------------------------------
(***************************************************************************)
(* ClusteringService.cluster: the families of a partition, numbered        *)
(* without gaps.  Positions and families are counted from 1.               *)
(***************************************************************************)
\* _pick_representative.
Representative(points, members, centroid) ==
    Min({i \in members : \A j \in members :
              Distance(points[i], centroid) <= Distance(points[j], centroid)})

\* int(round(size * population / n)), halves to the even side.
Estimate(size, population, n) ==
    LET q == (size * population) \div n
        r == (size * population) % n
    IN IF 2 * r > n \/ (2 * r = n /\ q % 2 = 1) THEN q + 1 ELSE q

Family(points, out, c, population) ==
    LET members == {i \in Positions(points) : out.labels[i] = c}
    IN [members |-> SetToSortSeq(members, <),
        representative |-> Representative(points, members, out.centroids[c]),
        estimate |-> IF population > Len(points) THEN Estimate(Cardinality(members), population, Len(points))
                                                 ELSE Cardinality(members)]

\* Mutant: families that came out empty leave a gap in the numbers.
families_Gaps(points, out, population) ==
    [c \in DOMAIN out.centroids |-> Family(points, out, IF c \in Range(out.labels) THEN c ELSE 1, population)]

families(points, out, population) ==
    LET used == SetToSortSeq(Range(out.labels), <)
    IN [c \in DOMAIN used |-> Family(points, out, used[c], population)]

\* _resolve_k: k that was asked for, or what the configuration says; 0 is automatic.
_resolve_k(points, k, configured) ==
    IF k # 0 THEN {k} ELSE IF configured = 0 THEN choose_k(points) ELSE {configured}

Clusters(points, k, configured, population) ==
    UNION {{[asked |-> asked, families |-> families(points, out, population)] : out \in kmeans(points, asked)} :
              asked \in _resolve_k(points, k, configured)}
=============================================================================
