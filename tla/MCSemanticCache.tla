--------------------------- MODULE MCSemanticCache ---------------------------
(* Model-checking instances of SemanticCache.                               *)
EXTENDS SemanticCache, SequencesExt

CONSTANTS p1, p2, p3

\* p1 and p2 are paraphrases, p3 is about something else.
MCSim == [pq \in Prompts \X Prompts |->
            IF pq[1] = pq[2] THEN 100 ELSE IF p3 \in {pq[1], pq[2]} THEN 30 ELSE 95]

\* Pick at the positions of the even numbers is SelectSeq, over short sequences.
ASSUME PickIsSelectSeq ==
    \A s \in BoundedSeq(0..3, 4) :
        Pick(s, {i \in 1..Len(s) : s[i] % 2 = 0}) = SelectSeq(s, LAMBDA x : x % 2 = 0)

\* Goroutines are interchangeable, and so are the paraphrases.
CacheSymmetry == {f @@ g : f \in Permutations(Threads), g \in Permutations({p1, p2})}
=============================================================================
