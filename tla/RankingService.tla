---------------------------- MODULE RankingService ----------------------------
(***************************************************************************)
(* src/service/RankingService.cpp over the scores of the repository, a     *)
(* function from player ids to scores.  std::sort is not stable and the    *)
(* repository is an unordered_map, so players with one score may come in   *)
(* any order: Rankings is the set of the possible answers.                 *)
(***************************************************************************)
EXTENDS GameMessages, FiniteSets

\* Mutant: the comparison is turned round.
Sorted_Ascending(scores) ==
    {order \in [1..Cardinality(DOMAIN scores) -> DOMAIN scores] :
        \A i, j \in DOMAIN order :
            i < j => order[i] # order[j] /\ scores[order[i]] <= scores[order[j]]}
Sorted(scores) ==
    {order \in [1..Cardinality(DOMAIN scores) -> DOMAIN scores] :
        \A i, j \in DOMAIN order :
            i < j => order[i] # order[j] /\ scores[order[i]] >= scores[order[j]]}

\* The loop runs from 0 to size - 1: not at all for a negative top_n.
RankingSize(top_n, n) == IF top_n < n THEN top_n ELSE n

Rankings(scores, top_n) ==
    {RankingResp([i \in 1..RankingSize(top_n, Cardinality(DOMAIN scores)) |->
                    RankingItem(order[i], scores[order[i]])]) : order \in Sorted(scores)}
===============================================================================
