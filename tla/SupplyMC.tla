------------------------------- MODULE SupplyMC -------------------------------
(* A small world for TargetSupply: "able" is on the second page of the general  *)
(* query, "behind" after it, "near" is known from an earlier scan and listed    *)
(* nowhere, "broken" comes first in every order: it does not build.             *)
EXTENDS TargetSupply

WorldRepos == <<"broken", "near", "able">>
LargerWorldRepos == <<"broken", "near", "able", "behind">>
WorldFocused == <<"focused">>

\* "able" and "behind" are of one owner and one build family.
WorldOwner == [r \in R |-> IF r = "behind" THEN "able" ELSE r]

WorldListing ==
  [q \in Queries |-> [p \in 1..Pages |->
     CASE q # Broad -> <<>>
       [] p = 1 -> <<"broken">>
       [] OTHER -> SelectSeq(<<"able", "behind">>, LAMBDA r : r \in R)]]

=============================================================================
