----------------------------- MODULE MCMarketplace -----------------------------
(* Instances of Marketplace and its properties for TLC. *)
EXTENDS MarketplaceRefinement, TLC

(* Every account is alike, and so is every proposal and every fee. *)
Symmetry == Permutations(Users) \cup Permutations(Proposals) \cup Permutations(Fees)

================================================================================
