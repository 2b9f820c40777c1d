--------------------------- MODULE MCAzureIntegration ---------------------------
(* Instances of AzureIntegration for TLC.                                    *)
EXTENDS AzureIntegration, TLC

(* Secrets, requests and collections are interchangeable.                    *)
MCSymmetry ==
  UNION {Permutations(Secrets), Permutations(Requests), Permutations(Collections)}

===============================================================================
