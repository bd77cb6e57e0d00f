--------------------------- MODULE MCIamNameClaims ---------------------------
(* TLC instances of IamNameClaims.                                         *)
EXTENDS IamNameClaims, TLC

(* Every CR has the same resource name, in namespaces of its own.          *)
SameDefault == [c \in CRs |-> "alice"]
=============================================================================
