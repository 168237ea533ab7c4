------------------------------ MODULE MCSeedRoll ------------------------------
(***************************************************************************)
(* Small instances of SeedRoll.                                            *)
(***************************************************************************)
EXTENDS SeedRoll

(* Every process serves some request. *)
MCHome == CHOOSE h \in [Caller -> Process] : \A w \in Process : \E c \in Caller : h[c] = w
=============================================================================
