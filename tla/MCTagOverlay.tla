----------------------------- MODULE MCTagOverlay -----------------------------
(* TagPanel on small instances: a contract whose order is not that of its weights. *)
EXTENDS TagPanel

MCContract == <<"floor_shape", "lp_residual">>
MCWeights == [key \in {"floor_shape", "lp_residual"} |->
                IF key = "lp_residual" THEN 30 ELSE 25]
=============================================================================
