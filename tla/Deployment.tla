----------------------------- MODULE Deployment -----------------------------
(* What every module shares: the deployed functions and the absence of a value. *)
CONSTANTS
  Fn,                 \* the func_name of each entry of lambda_funcs_to_deploy
  None                \* SQL NULL, no dictionary entry
=============================================================================
