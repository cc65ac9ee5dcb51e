--------------------------- MODULE MCHookLifecycle ---------------------------
(* Model-checking instance of HookLifecycle: the cfg names its values.     *)
EXTENDS HookLifecycle

=============================================================================
