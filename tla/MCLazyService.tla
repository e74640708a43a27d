--------------------------- MODULE MCLazyService ----------------------------
(* Instances of LazyService for TLC.                                       *)
EXTENDS LazyService, TLC

=============================================================================
