--------------------------- MODULE MCFeedbackStore --------------------------
(* Instances of FeedbackStore for TLC.                                     *)
EXTENDS FeedbackStore, TLC

=============================================================================
