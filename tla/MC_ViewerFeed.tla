--------------------------- MODULE MC_ViewerFeed ---------------------------
(* ViewerFeed with a ring that a slow viewer overruns, credits of half a    *)
(* message, and an EWMA that starts too low.                                *)
EXTENDS ViewerFeed
=============================================================================
