----------------------- MODULE MCPreviewEnvironments -----------------------
(* A feature branch and a protected ref that both get previews, one cleanup  *)
(* and the janitor.                                                          *)
EXTENDS PreviewEnvironments, TLC
=============================================================================
