--------------------------- MODULE MCOutputWriter ---------------------------
(* Small instances of OutputWriter for TLC. *)
EXTENDS OutputWriter

CONSTANTS r1, r2,      \* processes
          new, old,    \* two generated texts
          hand         \* a hand-written text

\* One Rd path: NAMESPACE alone, or with the Rd file.
OneText == {o \in [Paths -> {new, "NoOutput"}] : o[NAMESPACE] = new}
=============================================================================
