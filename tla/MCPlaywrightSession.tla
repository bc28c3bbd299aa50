------------------------ MODULE MCPlaywrightSession ------------------------
(* Small instances of PlaywrightSession for TLC.                           *)
EXTENDS PlaywrightSession, TLC

\* Scripts, names, browsers and contexts are interchangeable.
Interchangeable ==
  Permutations(Script) \cup Permutations(BrowserName)
    \cup Permutations(Browser) \cup Permutations(Context)
=============================================================================
