------------------------- MODULE MCExtensionSession -------------------------
(* One executive with two browsers: pages in both hand the handoff of a call   *)
(* to the extension; one page more, in the first browser, hands over the same  *)
(* handoff again or the next one.                                              *)
EXTENDS ExtensionSession, TLC

CONSTANTS h1, h2, a, b, c1, c2, c3

MCHandoffsOf == c1 :> {h1} @@ c2 :> {h1} @@ c3 :> {h1, h2}

MCBrowserOf == c1 :> a @@ c2 :> b @@ c3 :> a
=============================================================================
