--------------------------- MODULE MCConfigReload ---------------------------
(* ConfigReload for TLC, without requests: c1 needs no token endpoint, c2  *)
(* does.  Requests and reloads are checked together in MCConfigurator.     *)
EXTENDS ConfigReload, TLC

CONSTANTS c1, c2, i1

MCContents == {c1, c2}

MCIssuersOf == (c1 :> {i1}) @@ (c2 :> {i1})

MCClientCredential == (c1 :> {}) @@ (c2 :> {i1})
=============================================================================
