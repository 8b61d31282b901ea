--------------------------- MODULE MCConfigurator ---------------------------
(* Configurator for TLC: a configuration c1 with one issuer, and a         *)
(* configuration c2 that keeps it and adds one whose claims source uses    *)
(* client credentials.  A missing file stands for all that does not        *)
(* validate.                                                               *)
EXTENDS Configurator, TLC

CONSTANTS c1, c2, i1, i2

MCContents == {c1, c2}

MCValid == {c1, c2}

MCIssuersOf == (c1 :> {i1}) @@ (c2 :> {i1, i2})

MCClientCredential == (c1 :> {}) @@ (c2 :> {i2})

(* For liveness, one issuer.                                               *)
LiveIssuersOf == (c1 :> {i1}) @@ (c2 :> {i1})

LiveClientCredential == (c1 :> {}) @@ (c2 :> {i1})

Symmetry == Permutations(Authenticators)

(* What a collected authenticator held is no longer part of the state.     *)
Reachable(a) == IF Garbage(a) THEN Nil ELSE <<cfgOf[a], ctx[a], jwt[a]>>

View == <<environment, configurator, [a \in Authenticators |-> Reachable(a)], requests>>
=============================================================================
