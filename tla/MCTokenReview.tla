--------------------------- MODULE MCTokenReview ---------------------------
(* TokenReview for TLC: an authenticator with a client-credential source   *)
(* and a source that is given the token of the request, before one without *)
(* sources, and tokens of both issuers and of a third.                     *)
EXTENDS TokenReview

CONSTANTS i1, i2, i3

MCIssuers == {i1, i2, i3}

MCAuthenticators ==
    << [issuer |-> i1, sources |-> <<"ClientCredential", "RequestProvided">>],
       [issuer |-> i2, sources |-> <<>>] >>
=============================================================================
