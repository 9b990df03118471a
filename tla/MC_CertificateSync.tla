------------------------- MODULE MC_CertificateSync -------------------------
(* Two round-1 headers on the genesis, and a round-2 header on both.       *)
EXTENDS CertificateSync, TLC

CONSTANTS h1, h2, h3, g1, g2

MCHeaders == {h1, h2, h3}
MCGenesis == {g1, g2}
MCParents == (h1 :> {g1, g2}) @@ (h2 :> {g1, g2}) @@ (h3 :> {h1, h2})
=============================================================================
