--------------------------- MODULE MCOfferExchange ---------------------------
(* Offers for TLC: five nodes at the other end of six channels, so that the *)
(* search for introduction nodes can end early and one node comes twice.    *)
EXTENDS OfferExchange

CONSTANTS n1, n2, n3, n4, n5

MCChannels == <<n1, n1, n2, n3, n4, n5>>
MCNeighbours == <<n1, n2>>
=============================================================================
