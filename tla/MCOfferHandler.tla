--------------------------- MODULE MCOfferHandler ---------------------------
(* The offer handler for TLC: an invoice with two paths through a known    *)
(* node, and one whose first path begins at a channel (scid).              *)
EXTENDS OfferHandler

CONSTANTS plain, mixed

MCInvoices == {plain, mixed}

MCPaths == [i \in {plain, mixed} |->
                IF i = plain THEN <<"node", "node">> ELSE <<"scid", "node">>]
=============================================================================
