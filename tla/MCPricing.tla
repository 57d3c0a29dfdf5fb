------------------------------ MODULE MCPricing ------------------------------
(* Pricing with a negative price, which a .cfg cannot write down.            *)
EXTENDS Pricing

MCPrices == {-4, 4, 12}
=============================================================================
