--------------------------- MODULE MC_MobileSession ---------------------------
EXTENDS MobileSession

MCOffers == {[options |-> {"A", "B"}, free |-> {"B"}]}
=============================================================================
