--------------------------- MODULE PokeChannelMC ---------------------------
EXTENDS PokeChannel

CONSTANTS h1, h2, h3
=============================================================================
