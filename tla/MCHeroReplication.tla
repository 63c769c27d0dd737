------------------------- MODULE MCHeroReplication -------------------------
\* Two heroes, the owner's client and another one.
EXTENDS HeroReplication
=============================================================================
