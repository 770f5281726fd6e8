-------------------------- MODULE MCPlayerItemCache --------------------------
EXTENDS PlayerItemCache

\* Two people, a bot, one item.
CONSTANTS p1, p2, b1, i1
=============================================================================
