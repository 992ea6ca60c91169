-------------------------- MODULE MCCardOwnership --------------------------
\* While 'e' waits and switches the host still sends: any line but 'd', a 'd',
\* or a second 'e' alone.
EXTENDS CardOwnership
NoStart == Commands \ {"d"}
StartLine == {"d"}
SecondEject == {"e"}
=============================================================================
