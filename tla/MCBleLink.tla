----------------------------- MODULE MCBleLink -----------------------------
\* Two connections, three pairs, sequence numbers of two values.
EXTENDS BleLink
=============================================================================
