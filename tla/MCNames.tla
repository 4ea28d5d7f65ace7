------------------------------ MODULE MCNames ------------------------------
\* Names with one other identity per peer.
EXTENDS Names

MCAltOf == [p \in Peers |-> "alt"]

=============================================================================
