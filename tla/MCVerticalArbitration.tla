----------------------- MODULE MCVerticalArbitration -----------------------
EXTENDS VerticalArbitration

\* The column's two buses.
MCBuses == {"up", "down"}

=============================================================================
