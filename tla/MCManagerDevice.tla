--------------------------- MODULE MCManagerDevice ---------------------------
\* Two addresses of one device.  i2 is the Device made for the first address
\* when it is announced again after its interface has expired.
EXTENDS ManagerDevice

CONSTANTS i1, i2, i3
MCIp == [i \in Interfaces |-> IF i = i3 THEN "y" ELSE "x"]
=============================================================================
