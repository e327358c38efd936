--------------------------- MODULE MCHealthcheck ---------------------------
EXTENDS Healthcheck

CONSTANTS w1, w2, r1, r2

Conf(down, uri) == [up |-> 2, down |-> down, uri |-> uri]
TwoConfigs == {Conf(-2, TRUE), Conf(-2, FALSE)}
OneConfig == {Conf(-2, TRUE)}
PositiveDown == {Conf(2, TRUE)}
=============================================================================
