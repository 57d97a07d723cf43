--------------------------- MODULE MCRateLimiter ----------------------------
\* Instances of RateLimiter for TLC.
EXTENDS RateLimiter, TLC

CONSTANTS p1, p2

TwoClients == {p1, p2}
TwoDomains == {"a", "b"}
OneDomain == {"a"}

=============================================================================
