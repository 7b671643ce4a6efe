---------------------------- MODULE MCRateLimiter ----------------------------
EXTENDS RateLimiter

CONSTANTS list, item

MCDefault == [windowMs |-> 3, max |-> 4]
MCController == [max |-> 2]
MCHandler == [m \in Methods |-> IF m = list THEN [max |-> 1] ELSE <<>>]

=============================================================================
