-------------------------- MODULE MCCacheLifecycle ---------------------------
EXTENDS CacheLifecycle

CONSTANTS w1, p1, p2, n1, t1

\* Who shows up together.
MCLoads == {{w1, t1}, {p1, n1, t1}, {p1, p2}}

=============================================================================
