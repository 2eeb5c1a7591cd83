------------------------------ MODULE MCDnsCache ------------------------------
EXTENDS DnsCache, TLC

CONSTANTS r1, r2, w1, w2, n1, n2
=============================================================================
