----------------------------- MODULE MCHALease ------------------------------
EXTENDS HALease, TLC

\* Two hosts alike: neither is configured to take over by force.
HostsAlike == Permutations(Hosts)

=============================================================================
