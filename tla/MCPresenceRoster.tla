-------------------------- MODULE MCPresenceRoster --------------------------
(* PresenceRoster on small sets; the constants are given by the cfg files.  *)
EXTENDS PresenceRoster

\* max_connections of an app without a limit
NoLimit == -1

=============================================================================
