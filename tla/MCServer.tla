------------------------------ MODULE MCServer ------------------------------
(* Server on a small instance; the limits that differ between runs.         *)
EXTENDS Server

NoLimit == -1

=============================================================================
