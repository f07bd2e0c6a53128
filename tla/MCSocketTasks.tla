--------------------------- MODULE MCSocketTasks ---------------------------
(* SocketTasks on small sets; the constants are given by the cfg files.     *)
EXTENDS SocketTasks, TLC

\* max_connections of an app without a limit
NoLimit == -1

\* Sockets and users are interchangeable.
Symmetry == Permutations(Sockets) \cup Permutations(Users)

=============================================================================
