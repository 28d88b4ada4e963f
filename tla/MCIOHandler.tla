---------------------------- MODULE MCIOHandler ----------------------------
(* An instance of IOHandler for TLC. *)
EXTENDS IOHandler, TLC
CONSTANTS u1, u2, c1, c2

\* One uThread that opens, writes to and closes a connection again and again.
Client == [conn |-> u1 :> c1 @@ u2 :> c2, ops |-> u1 :> Op \ {"accept", "read"} @@ u2 :> {}, made |-> {}]

\* A listener and the reader of the connection it accepts.
Server == [conn |-> u1 :> c1 @@ u2 :> c2,
           ops |-> u1 :> {"accept"} @@ u2 :> {"read"}, made |-> {c1}]

\* One connection with a reader and a closer.
Closer == [conn |-> u1 :> c1 @@ u2 :> c1,
           ops |-> u1 :> {"read"} @@ u2 :> {"close"}, made |-> {c1}]

MCPrograms == {Client, Server, Closer}
=============================================================================
