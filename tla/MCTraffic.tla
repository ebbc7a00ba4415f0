------------------------------ MODULE MCTraffic ------------------------------
(* Two connections on one port, two pids; see Traffic.cfg. *)
EXTENDS Traffic

CONSTANTS c1, c2, port, p1, p2, a, b

MCPortOf == [c \in {c1, c2} |-> port]
One == [p \in {p1, p2} |-> IF p = p1 THEN a ELSE NoExe]
Two == [p \in {p1, p2} |-> IF p = p1 THEN a ELSE b]

(* A process that ends and a pid used again: by a process that opens       *)
(* sockets, or with more traffic of the process before.                    *)
Reuse == [proc |-> One, sock |-> [c \in {c1, c2} |-> IF c = c1 THEN p1 ELSE NoPid],
          starts |-> {<<p1, b>>}, packets |-> 1, idle |-> 0, ops |-> {"end", "connect"}]
Late == [Reuse EXCEPT !.packets = 3, !.ops = {"end"}]

(* Two processes that share a port. *)
Share == [proc |-> Two, sock |-> [c \in {c1, c2} |-> IF c = c1 THEN p1 ELSE NoPid],
          starts |-> {}, packets |-> 2, idle |-> 0, ops |-> {"connect"}]

(* The limits of the packet store: a window of time, a ring per            *)
(* connection, a number of connections.                                    *)
Store == [proc |-> One, sock |-> [c \in {c1, c2} |-> p1],
          starts |-> {}, packets |-> 3, idle |-> 1, ops |-> {"purge"}]

(* Sockets that close while their process goes on, and is idle then. *)
Quiet == [proc |-> One, sock |-> [c \in {c1, c2} |-> p1],
          starts |-> {}, packets |-> 1, idle |-> 1, ops |-> {"close"}]

(* A process that cannot be read, of the two that share a port. *)
Protected == [Share EXCEPT !.ops = {"deny", "end"},
                           !.sock = [c \in {c1, c2} |-> IF c = c1 THEN p1 ELSE p2]]

(* The log, flushed by the monitor and read, flushed and cleared by the    *)
(* statistics window.                                                      *)
Log == [proc |-> One, sock |-> [c \in {c1, c2} |-> IF c = c1 THEN p1 ELSE NoPid],
        starts |-> {}, packets |-> 3, idle |-> 0, ops |-> {"flush"}]

MCScenes == {Reuse, Late, Share, Store, Quiet, Protected, Log}
=============================================================================
