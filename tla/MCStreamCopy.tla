---------------------------- MODULE MCStreamCopy ----------------------------
(***************************************************************************)
(* Scenarios that are small enough to be explored together: those of       *)
(* TCPConnection (recv_capacity, client's bytes, server's bytes, closing,  *)
(* under way, loss, repetition, faults, eager timeouts), the side of the   *)
(* socket, its loop, and whether it may be destructed early.               *)
(***************************************************************************)
EXTENDS StreamCopy

(* Standard input fills the window and the buffers, so that rule 2 is at   *)
(* times not interested; on the poll loop, which loses none of it, it      *)
(* fills the pipe as well.                                                 *)
Uploads == {SocketScenario(Scenario(1, 3, 0, Sides, 1, 0, 0, 0, FALSE), "client", "poll", FALSE),
            SocketScenario(Scenario(1, 2, 0, Sides, 1, 0, 0, 0, FALSE), "client", "epoll", FALSE)}

(* The other side writes a byte, and a segment is lost: on either loop. *)
Downloads == {SocketScenario(Scenario(1, 1, 0, Sides, 1, 1, 0, 0, FALSE), "server", "poll", FALSE),
              SocketScenario(Scenario(1, 0, 1, Sides, 1, 1, 0, 0, FALSE), "client", "epoll", FALSE)}

(* A reset, a broken standard output or an early destruction. *)
Failures == {SocketScenario(Scenario(1, 0, 1, {}, 1, 0, 0, 1, FALSE), "client", loop, TRUE) :
                loop \in {"poll", "epoll"}}

SocketScenarios == Uploads \cup Downloads \cup Failures
=============================================================================
