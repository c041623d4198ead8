--------------------------- MODULE MCTCPConnection --------------------------
(***************************************************************************)
(* Scenarios that are small enough to be explored together.  The fields    *)
(* are: recv_capacity, client's bytes, server's bytes, closing, under way, *)
(* loss, repetition, faults, eager timeouts.                               *)
(***************************************************************************)
EXTENDS TCPConnection

(* Repeated and reordered segments of one stream: with a window of one and *)
(* timeouts at any moment, and with a window of two and loss.              *)
Transfers == {Scenario(1, 2, 0, {"client"}, 2, 0, 1, 0, TRUE),
              Scenario(2, 2, 0, {"client"}, 2, 1, 1, 0, FALSE)}

(* Both sides end their streams, in any order, with timeouts at any        *)
(* moment; and again with data, a window of one, loss and repetition.      *)
Closes == {Scenario(1, 0, 0, Sides, 2, 0, 1, 0, TRUE),
           Scenario(1, 1, 0, Sides, 2, 1, 1, 0, FALSE)}

(* Both directions carry data, and segments are lost. *)
Duplex == Scenario(2, 1, 2, {"server"}, 2, 1, 0, 0, FALSE)

(* An application fails or a reset comes out of the blue, at any moment,   *)
(* with timeouts at any moment, with data in both directions, or after a   *)
(* loss, that of the SYN in the listening adapter, say.                    *)
Failures == {Scenario(1, 1, 0, {}, 2, 0, 0, 1, TRUE),
             Scenario(1, 1, 1, {}, 2, 0, 0, 1, FALSE),
             Scenario(1, 0, 0, {"client"}, 2, 1, 0, 1, FALSE)}

SafetyScenarios == {Duplex} \cup Transfers \cup Closes \cup Failures
=============================================================================
