--------------------------- MODULE MCTurnProtocol ---------------------------
(* Instances of TurnProtocol for TLC: the turn takes no queued inputs. *)
EXTENDS TurnProtocol

NoTargets == {}
=============================================================================
