------------------------ MODULE MCProactiveScheduler ------------------------
(***************************************************************************)
(* Instances of the proactive scheduler.                                   *)
(***************************************************************************)
EXTENDS ProactiveScheduler

MCOneTarget == {1}

MCTwoTargets == 1 .. 2

MCOneRoute == <<"r1">>

MCOneSurface == <<"private_direct_message">>

MCOwnRoute == <<"r1", "r2">>

MCSurfaces == <<"private_direct_message", "public_channel">>

MCOutputs == {{}, {"not_sendable"}, {"sensitive"}}
=============================================================================
