------------------------------ MODULE MCBroker ------------------------------
(***************************************************************************)
(* Instances of Broker for TLC. Each .cfg gives the broker the parts its   *)
(* question is about (pins to pulse, a flood, boot stages, an asynchronous *)
(* link) and leaves the others empty. What every instance needs for the    *)
(* interesting cases to happen is assumed here.                            *)
(***************************************************************************)
EXTENDS Broker

\* Somebody may ask for something.
ASSUME SomeoneMayAsk == Actors \ Observers # {}

\* The backoff of an asynchronous link doubles freely once and is then cut.
ASSUME BackoffReachesItsCap == Async => 2 * Base < MaxDelay /\ MaxDelay < 4 * Base

=============================================================================
