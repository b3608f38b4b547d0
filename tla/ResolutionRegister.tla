------------------------- MODULE ResolutionRegister -------------------------
(***************************************************************************)
(* What setDeviceResolution promises: the device has one resolution that   *)
(* takes effect at the next boot.  A request sets it in one step, to the   *)
(* resolution it names or to <<>> when it switches the override off; it    *)
(* does so at most once, and not any more once it was given up.            *)
(***************************************************************************)
CONSTANTS
    Clients,
    Choices,  \* the resolutions a request may name, <<>> included
    Initial   \* the resolution in effect at the start

VARIABLES
    effective,
    pending   \* pending[t]: the set of choices of t's request not yet made

regVars == <<effective, pending>>

RegInit ==
    /\ effective = Initial
    /\ pending = [t \in Clients |-> {}]

Request(t, c) ==
    /\ pending[t] = {}
    /\ pending' = [pending EXCEPT ![t] = {c}]
    /\ UNCHANGED effective

Set(t, c) ==
    /\ c \in pending[t]
    /\ effective' = c
    /\ pending' = [pending EXCEPT ![t] = {}]

GiveUp(T) ==
    /\ pending' = [t \in Clients |-> IF t \in T THEN {} ELSE pending[t]]
    /\ UNCHANGED effective

RegNext ==
    \/ \E t \in Clients, c \in Choices : Request(t, c) \/ Set(t, c)
    \/ \E T \in SUBSET Clients : GiveUp(T)

RegSpec == RegInit /\ [][RegNext]_regVars
=============================================================================
