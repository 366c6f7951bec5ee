--------------------------- MODULE MCDeviceClient ---------------------------
(* A small instance of DeviceClient for TLC. *)
EXTENDS DeviceClient, TLC

\* Less than a millisecond, too large for an int, and less than 0; of a type that only
\* Set knows, and of a wrong one.
MCInputs == {<<"float64", 4>>, <<"float64", 600000000>>, <<"int", -10000>>,
             <<"int64", 30000>>, <<"string", 0>>}

UserSymmetry == Permutations(Users)
=============================================================================
