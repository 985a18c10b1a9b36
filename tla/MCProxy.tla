------------------------------- MODULE MCProxy -------------------------------
(* Small instances of Proxy.tla for TLC.                                   *)
EXTENDS Proxy

CONSTANTS c1, c2, c3

MCThree == {c1, c2, c3}
MCTwo == {c1, c2}
MCBig == {<<"request", c3>>, <<"response", c1>>}

=============================================================================
