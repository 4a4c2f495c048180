------------------------------ MODULE MCBridge ------------------------------
(***************************************************************************)
(* Instances of Bridge for TLC.                                            *)
(***************************************************************************)
EXTENDS Bridge

\* Both transports with a friend, and one of each with a peer to turn away.
MCLinks == {<<"tcp", "friend">>, <<"quic", "friend">>,
            <<"tcp", "stranger">>, <<"quic", "twin">>}

=============================================================================
