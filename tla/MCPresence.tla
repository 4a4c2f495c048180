----------------------------- MODULE MCPresence -----------------------------
(***************************************************************************)
(* Instances of Presence for TLC.                                          *)
(***************************************************************************)
EXTENDS Presence

\* Room for everyone; a full table and a process that cannot publish; a caller
\* that iterates.
MCSettings == {<<2, {"a", "b"}, {}>>, <<1, {"a"}, {}>>, <<2, {"b"}, {"a"}>>}

=============================================================================
