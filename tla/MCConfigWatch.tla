--------------------------- MODULE MCConfigWatch ---------------------------
(***************************************************************************)
(* Model values for ConfigWatch: one server with two instances, one with   *)
(* one, and two streams, so that a reconnecting instance races with its own *)
(* old stream or with the other instance of its server, and the servers    *)
(* must be told apart.                                                     *)
(***************************************************************************)
EXTENDS ConfigWatch, TLC

CONSTANTS s1, s2, t1, t2, t3

Owners == (t1 :> s1) @@ (t2 :> s1) @@ (t3 :> s2)
=============================================================================
