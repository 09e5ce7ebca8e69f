------------------------------- MODULE MCEgvpn -------------------------------
(***************************************************************************)
(* One host, two directories, two terminals, two names of servers.         *)
(***************************************************************************)
EXTENDS Egvpn, TLC

CONSTANTS n1, n2

Opts(service, telemetry, pagesAsked) ==
    [at |-> Absent, service |-> service, telemetry |-> telemetry, name |-> Absent,
     conf |-> "none", pages |-> pagesAsked]

SomeStarts == {Opts("all", TRUE, 2), Opts("server", TRUE, 1)}
SomeRestarts ==
    {[at |-> Absent, service |-> "all", name |-> Absent, pages |-> Kept]}
SomeInits == {[name |-> n1, vpp |-> TRUE, only |-> "all"],
              [name |-> n2, vpp |-> TRUE, only |-> "all"],
              [name |-> n1, vpp |-> FALSE, only |-> "config"]}

Symmetry == Permutations(Terminal) \cup Permutations(Dir)
==============================================================================
