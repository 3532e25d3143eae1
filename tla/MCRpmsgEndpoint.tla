---------------------------- MODULE MCRpmsgEndpoint ----------------------------
(***************************************************************************)
(* RpmsgEndpoint for TLC. PairEpts: a service with an endpoint on each     *)
(* core, and two endpoints of the master without a name that compete for   *)
(* one fixed address. ReuseEpts: the service and a second one of the       *)
(* master, with one dynamic address for both.                              *)
(***************************************************************************)
EXTENDS RpmsgEndpoint, TLC

CONSTANTS m1, m2, m3, s1, svc, other

PairEpts == {m1, m2, m3, s1}
PairHome == s1 :> "slave" @@ [e \in {m1, m2, m3} |-> "master"]
PairName == [e \in {m1, s1} |-> svc] @@ [e \in {m2, m3} |-> NoName]
PairSrcs == [e \in {m1, s1} |-> {ADDR_ANY}]
            @@ [e \in {m2, m3} |-> {Reserved + 1, Reserved + BmpSize}]

\* What the theorems about the name service assume.
ASSUME PairApart == Epts = PairEpts => ServicesApart

\* The two are interchangeable.
Unnamed == Permutations({m2, m3})

ReuseEpts == {m1, m2, s1}
ReuseHome == s1 :> "slave" @@ [e \in {m1, m2} |-> "master"]
ReuseName == m2 :> other @@ [e \in {m1, s1} |-> svc]
ReuseSrcs == [e \in ReuseEpts |-> {ADDR_ANY}]
================================================================================
