------------------------------ MODULE MCDynDns ------------------------------
(* Small instances of DynDns for TLC.                                      *)
EXTENDS DynDns

CONSTANTS home, office, k1, k2, a1, a2, six, r1, r2

(* a2 is written with more characters than a1.                             *)
MCWidth == [a \in Addresses |-> IF a = a2 THEN 2 ELSE 1]

Circumstances(hosts, from, oneByOne, apart, fail) ==
  [hosts |-> hosts, from |-> from, oneByOne |-> oneByOne, apart |-> apart,
   fail |-> fail]

(* Two hosts with requests one after the other; a client that repeats its  *)
(* request before the first one is answered; a client that comes over IPv6 *)
(* now and then, and a named that cannot always be reached.                *)
MCEnvs ==
  {Circumstances({home, office}, {a1, a2}, TRUE, TRUE, FALSE),
   Circumstances({home}, {a1}, FALSE, TRUE, FALSE),
   Circumstances({home}, {a1, six}, TRUE, TRUE, TRUE)}

(* A client that moves on before its last request is answered.             *)
Moving == {Circumstances({home}, {a1, a2}, FALSE, TRUE, FALSE)}
=============================================================================
