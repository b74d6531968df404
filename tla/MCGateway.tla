----------------------------- MODULE MCGateway -----------------------------
(* Gateway for TLC: one header of every kind the classifier tells apart;   *)
(* lists of symbols that are unset, empty, regular, and with an empty      *)
(* field; ports without a physical one, and with two.                      *)
EXTENDS Gateway
CONSTANTS b1, b2, b3, b4, s1, s2
MCMbufs == {b1, b2, b3, b4}
Header(e, pr, s, d) == [ether |-> e, proto |-> pr, sport |-> s, dport |-> d]
MCPackets == {Header("arp", "none", 0, 0), Header("ipv4", "udp", 443, 8443),
              Header("ipv4", "tcp", 80, 5000), Header("ipv4", "tcp", 8443, 5000),
              Header("ipv4", "tcp", 5000, 443)}
MCDefaults == [c \in Conns |-> {s1}]
Unset == [set |-> FALSE, fields |-> <<>>]
List(f) == [set |-> TRUE, fields |-> f]
Env(r, o, b) == [required |-> r, lists |-> [c \in Conns |-> IF c = "okx" THEN o ELSE b]]
MCEnvironments == {Env(FALSE, Unset, Unset), Env(TRUE, List(<<s1, s2>>), Unset),
                   Env(TRUE, List(<<Empty, s2>>), List(<<Empty>>))}
MCDeviceLists == {<<"virt">>, <<"phy", "virt", "phy">>}
=============================================================================
