-------------------------- MODULE MCBackendCatalog --------------------------
(***************************************************************************)
(* Instances of BackendCatalog and BackendSession for TLC.                 *)
(***************************************************************************)
EXTENDS BackendSession, TLC

KeyLine == [found |-> {"key"}, pieces |-> <<"key", "K1">>]
OtherKey == [found |-> {"key"}, pieces |-> <<"key", "K2">>]
BlankKey == [found |-> {"key"}, pieces |-> <<"key", "">>]
UrlLine == [found |-> {"url"}, pieces |-> <<"url", "https", "//q">>]
PortLine == [found |-> {"url"}, pieces |-> <<"url", "https", "//q", "443">>]
HubLine == [found |-> {"hub"}, pieces |-> <<"hub", "H">>]
NamedHub == [found |-> {"hub", "key"}, pieces |-> <<"hub", "turnkey">>]
Remark == [found |-> {}, pieces |-> <<"remark">>]
KeyRemark == [found |-> {"key"}, pieces |-> <<"remark on the key">>]

MCLines == {KeyLine, OtherKey, BlankKey, UrlLine, PortLine, HubLine, NamedHub, Remark, KeyRemark}
PlainLines == {KeyLine, OtherKey, UrlLine, HubLine}
MCTexts == {"", "key", "K1", "K2", "K3", "url", "https", "//q", "//other", "443", "hub",
            "H", "turnkey", "remark", "remark on the key"}

Options(key, url) ==
    [setting \in Settings |-> CASE setting = "key" -> key
                                [] setting = "url" -> url
                                [] OTHER -> Unset]
OptionSets == {Options(Unset, "//other"), Options("K3", Unset), Options("K3", "//other")}

(* An environment: what the search may find *)
Files == UNION {[1..n -> Lines] : n \in 0..3}
Environments ==
    {[home |-> h, config |-> c, options |-> o] :
        h \in {NoHome, Unset}, c \in {Unset, <<>>, <<OtherKey, UrlLine>>}, o \in OptionSets}
    \cup {[home |-> h, config |-> <<OtherKey>>, options |-> Options("K3", "//other")] : h \in Files}

(* The device's and the simulator's entries, in either order, with members that *)
(* are not there, and a second entry that differs.                              *)
Gates == <<[qubits |-> <<0, 1>>, error |-> "r3"], [qubits |-> <<2, 1>>, error |-> "r4"]>>
Simulator(qubits) ==
    [name |-> "sim", on |-> TRUE, simulator |-> TRUE, nQubits |-> qubits,
     couplingMap |-> <<<<0, 1>>>>, calibratedQubits |-> <<"r1">>,
     multiQubitGates |-> <<>>, parameters |-> <<"r5">>]
Chip(on, qubits, couplers, rates, gates) ==
    [name |-> "dev", on |-> on, simulator |-> FALSE, nQubits |-> qubits,
     couplingMap |-> couplers, calibratedQubits |-> rates,
     multiQubitGates |-> gates, parameters |-> rates]
Couplers == <<<<0, 1>>, <<2, 1>>>>
Chips == {Chip(on, qubits, couplers, rates, Gates) :
            on \in BOOLEAN, qubits \in {Absent, 3}, couplers \in {Absent, Couplers},
            rates \in {Absent, <<"r1", "r2", "r1">>}}

Listings ==
    {<<Simulator(3), chip>> : chip \in Chips}
    \cup {<<Chip(TRUE, 3, Couplers, <<"r1">>, Absent), Simulator(Absent)>>,
          <<Chip(FALSE, 3, Couplers, <<"r2">>, Gates), Simulator(2),
            Chip(TRUE, 2, Absent, <<"r1">>, Gates)>>}

(* Every environment with one list, every list with two environments *)
Networked == [home |-> <<KeyLine, HubLine>>, config |-> Unset, options |-> Options(Unset, Unset)]
Public == [home |-> Unset, config |-> Unset, options |-> Options("K3", Unset)]

MCInit ==
    /\ \E environment \in Environments \cup {Networked, Public} :
        /\ home = environment.home /\ config = environment.config
        /\ options = environment.options
        /\ listing \in IF environment \in {Networked, Public} THEN Listings
                       ELSE {<<Simulator(3), Chip(TRUE, 3, Couplers, <<"r1">>, Gates)>>}
    /\ SessionInit

MCSpec == MCInit /\ [][Next]_setupVars

=============================================================================
