----------------------------- MODULE MCNetworks -----------------------------
(* Networks with two switches that may disagree on the name of one VLAN, two *)
(* interfaces on one network, and one DHCP range.                            *)
EXTENDS Networks

CONSTANTS v1, n1, p1, a, b, i, j, x, y, s1, s2, m

OneModel == {m}
TwoHosts == {s1, s2}

Reports(h, name, model) == [host |-> h, names |-> [v \in Vid |-> name], model |-> model]
On(iface, vid) == [iface |-> iface, net |-> n1, vid |-> vid]
Serves(label) == [pool |-> p1, label |-> label]

Facts(switches, ifaces, pools) == [switches |-> switches, ifaces |-> ifaces, pools |-> pools]

\* Two switches of one name, of which one was not identified, beside two firewalls that
\* serve one range; a network with two interfaces; two switches that disagree.
SomeFacts == {
    Facts(<<Reports(s1, NoName, NoModel), Reports(s1, NoName, m)>>, <<On(i, v1)>>, <<Serves(x), Serves(y)>>),
    Facts(<<Reports(s1, a, m)>>, <<On(j, NoVid), On(i, v1)>>, <<Serves(x)>>),
    Facts(<<Reports(s1, b, NoModel), Reports(s2, a, m)>>, <<On(i, v1)>>, <<>>)}
=============================================================================
