----------------------------- MODULE MCLogTable -----------------------------
(* A TLC instance of LogTable: a line of every shape the parser knows, alone *)
(* or after a line that nobody parses, and logs of up to five connections.   *)
EXTENDS LogTable

MCNumbers == {0, 1, 8}
MCSpelled == [n \in MCNumbers |-> CASE n = 0 -> <<"0">> [] n = 1 -> <<"1">> [] n = 8 -> <<"8">>]
MCBody    == <<>>
MCNumeral == [n \in {1, 2, 3} |-> ToString(n)]

Ip   == <<"8", ".", "0", ".", "0", ".", "1">>
V6   == <<"f", "e", ":", ":", "1">>
H1   == <<"x", ".", "b", ".", "a">>
H2   == <<"y", ".", "b", ".", "a">>
Deep1 == <<"u", ".", "x", ".", "b", ".", "a">>
Deep2 == <<"v", ".", "x", ".", "b", ".", "a">>
Co1  == <<"x", ".", "co", ".", "a">>
Co2  == <<"y", ".", "co", ".", "a">>
MCHosts    == {H1, H2, Deep1, Deep2, Co1, Co2, <<"b", ".", "a">>}
MCPrograms == {}
MCRegistry == {<<"co">>}

Program(name) == [name |-> name, pid |-> {3}, parent |-> {}]
App     == Program(<<"f">>)
Tool    == Program(<<"g", " ", "(", ")">>)
Spawned == [Tool EXCEPT !.parent = {<<"System">>}]
To(host, ip) == [host |-> host, ip |-> ip, port |-> 1, ipv6 |-> FALSE, proto |-> "TCP"]
Six(host, proto) == [To(host, {V6}) EXCEPT !.ipv6 = TRUE, !.proto = proto]

Match(ts, process, target, action) ==
  [kind |-> "connection", ts |-> ts, process |-> process, target |-> target,
   rule |-> <<"r", " rule">>, action |-> action]
Name(kind, process, qtype, answer) ==
  [kind |-> kind, ts |-> 2, process |-> process, server |-> {Ip \o <<":", "2">>},
   qname |-> H1, qtype |-> qtype, answer_ip |-> answer]
Line(ts, rest) == [kind |-> "other", ts |-> ts, rest |-> rest]

Entries ==
  {Match(1, App, t, "Block") :
     t \in {To({H1}, {Ip}), To({H1}, {}), To({}, {Ip}), To({H1}, {Unresolved}),
            [To({}, {Ip}) EXCEPT !.proto = "ICMP"], [To({H1}, {}) EXCEPT !.proto = "UDP"]}}
  \cup {Match(2, Spawned, t, "Direct") : t \in {Six({}, "TCP"), Six({H1}, "UDP"), To({<<"h">>}, {Ip})}}
  \cup {Match(3, App, To({H2}, {Ip}), action) : action \in {"Direct", "Proxy", "Other"}}
  \cup {Name(kind, Tool, qtype, {}) : kind \in {"Request", "EmptyResponse", "Resolve"}, qtype \in {{}, {2}}}
  \cup {Name("Response", App, {}, {Ip}), Name("Response", App, {1}, {})}
  \cup {Line(0, <<>>), Line(1, <<"f">>), Line(1, <<"f", " - ", "x">>)}

Unheard == Line(0, <<"f", " - ", "x">>)

(* Connections to some of these destinations, one or two to the first.     *)
Dests == <<To({H1}, {}), To({H2}, {Ip}), To({Deep1}, {}), To({Deep2}, {}), To({Co1}, {}), To({Co2}, {}),
           To({}, {Ip}), To({H1}, {Unresolved})>>
Visits(n) ==
  {[i \in DOMAIN s |-> Match(1 + (i \div 2), App, Dests[s[i]], "Direct")] :
     s \in {q \in BoundedSeq(DOMAIN Dests, n) :
             \A i, k \in DOMAIN q : i < k => q[i] < q[k] \/ (i = 1 /\ k = 2 /\ q[1] = q[2])}}

Paged == {[i \in 1 .. 5 |-> Match(times[i], App, Dests[(i % 3) + 1], IF i = 2 THEN "Block" ELSE "Proxy")] :
            times \in {<<1, 1, 1, 1, 1>>, <<3, 1, 2, 2, 3>>, <<1, 2, 3, 3, 3>>}}
MCOpens == {<<>>, CHOOSE p \in Paged : TRUE}
MCLogs ==
  {<<e>> : e \in Entries} \cup {<<Unheard, e>> : e \in Entries} \cup Visits(4) \cup Paged \cup MCOpens

ASSUME LegibleLogs == LogsLegible
ASSUME PlainLogs == DestinationsPlain

MCFilters ==
  {AnyFilter,
   [AnyFilter EXCEPT !.actions = {"Proxy", "Block"}, !.host_contains = <<"b">>, !.ts_from = {1}, !.ts_to = {3}]}
MCOptions == {[min_hosts |-> h, min_events |-> e, include_ips |-> i] :
                h \in {1, 2, 3}, e \in {1, 2}, i \in BOOLEAN}
=============================================================================
