---------------------------- MODULE MCProfileXml ----------------------------
(* A TLC instance of ProfileXml: profiles that differ from a plain one in   *)
(* one part, with texts that hold &, <, separators, blanks and what looks   *)
(* like a reference, and files written by hand.                             *)
EXTENDS ProfileXml

MCNumerals == 0 .. 3

Plain == EmptyProfile
Amp   == <<"a", "&", "b">>
Looks == <<"&", "amp", ";">>
Less  == <<"&", "<", " ">>
Texts == {<<>>, Amp, Looks, Less, <<"&", ";", "&", "x26", ";">>}

Opts(o) == [Plain EXCEPT !.options = o]
Rule(a, ts, as, ps, n) ==
  [enabled |-> n # Looks, name |-> n, action |-> a, targets |-> ts, applications |-> as, ports |-> ps]
Act(kind) == [kind |-> kind, id |-> IF kind \in {"Proxy", "Chain"} THEN 2 ELSE 0]

Items == {<<"a">>, <<"a", ";", "b">>, <<" ", "a">>, <<" ">>, Amp, Looks}

ProxyOf(o, l, auth) ==
  [id |-> 2, proxy_type |-> <<"SOCKS5">>, address |-> Amp, port |-> 3,
   options |-> o, label |-> l, authentication |-> auth]

Full ==
  [version |-> 2, platform |-> Amp,
   options |-> [resolve |-> [flags |-> [f \in ResolveFlags |-> f = "ViaProxy"],
                             only_from_list_mode |-> TRUE, exclusion_list |-> <<"a", ";", "b">>,
                             dns_udp_mode |-> 2],
                encryption |-> {[mode |-> <<"basic">>, hash |-> {Looks}]},
                connection_loop_detection |-> [enabled |-> TRUE, resolve |-> FALSE],
                udp_mode |-> <<"mode_tunnel_all">>, flags |-> [f \in OptionFlags |-> TRUE]],
   proxies |-> <<ProxyOf({1}, {Less}, {[username |-> {Amp}, password |-> {<<>>}]}), ProxyOf({}, {}, {})>>,
   chains |-> <<[id |-> 1, name |-> {Amp}, members |-> <<2, 1>>]>>,
   rules |-> <<Rule(Act("Proxy"), <<Amp, <<"a">>>>, <<>>, <<<<"1">>>>, Looks),
               Rule(Act("Chain"), <<>>, <<<<"a">>>>, <<>>, <<>>), Rule(Act("Block"), <<>>, <<>>, <<>>, Less)>>]

With(rule) == [Plain EXCEPT !.rules = <<rule>>]
MCSaves ==
  {Plain, Full}
  \cup {With(Rule(Act("Direct"), ts, <<>>, <<>>, <<"n">>)) : ts \in BoundedSeq(Items, 2)}
  \cup {With(Rule(Act("Direct"), <<>>, <<>>, <<<<" ">>>>, n)) : n \in Texts}
  \cup {[Plain EXCEPT !.options.resolve.exclusion_list = t, !.options.udp_mode = t,
                      !.options.encryption = {[mode |-> t, hash |-> {t}]}] : t \in Texts}
  \cup {[Plain EXCEPT !.proxies = <<ProxyOf({}, l, auth)>>, !.options.encryption = {[mode |-> <<>>, hash |-> {}]}] :
          l \in {{}, {<<>>}}, auth \in {{}, {[username |-> {}, password |-> {Less}]}}}

Sections_ == <<Empty("ProxyList", NoAttrs), Empty("ChainList", NoAttrs)>>
RootOf(inner) == Element("ProxifierProfile", [version |-> <<"1">>], inner)
CData(t) == Event("cdata", "", NoAttrs, t)
Direct  == Empty("Action", [type |-> <<"Direct">>])
MCFiles ==
  {<<Text(<<"a">>), Empty("ProxifierProfile", NoAttrs)>>,
   RootOf(Sections_ \o <<Empty("Options", NoAttrs), Empty("RuleList", NoAttrs), Empty("Extra", NoAttrs)>>),
   RootOf(<<Text(<<" ">>)>> \o Element("RuleList", NoAttrs, Element("Rule", NoAttrs,
     <<Start("Action", [type |-> <<"Direct">>]), End("Action"), Empty("Targets", NoAttrs)>>
       \o Element("Name", NoAttrs, <<CData(Amp), Start("Extra", NoAttrs), Text(Looks), End("Extra")>>)
       \o TextElement("Targets", NoAttrs, <<" ", "a", ";", " ", ";", "b", "&", ";">>)))),
   RootOf(Element("ChainList", NoAttrs, Element("Chain", [id |-> <<"1">>],
     <<Start("Proxy", [id |-> <<"2">>]), End("Proxy"), Empty("Extra", NoAttrs)>>))),
   RootOf(Element("RuleList", NoAttrs, Element("Extra", NoAttrs, Element("Rule",
     [enabled |-> <<"0">>], <<Direct>>))))}
=============================================================================
