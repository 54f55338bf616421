---------------------------- MODULE MCRuleViews ----------------------------
(* TLC instances of RuleViews: a small vocabulary of rules. *)
EXTENDS RuleViews

MCNumbers == {0, 1, 8, 10, 31}
MCSpelled ==
  [n \in MCNumbers |->
     CASE n = 10 -> <<"1", "0">> [] n = 31 -> <<"3", "1">> [] n = 0 -> <<"0">>
       [] n = 1 -> <<"1">> [] n = 8 -> <<"8">>]

Ip == <<"1", "0", ".", "0", ".", "0", ".", "1">>     \* 10.0.0.1
OtherIp == <<"1", ".", "8", ".", "0", ".", "0">>     \* 1.8.0.0
FarIp == <<"1", "0", ".", "8", ".", "0", ".", "1">>  \* 10.8.0.1, in Net8 only
Net8  == <<"1", "0", ".", "0", ".", "0", ".", "0", "/", "8">>
Net31 == <<"1", "0", ".", "0", ".", "0", ".", "0", "/", "3", "1">>
Ten   == <<"1", "0", ".", Star>>                     \* 10.*
TenName == <<"1", "0", ".", "a">>                    \* a name, but 10.* matches it
Host  == <<"c", ".", "b", ".", "a">>
Zone  == <<Star, ".", "b", ".", "a">>
Tld   == <<Star, ".", "a">>
File  == <<"f">>
Path  == <<"c", "\\", "f">>
AnyPath == <<"c", "\\", Star>>
Names   == <<"f", Star>>                             \* as firefox*

Direct(ts, as, ps) == [action |-> "direct", targets |-> ts, applications |-> as, ports |-> ps]
Deny(ts, as, ps) == [Direct(ts, as, ps) EXCEPT !.action = "block"]

MCBody == [
  net8     |-> Direct({Net8}, {}, {}),
  ten      |-> Deny({Ten}, {}, {}),
  net31    |-> Deny({Net31}, {}, {}),
  tld      |-> Direct({Tld, OtherIp}, {}, {}),
  zone     |-> Deny({Zone}, {File}, {}),
  host     |-> Direct({Host}, {}, {}),
  file     |-> Direct({}, {File}, {<<1, 3>>}),
  path     |-> Deny({}, {Path}, {<<1, 2>>}),
  anypath  |-> Direct({}, {AnyPath, Names}, {<<3, 1>>})]

Enabled(rs) == [i \in DOMAIN rs |-> [rule |-> rs[i], enabled |-> TRUE]]

MCRuleLists == {
  Enabled(<<"net31", "net8", "ten">>),
  Enabled(<<"tld", "zone", "host">>),
  Enabled(<<"anypath", "path", "file">>)}

MCHosts    == {Ip, OtherIp, FarIp, Host, <<"b", ".", "a">>, TenName}
MCPrograms == {File, Path}
=============================================================================
