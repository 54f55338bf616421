----------------------------- MODULE MCMatching -----------------------------
(* A TLC instance of GlobLoop and Exposure: every pattern and text up to a  *)
(* length, and lists of up to four rules, at most one of them disabled,     *)
(* with or without the proxy that a rule and a chain want.                  *)
EXTENDS GlobLoop, Exposure

-----------------------------------------------------------------------------
(* The loop. *)

CONSTANTS MaxPattern, MaxText

ShortPatterns == BoundedSeq(Letters \cup {Star, Query}, MaxPattern)
ShortTexts    == BoundedSeq(Letters, MaxText)

(* The two ways to say what a glob matches agree. *)
ASSUME SameMeaning == \A g \in Patterns, s \in Texts : GlobMatches(g, s) <=> Matches(g, s)

-----------------------------------------------------------------------------
(* The profiles. *)

MCNumbers == {0, 1, 8}
MCSpelled == [n \in MCNumbers |-> CASE n = 0 -> <<"0">> [] n = 1 -> <<"1">> [] n = 8 -> <<"8">>]

Ip    == <<"8", ".", "0", ".", "0", ".", "1">>
Net8  == <<"8", ".", "0", ".", "0", ".", "0", "/", "8">>
Host  == <<"b", ".", "a">>
Zone  == <<Star, ".", "a">>
File  == <<"f">>
Path  == <<"c", "\\", "f">>
Other == <<"f", "g">>
Names == <<"f", Star>>

(* `2-2` is another label than `2`, though it reads the same. *)
Two    == <<"2">>
TwoTwo == <<"2", "-", "2">>
Down   == <<"3", "-", "1">>
MCSpan == (Two :> <<2, 2>>) @@ (TwoTwo :> <<2, 2>>) @@ (Down :> <<3, 1>>)

(* One rule has a token twice. *)
MCPortList == [
  deny |-> <<>>, allow |-> <<>>, star |-> <<>>, starfile |-> <<Two>>,
  ports |-> <<Two, Down, Two>>, zone |-> <<TwoTwo, Two>>, path |-> <<Down>>,
  names |-> <<>>, chained |-> <<>>]

Rule(action, ts, as, ps) ==
  [action |-> action, targets |-> ts, applications |-> as,
   ports |-> {MCSpan[l] : l \in ToSet(ps)}]
Via(kind) == [kind |-> kind, id |-> 1]

MCBody == [
  deny     |-> Rule(Block_, {}, {}, MCPortList.deny),
  allow    |-> Rule(Direct, {}, {}, MCPortList.allow),
  star     |-> Rule(Direct, {<<Star>>}, {}, MCPortList.star),
  starfile |-> Rule(Direct, {<<Star>>, Host}, {File}, MCPortList.starfile),
  ports    |-> Rule(Block_, {}, {}, MCPortList.ports),
  zone     |-> Rule(Direct, {Zone, Net8}, {}, MCPortList.zone),
  path     |-> Rule(Block_, {}, {Path}, MCPortList.path),
  names    |-> Rule(Via("proxy"), {Host}, {Names}, MCPortList.names),
  chained  |-> Rule(Via("chain"), {Ip}, {File}, MCPortList.chained)]

MCRules == DOMAIN MCBody

Distinct(s) == \A i, k \in DOMAIN s : i # k => s[i] # s[k]

MCProfiles ==
  {[rules |-> [i \in DOMAIN names |-> [rule |-> names[i], enabled |-> i # off]],
    proxies |-> pool, chains |-> <<[id |-> 1, members |-> <<1>>]>>] :
     names \in {s \in BoundedSeq(MCRules, 4) : Distinct(s)}, off \in 0 .. 4,
     pool \in {<<>>, <<[id |-> 1, type |-> "http"]>>}}

MCHosts    == {Ip, Host, <<"c">>}
MCPrograms == {File, Path, Other, <<"h">>}
MCHints    == {<<"h">>}

-----------------------------------------------------------------------------
(* The two share no state: the loop is run on every pattern and text, and   *)
(* after one of these runs every profile is analysed.                       *)

vars == <<loopVars, flowsVars>>

NoRules == [rules |-> <<>>, proxies |-> <<>>, chains |-> <<[id |-> 1, members |-> <<1>>]>>]

Init ==
  \/ profile = NoRules /\ FlowsInit /\ LoopInit
  \/ pattern = <<>> /\ text = <<>> /\ LoopInit /\ FlowsInit

RunLoop == LoopNext /\ UNCHANGED flowsVars
Analyse == phase = "done" /\ FlowsNext /\ UNCHANGED loopVars

Next == RunLoop \/ Analyse

Spec == Init /\ [][Next]_vars /\ WF_loopVars(RunLoop)
=============================================================================
