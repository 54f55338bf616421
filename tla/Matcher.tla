------------------------------ MODULE Matcher ------------------------------
(***************************************************************************)
(* The matching engine of ppx-core (matcher.rs): which rule a connection   *)
(* meets first, and which rules the shadow detector says can never fire.   *)
(* Texts are sequences of characters, trimmed, in lower case and without   *)
(* quotes; parsing a dotted quad is the inverse of writing it, for the     *)
(* numbers in Numbers.  A list field of a rule is a set of entries.        *)
(***************************************************************************)
EXTENDS Globs

CONSTANTS
  Numbers,     \* the octets and prefix lengths that occur
  Spelled,     \* how each is written
  Rules,       \* the rules that occur, and
  Body,        \* the fields of each
  Hosts, Programs, Ports   \* what a connection may have; see Missing

NoText == <<>>
NoPort == 0
LastPort == 65535

IsText(s) == s \in Seq(ToSet(s))

ASSUME MatcherAssumption ==
  /\ Numbers \subseteq 0 .. 255 /\ 0 \in Numbers
  /\ DOMAIN Spelled = Numbers
  /\ DOMAIN Body = Rules
  /\ \A r \in Rules : Body[r].ports \subseteq Nat \X Nat
  /\ NoText \notin Hosts \cup Programs /\ Ports \subseteq 1 .. LastPort

(* A connection to simulate; an empty field is one not to be considered. *)
Candidates ==
  [host : Hosts \cup {NoText}, application : Programs \cup {NoText}, port : Ports \cup {NoPort}]

-----------------------------------------------------------------------------
(* Addresses.  A parse gives the set of what the text can be read as: one  *)
(* value, or none.                                                         *)

Quads == [1 .. 4 -> Numbers]

Dotted(ns) ==
  LET After(k) == IF k \in DOMAIN ns THEN <<".">> \o Spelled[ns[k]] ELSE <<>>
  IN Spelled[ns[1]] \o After(2) \o After(3) \o After(4)
QuadTexts  == {<<q, Dotted(q)>> : q \in Quads}
CidrTexts  == {<<<<w[1], n>>, w[2] \o <<"/">> \o Spelled[n]>> : w \in QuadTexts, n \in Numbers \cap 0 .. 32}

Read(texts, s) == {w[1] : w \in {v \in texts : v[2] = s}}
ParseIpv4(s)   == Read(QuadTexts, s)
ParseCidr(s)   == Read(CidrTexts, s)

(* `10.*` is 10.0.0.0/8, and so on; the dot before the `*` may be missing. *)
ParseWildcard(s) ==
  {<<[k \in 1 .. 4 |-> IF k <= Len(ns) THEN ns[k] ELSE 0], 8 * Len(ns)>> :
     ns \in {m \in BoundedSeq(Numbers, 3) :
               m # <<>> /\ s \in {Dotted(m) \o <<".", Star>>, Dotted(m) \o <<Star>>}}}

(* parse_ipv4_range *)
ParseRange(s) == ParseCidr(s) \cup ParseWildcard(s) \cup {<<q, 32>> : q \in ParseIpv4(s)}

(* Entries are not empty, and an entry reads one way; what is connected to *)
(* has a name or an address.                                               *)
ASSUME TextAssumption ==
  /\ \A n \in Numbers : IsText(Spelled[n])
  /\ \A h \in Hosts : IsText(h) /\ ~ IsGlob(h) /\ ParseCidr(h) = {}
  /\ \A a \in Programs : IsText(a)
  /\ \A r \in Rules :
       /\ \A e \in Body[r].targets \cup Body[r].applications : IsText(e) /\ e # NoText
       /\ \A e \in Body[r].targets :
            /\ ParseCidr(e) # {} => ~ IsGlob(e)
            /\ \A x, y \in ParseRange(e) : x = y

(* What a prefix of n bits leaves undecided of the k-th octet. *)
Block(k, n) ==
  2 ^ (IF n <= 8 * (k - 1) THEN 8 ELSE IF n >= 8 * k THEN 0 ELSE 8 * k - n)

(* ipv4_in_cidr *)
InCidr(ip, base, n) ==
  \A k \in 1 .. 4 : ip[k] \div Block(k, n) = base[k] \div Block(k, n)

-----------------------------------------------------------------------------
(* One entry of a list against a connection, and against another entry.    *)

(* target_entry_matches *)
TargetMatches(e, host) ==
  \/ e = host
  \/ \E net \in ParseCidr(e), ip \in ParseIpv4(host) : InCidr(ip, net[1], net[2])
  \/ IsGlob(e) /\ GlobMatches(e, host)

(* The glob half of target_entry_covers and application_entry_covers. *)
GlobEntryCovers(e, l) ==
  IsGlob(e) /\ IF IsGlob(l) THEN GlobCovers(e, l) ELSE GlobMatches(e, l)

(* target_entry_covers *)
TargetCovers(e, l) ==
  \/ e = l
  \/ \E re \in ParseRange(e), rl \in ParseRange(l) :
       rl[2] >= re[2] /\ InCidr(rl[1], re[1], re[2])
  \/ ParseRange(e) = {} /\ GlobEntryCovers(e, l)

Separators  == {"\\", "/"}
IsBare(s)   == ToSet(s) \cap Separators = {}
Basename(s) == SubSeq(s, SelectLastInSeq(s, LAMBDA c : c \in Separators) + 1, Len(s))

(* application_entry_matches *)
ApplicationMatches(e, app) ==
  \/ IsGlob(e) /\ GlobMatches(e, app)
  \/ ~ IsGlob(e) /\ e # NoText /\ e = (IF IsBare(e) THEN Basename(app) ELSE app)

(* application_entry_covers *)
ApplicationCovers(e, l) ==
  \/ e = l
  \/ GlobEntryCovers(e, l)
  \/ ~ IsGlob(e) /\ IsBare(e) /\ ~ IsGlob(l) /\ e = Basename(l)

(* A port entry is a pair of numbers as typed, in either order. *)
Low(e)  == IF e[1] <= e[2] THEN e[1] ELSE e[2]
High(e) == IF e[1] <= e[2] THEN e[2] ELSE e[1]
PortMatches(e, port) == Low(e) <= port /\ port <= High(e)
PortCovers(e, l) == Low(e) <= Low(l) /\ High(e) >= High(l)

-----------------------------------------------------------------------------
(* Rules. *)

(* match_target_list and its two siblings: an empty list matches anything, *)
(* any other needs a value.                                                *)
ListMatches(es, given, matches) ==
  es = {} \/ (given /\ \E e \in es : matches[e])

(* Mutated form: a later list without entries is covered by any. *)
ListCoversNoEntries(es, ls, covers) ==
  es = {} \/ \A l \in ls : \E e \in es : covers[e][l]

(* list_covers; whether the lists are identical is told apart for display. *)
ListCovers(es, ls, covers) ==
  es = {} \/ (ls # {} /\ \A l \in ls : \E e \in es : covers[e][l])

(* evaluate_rule, with the rule's body *)
RuleMatches(r, c) ==
  /\ ListMatches(r.targets, c.host # NoText, [e \in r.targets |-> TargetMatches(e, c.host)])
  /\ ListMatches(r.applications, c.application # NoText,
                 [e \in r.applications |-> ApplicationMatches(e, c.application)])
  /\ ListMatches(r.ports, c.port # NoPort, [e \in r.ports |-> PortMatches(e, c.port)])

(* rule_covers *)
RuleCovers(a, b) ==
  /\ ListCovers(a.targets, b.targets,
                [e \in a.targets |-> [l \in b.targets |-> TargetCovers(e, l)]])
  /\ ListCovers(a.applications, b.applications,
                [e \in a.applications |-> [l \in b.applications |-> ApplicationCovers(e, l)]])
  /\ ListCovers(a.ports, b.ports,
                [e \in a.ports |-> [l \in b.ports |-> PortCovers(e, l)]])

(* The two as relations, in a form that TLC evaluates once. *)
Catches == {pair : pair \in {rc \in Rules \X Candidates : RuleMatches(Body[rc[1]], rc[2])}}
Covered == {pair : pair \in {el \in Rules \X Rules : RuleCovers(Body[el[1]], Body[el[2]])}}

-----------------------------------------------------------------------------
(* Rule lists: sequences of [rule, enabled]. *)

(* How many of the indices in I come no later than i. *)
Rank(I, i) == Cardinality({j \in I : j <= i})

(* The indices of simulate's winners: the first enabled rule that matches, *)
(* if there is one.                                                        *)
Winner(list, c) ==
  {i \in DOMAIN list :
     /\ list[i].enabled /\ <<list[i].rule, c>> \in Catches
     /\ \A k \in 1 .. (i - 1) : ~ (list[k].enabled /\ <<list[k].rule, c>> \in Catches)}

Outcome(list, c) == {Body[list[i].rule].action : i \in Winner(list, c)}

(* Mutated form: a disabled rule shadows, too. *)
OvershadowPairsOfAll(list) ==
  {pair \in [shadowed : DOMAIN list, shadower : DOMAIN list] :
     LET Shadows(i) == i < pair.shadowed
                       /\ <<list[i].rule, list[pair.shadowed].rule>> \in Covered
     IN /\ list[pair.shadowed].enabled
        /\ Shadows(pair.shadower)
        /\ \A i \in 1 .. (pair.shadower - 1) : ~ Shadows(i)}

(* overshadow_pairs: each enabled rule with the first enabled one before it *)
(* that covers it.                                                          *)
OvershadowPairs(list) ==
  {pair \in [shadowed : DOMAIN list, shadower : DOMAIN list] :
     LET Shadows(i) == i < pair.shadowed /\ list[i].enabled
                       /\ <<list[i].rule, list[pair.shadowed].rule>> \in Covered
     IN /\ list[pair.shadowed].enabled
        /\ Shadows(pair.shadower)
        /\ \A i \in 1 .. (pair.shadower - 1) : ~ Shadows(i)}

Shadowed(pairs) == {pair.shadowed : pair \in pairs}
=============================================================================
