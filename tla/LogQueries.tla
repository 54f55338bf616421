----------------------------- MODULE LogQueries -----------------------------
(***************************************************************************)
(* What the log module asks of the table of connections: the pages and the *)
(* panels of query.rs, and suggest.rs, which reads a Targets list for a    *)
(* rule back out of the traffic of a process.  A table is a set of rows,   *)
(* EventRows of the lines of a log.                                        *)
(***************************************************************************)
EXTENDS LogLines

CONSTANTS
  Registry,    \* REGISTRY_LABELS: the `co` of `co.uk`
  BucketSecs   \* the width of a bar of the timeline

Count(s) == Cardinality(s)
SumOf(f) == FoldFunction(+, 0, f)

-----------------------------------------------------------------------------
(* Filters.  An empty set of a filter means no condition on that column.   *)

AnyFilter ==
  [ts_from |-> {}, ts_to |-> {}, processes |-> {}, matched_rules |-> {}, actions |-> {},
   protos |-> {}, ipv6 |-> {}, host_contains |-> NoText]

(* LIKE '%needle%', where `_` stands for any character. *)
Like(text, needle) ==
  \E k \in 0 .. Len(text) - Len(needle) :
    \A i \in DOMAIN needle : needle[i] \in {"_", text[k + i]}

OneOf(value, given) == given = {} \/ value \in given

(* where_clause *)
Where(f, row) ==
  /\ \A from \in f.ts_from : row.ts >= from
  /\ \A to \in f.ts_to : row.ts <= to
  /\ OneOf(row.process.name, f.processes)
  /\ OneOf(row.rule, f.matched_rules)
  /\ OneOf(row.action, f.actions)
  /\ OneOf(row.target.proto, f.protos)
  /\ OneOf(row.target.ipv6, f.ipv6)
  /\ f.host_contains # NoText =>
       \E text \in row.target.host \cup row.target.ip : Like(text, f.host_contains)

Matching(table, f) == {row \in table : Where(f, row)}

(* ORDER BY ts DESC, id DESC *)
Precedes(a, b) == a.ts > b.ts \/ (a.ts = b.ts /\ a.id > b.id)

(* The rows in that order: each at the place that says how many come no   *)
(* later.                                                                  *)
Place(rows, row) == Count({r \in rows : r = row \/ Precedes(r, row)})
Listing(rows) == [k \in 1 .. Count(rows) |-> CHOOSE row \in rows : Place(rows, row) = k]

(* query_events *)
QueryEvents(table, f, limit, offset) ==
  LET all == Listing(Matching(table, f)) IN SubSeq(all, offset + 1, Min({offset + limit, Len(all)}))

-----------------------------------------------------------------------------
(* The panels. *)

(* GROUP BY column, with COUNT( * ) *)
GroupBy(rows, column) ==
  [v \in {column[r] : r \in rows} |-> Count({r \in rows : column[r] = v})]

HostOf(row) ==
  IF row.target.host # {} THEN row.target.host ELSE row.target.ip
Actions == {"Direct", "Proxy", "Block"}

(* timeline_on: bars of BucketSecs seconds, each split by action. *)
Timeline(rows) ==
  LET bars == {r.ts \div BucketSecs : r \in rows}
      In(bar, action) == Count({r \in rows : /\ r.ts \div BucketSecs = bar
                                             /\ IF action = "Other" THEN r.action \notin Actions
                                                ELSE r.action = action})
  IN [bar \in bars |-> [action \in Actions \cup {"Other"} |-> In(bar, action)]]

(* dashboard: every panel, over one snapshot. *)
Dashboard(table, f) ==
  LET rows == Matching(table, f)
  IN [total_matching |-> Count(rows),
      processes |-> GroupBy(rows, [r \in rows |-> r.process.name]),
      hosts     |-> GroupBy(rows, [r \in rows |-> HostOf(r)]),
      rules     |-> GroupBy(rows, [r \in rows |-> r.rule]),
      timeline  |-> Timeline(rows)]

-----------------------------------------------------------------------------
(* suggest.rs *)

Unresolved == [k \in 1 .. 7 |-> IF k % 2 = 1 THEN "0" ELSE "."]   \* 0.0.0.0

(* What a row counts for: its host or, without one, its address. *)
Destination(row) ==
  IF row.target.host # {} THEN row.target.host ELSE row.target.ip \ {NoText, Unresolved}

(* The domains above a host, dots at its end dropped, that have two labels *)
(* or more.                                                                *)
Dots(s)  == {k \in DOMAIN s : s[k] = "."}
Above(host) ==
  LET trimmed == SubSeq(host, 1, SelectLastInSeq(host, LAMBDA c : c # "."))
  IN {d \in {SubSeq(trimmed, k + 1, Len(trimmed)) : k \in Dots(trimmed)} : Dots(d) # {}}

(* A domain such as `co.uk`, under which sites are registered. *)
IsRegistry(domain) == Cardinality(Dots(domain)) = 1 /\ SubSeq(domain, 1, Min(Dots(domain)) - 1) \in Registry

(* Mutated form: the domains of a registry are offered, too. *)
WildcardParentsOfAll(host) == IF ParseIpv4(host) # {} THEN {} ELSE Above(host)

(* wildcard_parents *)
WildcardParents(host) ==
  IF ParseIpv4(host) # {} THEN {} ELSE {d \in Above(host) : ~ IsRegistry(d)}

Suggestion(value, kind, events, covered) ==
  [value |-> value, kind |-> kind, events |-> events, covered_hosts |-> covered]

(* One turn of the loop over the parents: the hosts nobody has taken yet   *)
(* become a wildcard if there are enough of them.                          *)
RollUp(events, min_hosts, done, parent) ==
  LET members == {h \in DOMAIN events \ done.consumed : parent \in WildcardParents(h)}
  IN IF Count(members) < min_hosts THEN done
     ELSE [consumed |-> done.consumed \cup members,
           out |-> done.out \cup
             {Suggestion(<<Star, ".">> \o parent, "Wildcard",
                         SumOf([m \in members |-> events[m]]), members)}]

(* build: the parents with most labels first (the fold takes its last turn *)
(* with the shallowest), then the hosts left over and the addresses.       *)
Build(hosts, ips, opts) ==
  LET parents == UNION {WildcardParents(h) : h \in DOMAIN hosts}
      Shallowest(ps) == CHOOSE p \in ps : \A q \in ps : Cardinality(Dots(p)) <= Cardinality(Dots(q))
      rolled  == MapThenFoldSet(LAMBDA parent, done : RollUp(hosts, opts.min_hosts, done, parent),
                                [consumed |-> {}, out |-> {}], LAMBDA p : p, Shallowest, parents)
      Single(counts, but, kind) ==
        {Suggestion(d, kind, counts[d], {}) :
           d \in {x \in DOMAIN counts \ but : counts[x] >= opts.min_events}}
  IN rolled.out \cup Single(hosts, rolled.consumed, "Host")
       \cup (IF opts.include_ips THEN Single(ips, {}, "Ip") ELSE {})

(* log_suggest_targets, which asks for two hosts under a wildcard at least. *)
SuggestTargets(table, process, opts) ==
  LET rows == {r \in table : r.process.name = process /\ Destination(r) # {}}
      Counts(named) ==
        LET some == {r \in rows : (r.target.host # {}) = named}
        IN GroupBy(some, [r \in some |-> CHOOSE d \in Destination(r) : TRUE])
  IN Build(Counts(TRUE), Counts(FALSE), [opts EXCEPT !.min_hosts = Max({@, 2})])
=============================================================================
