------------------------------ MODULE LogTable ------------------------------
(***************************************************************************)
(* The events table of the log module (EventTable.tsx, queries.ts), which  *)
(* loads the rows of the present filter page by page while the user        *)
(* scrolls, changes the filter and ingests other logs (IngestPanel.tsx).   *)
(* A page is asked for, read by the backend from the table that is         *)
(* published then, and received in three steps.                            *)
(*                                                                         *)
(* The rules of the query cache are React Query's (external): one request  *)
(* per key at a time, a refetch asks for every page again, one after the   *)
(* other, and fetchNextPage cancels a refetch.                             *)
(***************************************************************************)
EXTENDS LogQueries

CONSTANTS
  Logs,      \* the logs that may be open at first,
  Opens,     \* and those that may be ingested later
  Filters,   \* the filters the user may choose
  PageSize,  \* PAGE_SIZE
  Options,   \* the options of log_suggest_targets the user may set
  MaxOpens   \* how many ingests are explored

ASSUME LogTableAssumption ==
  /\ AnyFilter \in Filters /\ PageSize \in Nat \ {0} /\ Opens \subseteq Logs
  /\ Logs \subseteq Seq(Entry)
  /\ Options \subseteq [min_hosts : Nat, min_events : Nat, include_ips : BOOLEAN]

VARIABLES
  log,       \* the file that was ingested last (history),
  store,     \* the table of connections in the published store,
  ingest,    \* a later one: <<>>, <<"running", log>> or <<"answered">>
  opens,     \* the number of ingests so far
  filter,    \* useEffectiveFilter(), the key the table observes
  cache,     \* for each key its entry
  overtaken  \* keys that may hold pages of two tables (history)

vars == <<log, store, ingest, opens, filter, cache, overtaken>>

-----------------------------------------------------------------------------
(* One entry of the cache: the pages held, if there was an answer ever,    *)
(* whether they were invalidated, and the request under way, with the      *)
(* pages it has so far, how many it wants and the page that was read.      *)

NoFetch  == [kind |-> "none", got |-> <<>>, want |-> 0, answer |-> {}]
NewEntry == [pages |-> <<>>, data |-> FALSE, invalid |-> FALSE, fetch |-> NoFetch]

Fetching(kind, got, want) == [kind |-> kind, got |-> got, want |-> want, answer |-> {}]
Refetching(e) == [e EXCEPT !.fetch = Fetching("refetch", <<>>, Max({1, Len(e.pages)}))]

Rows(pages) == FlattenSeq(pages)

(* getNextPageParam: a short page is the last; otherwise the next begins   *)
(* after the rows held.                                                    *)
HasNext(pages)    == pages = <<>> \/ Len(Last(pages)) = PageSize
NextOffset(pages) == Len(Rows(pages))

(* The observer moves to a key: what it holds is used if it is fresh.      *)
Observed(e) ==
  IF (~ e.data \/ e.invalid) /\ e.fetch.kind = "none" THEN Refetching(e) ELSE e

Init ==
  /\ log \in Logs /\ store = EventRows(Lines(log)) /\ ingest = <<>> /\ opens = 0
  /\ filter = AnyFilter
  /\ cache = [f \in Filters |-> IF f = AnyFilter THEN Observed(NewEntry) ELSE NewEntry]
  /\ overtaken = {}

-----------------------------------------------------------------------------
(* The table. *)

(* setFilter, the search box *)
SetFilter(f) ==
  /\ f # filter
  /\ filter' = f /\ cache' = [cache EXCEPT ![f] = Observed(@)]
  /\ overtaken' = IF cache'[f] # cache[f] THEN overtaken \ {f} ELSE overtaken
  /\ UNCHANGED <<log, store, ingest, opens>>

(* fetchNextPage, near the bottom: hasNextPage && !isFetchingNextPage.  A  *)
(* refetch under way is cancelled.                                         *)
FetchNextPage ==
  LET e == cache[filter]
  IN /\ e.data /\ HasNext(e.pages) /\ e.fetch.kind # "more"
     /\ cache' = [cache EXCEPT ![filter].fetch = Fetching("more", e.pages, Len(e.pages) + 1)]
     /\ overtaken' = IF e.invalid THEN overtaken \cup {filter} ELSE overtaken
     /\ UNCHANGED <<log, store, ingest, opens, filter>>

(* log_query_events, for the request of one key *)
ReadPage(f) ==
  LET fetch == cache[f].fetch
  IN /\ fetch.kind # "none" /\ fetch.answer = {}
     /\ cache' = [cache EXCEPT ![f].fetch.answer =
                                  {QueryEvents(store, f, PageSize, NextOffset(fetch.got))}]
     /\ UNCHANGED <<log, store, ingest, opens, filter, overtaken>>

(* The page arrives; a refetch goes on while it wants pages and has more.  *)
ReceivePage(f) ==
  LET fetch == cache[f].fetch
  IN /\ fetch.answer # {}
     /\ \E page \in fetch.answer :
          LET got == Append(fetch.got, page)
          IN cache' = [cache EXCEPT ![f] =
               IF Len(got) < fetch.want /\ HasNext(got)
               THEN [@ EXCEPT !.fetch = Fetching(fetch.kind, got, fetch.want)]
               ELSE [pages |-> got, data |-> TRUE, invalid |-> FALSE, fetch |-> NoFetch]]
     /\ UNCHANGED <<log, store, ingest, opens, filter, overtaken>>

(* The query fails: what the entry holds stays. *)
FetchFails(f) ==
  /\ cache[f].fetch.kind # "none"
  /\ cache' = [cache EXCEPT ![f].fetch = NoFetch]
  /\ UNCHANGED <<log, store, ingest, opens, filter, overtaken>>

-----------------------------------------------------------------------------
(* Another log. *)

(* onOpen, onReingest *)
StartIngest(l) ==
  /\ ingest = <<>> /\ opens < MaxOpens
  /\ ingest' = <<"running", l>> /\ opens' = opens + 1
  /\ UNCHANGED <<log, store, filter, cache, overtaken>>

(* log_ingest publishes the finished store. *)
PublishStore ==
  /\ Len(ingest) = 2
  /\ log' = ingest[2] /\ store' = EventRows(Lines(log')) /\ ingest' = <<"answered">>
  /\ UNCHANGED <<opens, filter, cache, overtaken>>

IngestFails ==
  /\ Len(ingest) = 2 /\ ingest' = <<>>
  /\ UNCHANGED <<log, store, opens, filter, cache, overtaken>>

(* invalidateQueries: every entry is marked, the one in use is asked for   *)
(* again.  A first request of its has no data yet and is not cancelled.    *)
Invalidated(e, active) ==
  LET marked == [e EXCEPT !.invalid = TRUE]
  IN IF active /\ (e.data \/ e.fetch.kind = "none") THEN Refetching(marked) ELSE marked

(* Mutated form: the cache is left alone. *)
LoadedQuietly ==
  /\ ingest = <<"answered">> /\ ingest' = <<>>
  /\ filter' = AnyFilter
  /\ cache' = [cache EXCEPT ![AnyFilter] = Observed(@)]
  /\ UNCHANGED <<log, store, opens, overtaken>>

(* The answer of log_ingest: setLoaded clears the filter, and all queries  *)
(* of the log module are invalidated, before the view is drawn again.      *)
Loaded ==
  /\ ingest = <<"answered">> /\ ingest' = <<>>
  /\ filter' = AnyFilter
  /\ LET marked == [f \in Filters |-> Invalidated(cache[f], f = filter)]
     IN /\ cache' = [marked EXCEPT ![AnyFilter] = Observed(@)]
        /\ overtaken' = {f \in Filters : cache[f].fetch.kind # "none" /\ cache'[f].fetch = cache[f].fetch}
  /\ UNCHANGED <<log, store, opens>>

Next ==
  \/ \E f \in Filters : SetFilter(f) \/ ReadPage(f) \/ ReceivePage(f) \/ FetchFails(f)
  \/ FetchNextPage
  \/ \E l \in Opens : StartIngest(l)
  \/ PublishStore \/ IngestFails \/ Loaded

Spec == Init /\ [][Next]_vars

-----------------------------------------------------------------------------
(* Properties. *)

(* The first look at a log. *)
Untouched == opens = 0 /\ cache[AnyFilter].fetch.kind = "refetch" /\ cache[AnyFilter].fetch.answer = {}

(* What the logs have to be like for that: no host holds a bracket, no     *)
(* rule one of the phrases, and so on.                                     *)
LogsLegible == \A l \in Logs : \A i \in DOMAIN l : Legible(l[i])

(* Every connection and every name resolution that Proxifier logged is in  *)
(* its table once, as it was logged and in the order of the log, and       *)
(* nothing else is.                                                        *)
LinesReadBack ==
  Untouched =>
    /\ EventRows(Lines(log)) = Said(log, {"connection"})
    /\ DnsRows(Lines(log)) = Said(log, NameKinds)

InOrder(rows) == \A i, k \in DOMAIN rows : i < k => Precedes(rows[i], rows[k])

(* What the table shows, once the last ingest is over and nothing is being *)
(* fetched: the newest rows of the open log that pass the filter, without  *)
(* a gap or a repetition and, if there is no further page, just the rows   *)
(* that the panels count.  Left out are keys whose request went on across  *)
(* an ingest, or that grew by a page, at the user's scroll, while what     *)
(* they hold was invalid.                                                  *)
RowsAgree ==
  LET e    == cache[filter]
      rows == Rows(e.pages)
  IN ingest = <<>> /\ e.data /\ ~ e.invalid /\ e.fetch.kind = "none" /\ filter \notin overtaken =>
       /\ InOrder(rows)
       /\ ToSet(rows) \subseteq Matching(store, filter)
       /\ \A row \in Matching(store, filter) \ ToSet(rows), shown \in ToSet(rows) : Precedes(shown, row)
       /\ HasNext(e.pages) \/ Dashboard(store, filter) = Dashboard(ToSet(rows), AnyFilter)

(* The same without the exception. *)
RowsAlwaysAgree ==
  LET e == cache[filter]
  IN ingest = <<>> /\ e.data /\ ~ e.invalid /\ e.fetch.kind = "none" =>
       ToSet(Rows(e.pages)) \subseteq Matching(store, filter)

(* The site a host belongs to: the shortest domain above or equal to it    *)
(* that somebody can have registered.                                      *)
SiteOf(host) ==
  LET sites == {d \in Above(host) \cup {host} : ~ IsRegistry(d)}
  IN CHOOSE d \in sites : \A e \in sites : Len(d) <= Len(e)

(* The suggested targets of a process, pasted into a rule.  With S the     *)
(* suggestions for its rows:                                               *)
Covers(S, d) == \E s \in S : TargetMatches(s.value, d)

(* - every destination seen often enough is matched; the counts add up to  *)
(*   the number of connections that the rule would match;                  *)
Exact(S, rows, opts) ==
  LET dests == UNION {Destination(r) : r \in rows}
      Seen(d) == Count({r \in rows : d \in Destination(r)})
      named  == UNION {r.target.host : r \in rows}
  IN /\ \A d \in dests : Seen(d) >= opts.min_events /\ (d \in named \/ opts.include_ips) => Covers(S, d)
     /\ SumOf([s \in S |-> s.events]) = Count({r \in rows : \E d \in Destination(r) : Covers(S, d)})

(* - no wildcard is wider than it has to be: none matches a host of        *)
(*   another site, and none stands for hosts of which a domain below it    *)
(*   has enough for a wildcard of its own.                                 *)
Narrow(S, opts) ==
  \A s \in {x \in S : x.kind = "Wildcard"} :
    /\ \A h \in Hosts, c \in s.covered_hosts : TargetMatches(s.value, h) => SiteOf(h) = SiteOf(c)
    /\ \A parent \in UNION {WildcardParents(h) : h \in s.covered_hosts} :
         <<Star, ".">> \o parent # s.value =>
           LET under == {h \in s.covered_hosts : parent \in WildcardParents(h)}
           IN under = s.covered_hosts \/ Count(under) < Max({2, opts.min_hosts})

(* What the logs have to be like for that: a destination holds no `*` and  *)
(* is no range of addresses; a host does not end with a dot and is not     *)
(* logged as an address, too; and no address ends like a domain that may   *)
(* be offered.                                                             *)
DestinationsPlain ==
  /\ Hosts \subseteq Text
  /\ \A l \in Logs :
       LET connections == {e \in ToSet(l) : e.kind = "connection"}
           hosts       == UNION {e.target.host : e \in connections}
           addresses   == UNION {Destination(e) : e \in {c \in connections : c.target.host = {}}}
       IN /\ hosts \cap addresses = {}
          /\ \A d \in hosts \cup addresses : Free(d, {Star, Query}) /\ ParseCidr(d) = {}
          /\ \A h \in hosts : Last(h) # "."
          /\ \A parent \in UNION {WildcardParents(h) : h \in hosts} :
               LET wildcard == <<Star, ".">> \o parent
               IN /\ ParseCidr(wildcard) = {}
                  /\ \A d \in addresses \cup {h \in hosts : ParseIpv4(h) # {}} : ~ TargetMatches(wildcard, d)

SuggestionsExact ==
  Untouched => \A opts \in Options : \A process \in {r.process.name : r \in store} :
    LET S == SuggestTargets(store, process, opts)
    IN /\ Exact(S, {r \in store : r.process.name = process}, opts)
       /\ Narrow(S, opts)
=============================================================================
