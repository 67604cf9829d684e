----------------------------- MODULE PagedFetch -----------------------------
(***************************************************************************)
(* One fetch of a REST connector: page after page, by offset (Coupa,        *)
(* Workday), by offset and a "more" flag (Oracle Fusion) or by a token       *)
(* (Ariba, Shopify), until enough rows are there or the source is through.   *)
(* The source may serve shorter pages than it was asked for, refuse for a    *)
(* while, and change between two pages.                                     *)
(***************************************************************************)
EXTENDS Service, Sequences

CONSTANTS
  MaxSource,    \* bound of the rows of the source
  MaxRecords,   \* bound of max_records
  PageSize,     \* page_size
  FetchRetries  \* max_retries of a request

ASSUME FetchAssumption ==
  /\ MaxSource \in Nat /\ MaxRecords \in Nat
  /\ PageSize \in Nat \ {0} /\ FetchRetries \in Nat

VARIABLES
  origin,  \* the source: its rows, how it pages and its longest page
  fetch,   \* the fetch: what it is to ask next and what it has
  shifted  \* the source has changed during the fetch

fetchVars == <<origin, fetch, shifted>>

\* A row is its key; the source lists them in this order.
Keys == 1..MaxSource

Listing == InOrder(origin.keys)

FetchTypeOK ==
  /\ origin.keys \subseteq Keys
  /\ origin.paging \in {"offset", "more", "token"} /\ origin.cap \in 1..PageSize
  /\ fetch.pc \in {"asking", "done", "failed"}
  /\ fetch.rows \in Seq(Keys) /\ fetch.max \in 0..MaxRecords
  /\ fetch.limit \in 1..PageSize /\ fetch.after \in Nat /\ fetch.tries \in 0..FetchRetries
  /\ shifted \in BOOLEAN

Smaller(m, n) == IF m < n THEN m ELSE n

\* page_limit: never 0.
PageLimit(wanted) == IF Smaller(PageSize, wanted) = 0 THEN 1 ELSE Smaller(PageSize, wanted)

FetchInit ==
  /\ origin \in [keys : SUBSET Keys, paging : {"offset", "more", "token"}, cap : 1..PageSize]
  /\ \E max \in 0..MaxRecords :
       fetch = [pc |-> "asking", rows |-> <<>>, max |-> max, limit |-> PageLimit(max),
                after |-> 0, tries |-> 0]
  /\ shifted = FALSE

Fetching == On("fetch") /\ NoFault

----------------------------------------------------------------------------

\* The source: what follows the offset, or the key the token stands for.
From == IF origin.paging = "token"
        THEN InOrder({k \in origin.keys : k > fetch.after})
        ELSE SubSeq(Listing, fetch.after + 1, Len(Listing))

Records == SubSeq(From, 1, Smaller(Smaller(fetch.limit, origin.cap), Len(From)))

More == Len(From) > Len(Records)

\* Mutant: the next offset counts what was asked for.
NextAfterAsked(rows) == IF origin.paging = "token" THEN rows[Len(rows)] ELSE fetch.after + fetch.limit

\* Paginator.advance: the rows there are, or the token.
NextAfter(rows) == IF origin.paging = "token" THEN rows[Len(rows)] ELSE Len(rows)

\* Mutant: a page without records does not end a fetch by offset.
ThroughFlagged == origin.paging # "offset" /\ (Records = <<>> \/ ~More)

\* No records, no flag or no token.
Through == Records = <<>> \/ (origin.paging # "offset" /\ ~More)

TakePage ==
  /\ Fetching /\ fetch.pc = "asking"
  /\ LET rows == fetch.rows \o Records
     IN  fetch' = IF Len(rows) >= fetch.max
                  THEN [fetch EXCEPT !.pc = "done", !.rows = SubSeq(rows, 1, fetch.max)]
                  ELSE IF Through
                  THEN [fetch EXCEPT !.pc = "done", !.rows = rows]
                  ELSE [fetch EXCEPT !.rows = rows, !.tries = 0, !.after = NextAfter(rows),
                                     !.limit = PageLimit(fetch.max - Len(rows))]
  /\ UNCHANGED <<origin, shifted>>

\* 429 or 5xx: again, until there were max_retries; then raise_for_status.
\* Other statuses and a broken connection raise at once.
RefusePage ==
  /\ On("fetch") /\ Fault /\ fetch.pc = "asking"
  /\ \/ fetch.tries < FetchRetries /\ fetch' = [fetch EXCEPT !.tries = @ + 1]
     \/ fetch' = [fetch EXCEPT !.pc = "failed", !.rows = <<>>]
  /\ UNCHANGED <<origin, shifted>>

\* A row comes or goes in the source.
ShiftSource ==
  /\ On("fetch") /\ Fault /\ fetch.pc = "asking"
  /\ \E k \in Keys :
       origin' = [origin EXCEPT !.keys = IF k \in @ THEN @ \ {k} ELSE @ \cup {k}]
  /\ shifted' = TRUE
  /\ UNCHANGED fetch

FetchNext == TakePage \/ RefusePage \/ ShiftSource

FetchFairness == WF_fetchVars(TakePage)

----------------------------------------------------------------------------
(* What must hold                                                           *)

\* A fetch that is through has the first max_records of the source, or all if
\* there are fewer, each once and in order, however short the pages were; a
\* source that changed meanwhile can repeat or hide a row only if it pages by
\* offset (paginate, OffsetPaginator, TokenPaginator).
FetchFits ==
  fetch.pc = "done" =>
    /\ Len(fetch.rows) <= fetch.max
    /\ ~shifted => fetch.rows = SubSeq(Listing, 1, Smaller(fetch.max, Len(Listing)))
    /\ origin.paging = "token" => \A i, j \in DOMAIN fetch.rows : i < j => fetch.rows[i] < fetch.rows[j]

\* A fetch ends, with its rows or an exception (paginate).
FetchEnds == On("fetch") /\ fetch.pc = "asking" ~> fetch.pc # "asking"

=============================================================================
