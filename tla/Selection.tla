------------------------------- MODULE Selection -------------------------------
(***************************************************************************)
(* Which addresses an assigner tries, and in which order: how the filters  *)
(* of the configuration are parsed, how the addresses of the cloud are     *)
(* listed page by page and filtered, and how AWS ones are sorted.          *)
(*                                                                         *)
(* A filter asks for a tag (a label on Google Cloud) with one of several   *)
(* values.  Addresses are numbered in the order in which the cloud lists   *)
(* them.  On Google Cloud the cloud itself orders and filters them.        *)
(***************************************************************************)
EXTENDS Integers, Sequences, FiniteSets

CONSTANTS
    N,            \* the number of addresses in the cloud
    PageSize,     \* how many of them one answer holds, where answers are paged
    Kinds,        \* what an address may be like: [nil, tags, used]
    AllocationId, \* AllocationId[a]: a field every address has
    Filters,      \* well-formed filters: [key, vals]
    Invalid,      \* a filter that cannot be parsed
    MaxFilters,   \* how many filters the configuration has
    SortKey       \* the key of the tag in order-by

ASSUME SelectionAssumption ==
    /\ N \in Nat /\ PageSize \in Nat \ {0} /\ MaxFilters \in Nat
    /\ AllocationId \in [1..N -> Nat]
    /\ \A k \in Kinds : k.nil \in BOOLEAN /\ k.used \in BOOLEAN /\ (k.nil => DOMAIN k.tags = {})
    /\ \A k \in Kinds : \A t \in DOMAIN k.tags : k.tags[t] \in Nat
    /\ Invalid \notin Filters

VARIABLES
    provider, filter, orderBy,   \* the configuration
    cloud,     \* cloud[a]: the kind of address a
    pc,        \* where getAvailableElasticIPs, or its like, is
    at,        \* filters parsed, or addresses listed, so far
    parsed,    \* the filters in force
    addrs,     \* the list it makes
    i, j       \* the loops of the insertion sort

vars == <<provider, filter, orderBy, cloud, pc, at, parsed, addrs, i, j>>
inputs == <<provider, filter, orderBy, cloud>>

Addresses == 1..N

TypeOK ==
    /\ pc \in {"parse", "list", "listed", "sort", "done", "error", "panic"}
    /\ at \in 0..(N + MaxFilters)
    /\ parsed \subseteq Filters \cup {Invalid}
    /\ addrs \in Seq(Addresses) /\ Len(addrs) <= N
    /\ i \in 2..(N + 2) /\ j \in 1..(N + 2)

\* orderBy is a tag, a field, a field that only an associated address has, or nothing.
Init ==
    /\ provider \in {"aws", "gcp", "oci"}
    /\ filter \in UNION {[1..n -> Filters \cup {Invalid}] : n \in 0..MaxFilters}
    /\ provider # "aws" => \A n \in DOMAIN filter :
                              filter[n] # Invalid => Cardinality(filter[n].vals) = 1
    /\ orderBy \in IF provider = "aws" THEN {"", "Tag", "AllocationId", "AssociationId"} ELSE {""}
    /\ cloud \in [Addresses -> Kinds]
    /\ pc = "parse" /\ at = 0 /\ parsed = {} /\ addrs = <<>>
    /\ i = 2 /\ j = 2

-----------------------------------------------------------------------------
(* Filters                                                                 *)

\* parseShorthandFilter and ParseFreeformTagFilter accept it.
WellFormed(f) == f # Invalid

\* Mutant: a filter replaces all before it.
SetOnly(f) == {f}

\* filters[name] = values: a later filter replaces one with the same name.
SetFilter(f) == {g \in parsed : g.key # f.key} \cup {f}

Parse ==
    /\ pc = "parse" /\ at < Len(filter)
    /\ LET f == filter[at + 1] IN
       \/ /\ provider = "gcp"
          /\ parsed' = parsed \cup {f} /\ at' = at + 1
          /\ UNCHANGED pc
       \/ /\ provider # "gcp" /\ WellFormed(f)
          /\ parsed' = SetFilter(f) /\ at' = at + 1
          /\ UNCHANGED pc
       \/ /\ provider # "gcp" /\ ~WellFormed(f)
          /\ pc' = "error"
          /\ UNCHANGED <<parsed, at>>
    /\ UNCHANGED <<inputs, addrs, i, j>>

Parsed ==
    /\ pc = "parse" /\ at = Len(filter)
    /\ pc' = "list" /\ at' = 0
    /\ UNCHANGED <<inputs, parsed, addrs, i, j>>

\* An address has the tags that a set of filters asks for.
Matches(a, F) == \A f \in F : f.key \in DOMAIN cloud[a].tags /\ cloud[a].tags[f.key] \in f.vals

\* CheckFreeformTagFilter: the filters are never nil, even if there are none.
CheckFreeformTagFilter(a) == ~cloud[a].nil /\ Matches(a, parsed)

-----------------------------------------------------------------------------
(* Listing                                                                 *)

\* What is kept of the addresses in an answer.
Wanted(a) ==
    /\ ~cloud[a].used
    /\ IF provider = "oci" THEN CheckFreeformTagFilter(a) ELSE Matches(a, parsed)

\* An answer that ends with the given address is added to the list: what is wanted of it,
\* in the order of the cloud.
AddPage(last) ==
    \E k \in 0..(last - at) : \E page \in [1..k -> (at + 1)..last] :
        /\ {page[n] : n \in 1..k} = {a \in (at + 1)..last : Wanted(a)}
        /\ \A m, n \in 1..k : m < n => page[m] < page[n]
        /\ addrs' = addrs \o page

\* Mutants: the first page is asked for again and again; pages overlap; or the first
\* page is all.
NextPageAgain ==
    /\ pc = "list" /\ provider = "gcp" /\ Invalid \notin parsed
    /\ at + PageSize < N
    /\ addrs' = SelectSeq([n \in 1..PageSize |-> n], Wanted)
    /\ UNCHANGED <<inputs, pc, at, parsed, i, j>>

NextPageOverlap ==
    /\ pc = "list" /\ provider = "gcp" /\ Invalid \notin parsed
    /\ at + PageSize < N
    /\ AddPage(at + PageSize)
    /\ at' = at + PageSize - 1
    /\ UNCHANGED <<inputs, pc, parsed, i, j>>

LastPageFirst ==
    /\ pc = "list" /\ Invalid \notin parsed
    /\ AddPage(IF provider = "aws" \/ at + PageSize > N THEN N ELSE at + PageSize)
    /\ pc' = "listed"
    /\ UNCHANGED <<inputs, at, parsed, i, j>>

\* An answer with a token for the next page, which Google Cloud's caller asks for.
NextPage ==
    /\ pc = "list" /\ provider = "gcp" /\ Invalid \notin parsed
    /\ at + PageSize < N
    /\ AddPage(at + PageSize)
    /\ at' = at + PageSize
    /\ UNCHANGED <<inputs, pc, parsed, i, j>>

\* The last answer: on AWS the only one, on Oracle Cloud the first page.
LastPage ==
    /\ pc = "list" /\ Invalid \notin parsed
    /\ provider = "gcp" => at + PageSize >= N
    /\ AddPage(IF provider = "aws" \/ at + PageSize > N THEN N ELSE at + PageSize)
    /\ pc' = "listed"
    /\ UNCHANGED <<inputs, at, parsed, i, j>>

\* The request fails; Google Cloud refuses a filter that makes no sense.
ListFails ==
    /\ pc = "list"
    /\ pc' = "error"
    /\ UNCHANGED <<inputs, at, parsed, addrs, i, j>>

ListRefused == Invalid \in parsed /\ ListFails

Listed ==
    /\ pc = "listed"
    /\ pc' = CASE addrs = <<>> -> "error"
               [] addrs # <<>> /\ orderBy # "" -> "sort"
               [] OTHER -> "done"
    /\ UNCHANGED <<inputs, at, parsed, addrs, i, j>>

-----------------------------------------------------------------------------
(* Sorting                                                                 *)

HasKey(a) == SortKey \in DOMAIN cloud[a].tags

\* Mutants: no care for addresses without tags; and the other way round.
LessTagged(a, b) == HasKey(a) /\ HasKey(b) /\ cloud[a].tags[SortKey] < cloud[b].tags[SortKey]
LessReversed(a, b) == LessTagged(b, a)

\* sortAddressesByTag: an address without tags is after all that have some, and one that
\* has tags but not this one is neither before nor after another that has tags.
LessByTag(a, b) ==
    /\ ~cloud[a].nil
    /\ \/ cloud[b].nil
       \/ HasKey(a) /\ HasKey(b) /\ cloud[a].tags[SortKey] < cloud[b].tags[SortKey]

\* sortAddressesByField
Less(a, b) == IF orderBy = "Tag" THEN LessByTag(a, b) ELSE AllocationId[a] < AllocationId[b]

\* sort.Slice sorts up to twelve elements by insertion.
Swap ==
    /\ pc = "sort" /\ i <= Len(addrs) /\ j > 1
    /\ orderBy # "AssociationId" /\ Less(addrs[j], addrs[j - 1])
    /\ addrs' = [addrs EXCEPT ![j] = addrs[j - 1], ![j - 1] = addrs[j]]
    /\ j' = j - 1
    /\ UNCHANGED <<inputs, pc, at, parsed, i>>

Inserted ==
    /\ pc = "sort" /\ i <= Len(addrs)
    /\ orderBy # "AssociationId" /\ (j > 1 => ~Less(addrs[j], addrs[j - 1]))
    /\ i' = i + 1 /\ j' = i + 1
    /\ UNCHANGED <<inputs, pc, at, parsed, addrs>>

\* The field of an address that is not associated is a nil pointer.
Panic ==
    /\ pc = "sort" /\ i <= Len(addrs) /\ orderBy = "AssociationId"
    /\ pc' = "panic"
    /\ UNCHANGED <<inputs, at, parsed, addrs, i, j>>

Sorted ==
    /\ pc = "sort" /\ i > Len(addrs)
    /\ pc' = "done"
    /\ UNCHANGED <<inputs, at, parsed, addrs, i, j>>

Step ==
    \/ Parse \/ Parsed \/ NextPage \/ LastPage \/ ListRefused \/ Listed
    \/ Swap \/ Inserted \/ Panic \/ Sorted

Next == Step \/ ListFails

Spec == Init /\ [][Next]_vars

\* The program goes on; that a request fails is not to be relied on.
FairSpec == Spec /\ WF_vars(Step)

-----------------------------------------------------------------------------
(* Properties                                                              *)

\* The filters the configuration asks for.
Asked == {filter[n] : n \in DOMAIN filter}

\* No two of them have the same name and different values, or Google Cloud gets them all.
NoneReplaced == provider = "gcp" \/ \A f, g \in Asked : f.key = g.key => f = g

\* The addresses an agent tries are free and, unless one of the filters replaces another
\* (filters[name] = values), match all that the configuration asks for (checked by
\* getAvailableElasticIPs and its likes before Assign tries the first).
OnlyMatching ==
    pc = "done" => \A n \in DOMAIN addrs :
                      ~cloud[addrs[n]].used /\ (NoneReplaced => Matches(addrs[n], Asked))

\* The same of any filters: they are joined with an AND, whatever their names.
AllFiltersApply == pc = "done" => \A n \in DOMAIN addrs : Matches(addrs[n], Asked)

\* None is tried twice, and none that matches is left out, however the list is paged and sorted,
\* except on Oracle Cloud: what has no tags (CheckFreeformTagFilter), whether or not there
\* are filters, and what is not on the first page (ListPublicIps).
NoneForgotten ==
    pc = "done" =>
        /\ \A m, n \in DOMAIN addrs : addrs[m] = addrs[n] => m = n
        /\ \A a \in Addresses :
              /\ ~cloud[a].used /\ Matches(a, Asked)
              /\ provider = "oci" => a <= PageSize /\ ~cloud[a].nil
              => \E n \in DOMAIN addrs : addrs[n] = a

\* Sorted by a tag, the addresses without tags come last, although the order is no strict
\* weak order: those that have tags but not this one are incomparable.
UntaggedLast ==
    pc = "done" /\ orderBy = "Tag" =>
        \A m, n \in DOMAIN addrs : m < n /\ cloud[addrs[m]].nil => cloud[addrs[n]].nil

\* And those that have the tag are in order, unless one that has not stands between them.
SortedBetween ==
    pc = "done" /\ orderBy = "Tag" =>
        \A m, n \in DOMAIN addrs :
            m < n /\ (\A l \in m..n : HasKey(addrs[l])) =>
                cloud[addrs[m]].tags[SortKey] <= cloud[addrs[n]].tags[SortKey]

\* The loops over filters, pages and addresses come to an end.
Terminates == <>(pc \in {"done", "error", "panic"})

=============================================================================
