---------------------------- MODULE SelectionProofs ----------------------------
(***************************************************************************)
(* What the selection of addresses guarantees for every number of          *)
(* addresses and filters, every page size and every kind of address.       *)
(***************************************************************************)
EXTENDS Selection, TLAPS

(* The filters                                                             *)

\* The first k filters are parsed: none but those the configuration asks for, and all of
\* them where none is replaced.
ParsedUpTo(k) ==
    /\ parsed \subseteq Asked
    /\ NoneReplaced => \A n \in 1..k : filter[n] \in parsed

FilterInv ==
    /\ filter \in Seq(Filters \cup {Invalid}) /\ Len(filter) <= MaxFilters
    /\ provider \in {"aws", "gcp", "oci"} /\ cloud \in [Addresses -> Kinds]
    /\ pc = "parse" => at <= Len(filter) /\ ParsedUpTo(at)
    /\ pc \notin {"parse", "error"} => ParsedUpTo(Len(filter))

-----------------------------------------------------------------------------
(* The list                                                                *)

\* How many of the addresses of the cloud have been looked at.
Seen == CASE pc = "parse" -> 0
          [] pc = "list" -> at
          [] OTHER -> IF provider = "oci" /\ PageSize < N THEN PageSize ELSE N

\* The list holds what is wanted of them, each address once.
ListInv ==
    pc # "error" =>
        /\ pc = "list" => at \in 0..N /\ (provider # "gcp" => at = 0)
        /\ Len(addrs) <= Seen
        /\ \A n \in DOMAIN addrs : addrs[n] \in 1..Seen /\ Wanted(addrs[n])
        /\ \A m, n \in DOMAIN addrs : addrs[m] = addrs[n] => m = n
        /\ \A a \in 1..Seen : Wanted(a) => \E n \in DOMAIN addrs : addrs[n] = a

-----------------------------------------------------------------------------
(* The sort                                                                *)

\* The first p addresses of a list are sorted, but for the one at h.  That one is before
\* those it has come past, and the others are in order, with it or without it in between.
SortedBut(s, h, p) ==
    /\ \A n \in DOMAIN s : h < n /\ n <= p => LessByTag(s[h], s[n])
    /\ \A m, n \in DOMAIN s \ {h} :
          m < n /\ n <= p /\ cloud[s[m]].nil => cloud[s[n]].nil
    /\ \A m, n \in DOMAIN s \ {h} :
          m < n /\ n <= p /\ (\A l \in m..n : l = h \/ HasKey(s[l])) =>
              cloud[s[m]].tags[SortKey] <= cloud[s[n]].tags[SortKey]

SortInv ==
    /\ j <= i /\ (i > Len(addrs) => j = i)
    /\ pc \in {"parse", "list", "listed"} => i = 2 /\ j = 2
    /\ pc = "done" /\ orderBy = "Tag" => i > Len(addrs)
    /\ pc \in {"sort", "done"} /\ orderBy = "Tag" => SortedBut(addrs, j, i)

SelectionInv == TypeOK /\ FilterInv /\ ListInv /\ SortInv

-----------------------------------------------------------------------------
(* The invariant holds initially                                           *)

LEMMA SelectionInvInit == Init => SelectionInv
<1> SUFFICES ASSUME Init PROVE SelectionInv
  OBVIOUS
<1> USE SelectionAssumption
<1>1. PICK n \in 0..MaxFilters : filter \in [1..n -> Filters \cup {Invalid}]
  BY DEF Init
<1>2. filter \in Seq(Filters \cup {Invalid}) /\ Len(filter) = n
  BY <1>1
<1>3. pc = "parse" /\ at = 0 /\ parsed = {} /\ addrs = <<>> /\ i = 2 /\ j = 2
      /\ provider \in {"aws", "gcp", "oci"} /\ cloud \in [Addresses -> Kinds]
  BY DEF Init
<1>4. addrs \in Seq(Addresses) /\ Len(addrs) = 0 /\ DOMAIN addrs = {}
  BY <1>3
<1>5. TypeOK
  BY <1>3, <1>4 DEF TypeOK
<1>6. FilterInv
  <2>1. ParsedUpTo(0)
    BY <1>3 DEF ParsedUpTo
  <2>2. QED
    BY <1>2, <1>3, <2>1 DEF FilterInv
<1>7. ListInv
  BY <1>3, <1>4 DEF ListInv, Seen
<1>8. SortInv
  BY <1>3, <1>4 DEF SortInv
<1>9. QED
  BY <1>5, <1>6, <1>7, <1>8 DEF SelectionInv

-----------------------------------------------------------------------------
(* The parts of the invariant, step by step                                *)

\* A page goes behind the list, and holds what is wanted of the addresses it is about.
LEMMA AddPageResult ==
  ASSUME TypeOK, NEW last \in Nat, last <= N, at \in 0..last, AddPage(last)
  PROVE  \E k \in 0..(last - at) : \E page \in [1..k -> (at + 1)..last] :
            /\ addrs' \in Seq(Addresses) /\ Len(addrs') = Len(addrs) + k
            /\ \A n \in 1..Len(addrs) : addrs'[n] = addrs[n]
            /\ \A n \in 1..k : addrs'[Len(addrs) + n] = page[n] /\ Wanted(page[n])
            /\ \A m, n \in 1..k : page[m] = page[n] => m = n
            /\ \A a \in (at + 1)..last : Wanted(a) => \E n \in 1..k : page[n] = a
<1>0. PICK k \in 0..(last - at) : \E page \in [1..k -> (at + 1)..last] :
        /\ {page[n] : n \in 1..k} = {a \in (at + 1)..last : Wanted(a)}
        /\ \A m, n \in 1..k : m < n => page[m] < page[n]
        /\ addrs' = addrs \o page
  BY DEF AddPage
<1>1. PICK page \in [1..k -> (at + 1)..last] :
        /\ {page[n] : n \in 1..k} = {a \in (at + 1)..last : Wanted(a)}
        /\ \A m, n \in 1..k : m < n => page[m] < page[n]
        /\ addrs' = addrs \o page
  BY <1>0
<1>2. page \in Seq(Addresses) /\ Len(page) = k
  <2>1. (at + 1)..last \subseteq Addresses /\ k \in Nat
    BY SelectionAssumption DEF Addresses
  <2>2. QED
    BY <2>1
<1>3. addrs \in Seq(Addresses)
  BY DEF TypeOK
<1>4. addrs' \in Seq(Addresses) /\ Len(addrs') = Len(addrs) + k
  BY <1>1, <1>2, <1>3
<1>5. /\ \A n \in 1..Len(addrs) : addrs'[n] = addrs[n]
      /\ \A n \in 1..k : addrs'[Len(addrs) + n] = page[n]
  BY <1>1, <1>2, <1>3
<1>6. \A m, n \in 1..k : page[m] = page[n] => m = n
  <2>1. \A n \in 1..k : page[n] \in Int
    BY SelectionAssumption DEF TypeOK
  <2>2. \A m, n \in 1..k : m < n => page[m] # page[n]
    BY <1>1, <2>1
  <2>3. \A m, n \in 1..k : m = n \/ m < n \/ n < m
    OBVIOUS
  <2>4. QED
    BY <2>2, <2>3
<1>7. /\ \A n \in 1..k : Wanted(page[n])
      /\ \A a \in (at + 1)..last : Wanted(a) => \E n \in 1..k : page[n] = a
  BY <1>1
<1>8. QED
  BY <1>4, <1>5, <1>6, <1>7

\* What the two addresses that a Swap exchanges mean for the list.
LEMMA SwapResult ==
  ASSUME TypeOK, SortInv, Swap
  PROVE  /\ j \in 2..Len(addrs) /\ j <= i
         /\ addrs' \in Seq(Addresses) /\ Len(addrs') = Len(addrs)
         /\ addrs'[j] = addrs[j - 1] /\ addrs'[j - 1] = addrs[j]
         /\ \A n \in 1..Len(addrs) : n \notin {j, j - 1} => addrs'[n] = addrs[n]
<1> USE SelectionAssumption
<1>1. j \in 2..Len(addrs) /\ j <= i /\ addrs \in Seq(Addresses)
  BY DEF TypeOK, SortInv, Swap
<1>2. addrs' = [addrs EXCEPT ![j] = addrs[j - 1], ![j - 1] = addrs[j]]
  BY DEF Swap
<1>3. addrs \in [1..Len(addrs) -> Addresses] /\ Len(addrs) \in Nat
  BY <1>1
<1>4. addrs' = [n \in 1..Len(addrs) |-> IF n = j - 1 THEN addrs[j]
                                         ELSE IF n = j THEN addrs[j - 1] ELSE addrs[n]]
  <2> DEFINE L == Len(addrs)
  <2>1. addrs \in [1..L -> Addresses] /\ j \in 1..L /\ j - 1 \in 1..L
    BY <1>1, <1>3
  <2> HIDE DEF L
  <2>2. QED
    BY <1>2, <2>1 DEF L
<1>5. addrs' \in [1..Len(addrs) -> Addresses]
  BY <1>1, <1>3, <1>4
<1>6. addrs' \in Seq(Addresses) /\ Len(addrs') = Len(addrs)
  BY <1>3, <1>5
<1>7. QED
  BY <1>1, <1>4, <1>6

LEMMA TypeStep == SelectionInv /\ [Next]_vars => TypeOK'
<1> SUFFICES ASSUME SelectionInv, [Next]_vars PROVE TypeOK'
  OBVIOUS
<1> USE SelectionAssumption DEF inputs
<1>0. TypeOK /\ Len(filter) \in 0..MaxFilters /\ filter \in Seq(Filters \cup {Invalid})
  BY DEF SelectionInv, FilterInv
<1>1. CASE Parse
  <2>1. filter[at + 1] \in Filters \cup {Invalid}
    BY <1>0, <1>1 DEF Parse, TypeOK
  <2>2. QED
    BY <1>0, <1>1, <2>1 DEF Parse, TypeOK, SetFilter
<1>2. CASE Parsed
  BY <1>0, <1>2 DEF Parsed, TypeOK
<1>3. CASE NextPage
  <2>1. at \in 0..(at + PageSize) /\ at + PageSize \in Nat /\ at + PageSize <= N /\ Len(addrs) <= at
    BY <1>0, <1>3 DEF NextPage, TypeOK, SelectionInv, ListInv, Seen
  <2>2. addrs' \in Seq(Addresses) /\ Len(addrs') <= N
    BY <1>0, <1>3, <2>1, AddPageResult DEF NextPage
  <2>3. QED
    BY <1>0, <1>3, <2>1, <2>2 DEF NextPage, TypeOK
<1>4. CASE LastPage
  <2> DEFINE last == IF provider = "aws" \/ at + PageSize > N THEN N ELSE at + PageSize
  <2>1. at \in 0..last /\ last \in Nat /\ last <= N /\ Len(addrs) <= at
    BY <1>0, <1>4 DEF LastPage, TypeOK, SelectionInv, ListInv, Seen
  <2>2. AddPage(last)
    BY <1>4 DEF LastPage
  <2> HIDE DEF last
  <2>3. addrs' \in Seq(Addresses) /\ Len(addrs') <= N
    BY <1>0, <2>1, <2>2, AddPageResult
  <2>4. QED
    BY <1>0, <1>4, <2>1, <2>3 DEF LastPage, TypeOK
<1>5. CASE ListFails \/ ListRefused
  BY <1>0, <1>5 DEF ListFails, ListRefused, TypeOK
<1>6. CASE Listed
  BY <1>0, <1>6 DEF Listed, TypeOK
<1>7. CASE Swap
  <2>1. addrs' \in Seq(Addresses) /\ Len(addrs') = Len(addrs)
    BY <1>0, <1>7, SwapResult DEF SelectionInv
  <2>2. QED
    BY <1>0, <1>7, <2>1 DEF Swap, TypeOK
<1>8. CASE Inserted
  BY <1>0, <1>8 DEF Inserted, TypeOK
<1>9. CASE Panic \/ Sorted
  BY <1>0, <1>9 DEF Panic, Sorted, TypeOK
<1>10. CASE UNCHANGED vars
  BY <1>0, <1>10 DEF vars, TypeOK
<1>11. QED
  BY <1>1, <1>2, <1>3, <1>4, <1>5, <1>6, <1>7, <1>8, <1>9, <1>10 DEF Next, Step

\* The filters do not change.
LEMMA AskedStays ==
  ASSUME UNCHANGED inputs
  PROVE  Asked' = Asked /\ (NoneReplaced' <=> NoneReplaced)
  BY DEF inputs, Asked, NoneReplaced

\* One more filter is parsed: it replaces no other where none has its name and other values.
LEMMA ParseOne ==
  ASSUME FilterInv, TypeOK, Parse, pc' = "parse"
  PROVE  at' = at + 1 /\ at' <= Len(filter) /\ ParsedUpTo(at)'
<1> USE SelectionAssumption
<1>1. /\ at \in Nat /\ at + 1 <= Len(filter) /\ ParsedUpTo(at)
      /\ filter \in Seq(Filters \cup {Invalid}) /\ UNCHANGED inputs
  BY DEF FilterInv, TypeOK, Parse
<1> DEFINE f == filter[at + 1]
<1>2. at' = at + 1 /\ parsed' = IF provider = "gcp" THEN parsed \cup {f} ELSE SetFilter(f)
  BY DEF Parse
<1>3. f \in Asked
  BY <1>1 DEF Asked
<1>4. parsed' \subseteq Asked
  BY <1>1, <1>2, <1>3 DEF ParsedUpTo, SetFilter
<1>5. ASSUME NoneReplaced, NEW n \in 1..(at + 1) PROVE filter[n] \in parsed'
  <2>1. CASE n = at + 1
    BY <1>2, <2>1 DEF SetFilter
  <2>2. CASE n \in 1..at
    <3>1. filter[n] \in parsed /\ filter[n] \in Asked
      BY <1>1, <1>5, <2>2 DEF ParsedUpTo
    <3>2. provider = "gcp" \/ filter[n] = f \/ filter[n].key # f.key
      BY <1>3, <1>5, <3>1 DEF NoneReplaced
    <3>3. QED
      BY <1>2, <3>1, <3>2 DEF SetFilter
  <2>3. QED
    BY <1>1, <2>1, <2>2
<1>6. Asked' = Asked /\ (NoneReplaced' <=> NoneReplaced) /\ filter' = filter
  BY <1>1, AskedStays DEF inputs
<1> HIDE DEF f
<1>7. parsed' \subseteq Asked' /\ (NoneReplaced' => \A n \in 1..at' : filter'[n] \in parsed')
  BY <1>2, <1>4, <1>5, <1>6
<1>8. QED
  BY <1>1, <1>2, <1>7 DEF ParsedUpTo

LEMMA FilterStep == SelectionInv /\ [Next]_vars => FilterInv'
<1> SUFFICES ASSUME SelectionInv, [Next]_vars PROVE FilterInv'
  OBVIOUS
<1> USE SelectionAssumption DEF inputs
<1>0. TypeOK /\ FilterInv
  BY DEF SelectionInv
<1>1. CASE Parse
  <2>1. UNCHANGED inputs /\ pc = "parse" /\ pc' \in {"parse", "error"}
    BY <1>1 DEF Parse
  <2>2. pc' = "parse" => at' <= Len(filter) /\ ParsedUpTo(at)'
    BY <1>0, <1>1, ParseOne
  <2>3. QED
    BY <1>0, <2>1, <2>2 DEF FilterInv
<1>2. CASE Parsed
  <2>1. UNCHANGED <<inputs, parsed>> /\ pc' = "list" /\ ParsedUpTo(Len(filter))
    BY <1>0, <1>2 DEF Parsed, FilterInv
  <2>2. ParsedUpTo(Len(filter))'
    BY <2>1 DEF ParsedUpTo, Asked, NoneReplaced
  <2>3. QED
    BY <1>0, <2>1, <2>2 DEF FilterInv
<1>3. ASSUME UNCHANGED <<inputs, parsed>>, pc # "parse", pc # "error", pc' # "parse"
      PROVE  FilterInv'
  <2>1. ParsedUpTo(Len(filter))'
    BY <1>0, <1>3 DEF FilterInv, ParsedUpTo, Asked, NoneReplaced
  <2>2. QED
    BY <1>0, <1>3, <2>1 DEF FilterInv
<1>4. CASE NextPage \/ LastPage \/ ListFails \/ ListRefused \/ Listed
  BY <1>3, <1>4 DEF NextPage, LastPage, ListFails, ListRefused, Listed
<1>5. CASE Swap \/ Inserted \/ Panic \/ Sorted
  BY <1>3, <1>5 DEF Swap, Inserted, Panic, Sorted
<1>6. CASE UNCHANGED vars
  BY <1>0, <1>6 DEF vars, FilterInv, ParsedUpTo, Asked, NoneReplaced
<1>7. QED
  BY <1>1, <1>2, <1>4, <1>5, <1>6 DEF Next, Step

\* A page that is added makes the list right up to its last address.
LEMMA AddPageList ==
  ASSUME SelectionInv, pc = "list", NEW last \in Nat, last <= N, at \in 0..last, AddPage(last),
         UNCHANGED <<inputs, parsed>>, Seen' = last
  PROVE  /\ Len(addrs') <= Seen'
         /\ \A n \in DOMAIN addrs' : addrs'[n] \in 1..Seen' /\ Wanted(addrs[n])'
         /\ \A m, n \in DOMAIN addrs' : addrs'[m] = addrs'[n] => m = n
         /\ \A a \in 1..Seen' : Wanted(a)' => \E n \in DOMAIN addrs' : addrs'[n] = a
<1> USE SelectionAssumption
<1>1. PICK k \in 0..(last - at) : \E page \in [1..k -> (at + 1)..last] :
            /\ addrs' \in Seq(Addresses) /\ Len(addrs') = Len(addrs) + k
            /\ \A n \in 1..Len(addrs) : addrs'[n] = addrs[n]
            /\ \A n \in 1..k : addrs'[Len(addrs) + n] = page[n] /\ Wanted(page[n])
            /\ \A m, n \in 1..k : page[m] = page[n] => m = n
            /\ \A a \in (at + 1)..last : Wanted(a) => \E n \in 1..k : page[n] = a
  BY AddPageResult DEF SelectionInv
<1>2. PICK page \in [1..k -> (at + 1)..last] :
            /\ addrs' \in Seq(Addresses) /\ Len(addrs') = Len(addrs) + k
            /\ \A n \in 1..Len(addrs) : addrs'[n] = addrs[n]
            /\ \A n \in 1..k : addrs'[Len(addrs) + n] = page[n] /\ Wanted(page[n])
            /\ \A m, n \in 1..k : page[m] = page[n] => m = n
            /\ \A a \in (at + 1)..last : Wanted(a) => \E n \in 1..k : page[n] = a
  BY <1>1
<1> DEFINE L == Len(addrs)
<1>3. /\ L \in Nat /\ L <= at /\ at \in Nat /\ DOMAIN addrs' = 1..(L + k)
      /\ \A n \in 1..L : addrs[n] \in 1..at /\ Wanted(addrs[n])
      /\ \A m, n \in 1..L : addrs[m] = addrs[n] => m = n
      /\ \A a \in 1..at : Wanted(a) => \E n \in 1..L : addrs[n] = a
  <2>1. Seen = at /\ addrs \in Seq(Addresses) /\ at \in Nat
    BY DEF SelectionInv, TypeOK, Seen
  <2>2. L \in Nat /\ DOMAIN addrs = 1..L /\ DOMAIN addrs' = 1..(L + k)
    BY <1>2, <2>1
  <2>3. QED
    BY <2>1, <2>2 DEF SelectionInv, ListInv
<1>4. \A a : Wanted(a)' <=> Wanted(a)
  BY DEF Wanted, CheckFreeformTagFilter, Matches, inputs
<1>5. \A n \in 1..(L + k) :
        \/ n \in 1..L /\ addrs'[n] = addrs[n] /\ addrs'[n] \in 1..at
        \/ /\ n - L \in 1..k /\ addrs'[n] = page[n - L] /\ Wanted(page[n - L])
           /\ addrs'[n] \in (at + 1)..last
  <2>1. ASSUME NEW n \in 1..(L + k), n \notin 1..L PROVE n - L \in 1..k /\ n = L + (n - L)
    BY <1>3, <2>1
  <2>2. ASSUME NEW n \in 1..L PROVE addrs'[n] = addrs[n] /\ addrs'[n] \in 1..at
    BY <1>2, <1>3
  <2>3. ASSUME NEW n \in 1..k
        PROVE  addrs'[L + n] = page[n] /\ Wanted(page[n]) /\ page[n] \in (at + 1)..last
    BY <1>2
  <2> HIDE DEF L
  <2>4. ASSUME NEW n \in 1..(L + k), n \notin 1..L
        PROVE  n - L \in 1..k /\ addrs'[n] = page[n - L] /\ Wanted(page[n - L])
               /\ addrs'[n] \in (at + 1)..last
    <3>1. n - L \in 1..k /\ n = L + (n - L)
      BY <2>1, <2>4
    <3>2. QED
      BY <2>3, <3>1
  <2>5. QED
    BY <2>2, <2>4
<1> HIDE DEF L
<1>6. \A n \in 1..(L + k) : addrs'[n] \in 1..last /\ Wanted(addrs[n])'
  <2>1. \A n \in 1..(L + k) : addrs'[n] \in 1..last /\ Wanted(addrs'[n])
    <3> SUFFICES ASSUME NEW n \in 1..(L + k) PROVE addrs'[n] \in 1..last /\ Wanted(addrs'[n])
      OBVIOUS
    <3>1. CASE n \in 1..L /\ addrs'[n] = addrs[n] /\ addrs'[n] \in 1..at
      BY <1>3, <3>1
    <3>2. CASE Wanted(page[n - L]) /\ addrs'[n] = page[n - L] /\ addrs'[n] \in (at + 1)..last
      BY <1>3, <3>2
    <3>3. QED
      BY <1>5, <3>1, <3>2
  <2>2. UNCHANGED <<cloud, provider, parsed>>
    BY DEF inputs
  <2>3. QED
    BY <2>1, <2>2 DEF Wanted, CheckFreeformTagFilter, Matches
<1>7. \A m, n \in 1..(L + k) : addrs'[m] = addrs'[n] => m = n
  <2> SUFFICES ASSUME NEW m \in 1..(L + k), NEW n \in 1..(L + k), addrs'[m] = addrs'[n]
               PROVE  m = n
    OBVIOUS
  <2>1. CASE m \in 1..L /\ n \in 1..L
    BY <1>2, <1>3, <2>1 DEF L
  <2>2. CASE m \in 1..L /\ n \notin 1..L
    <3>1. addrs'[m] \in 1..at
      BY <1>2, <1>3, <2>2 DEF L
    <3>2. addrs'[n] \in (at + 1)..last
      BY <1>5, <2>2
    <3>3. QED
      BY <1>3, <3>1, <3>2
  <2>3. CASE m \notin 1..L /\ n \in 1..L
    <3>1. addrs'[n] \in 1..at
      BY <1>2, <1>3, <2>3 DEF L
    <3>2. addrs'[m] \in (at + 1)..last
      BY <1>5, <2>3
    <3>3. QED
      BY <1>3, <3>1, <3>2
  <2>4. CASE m \notin 1..L /\ n \notin 1..L
    <3>1. m - L \in 1..k /\ n - L \in 1..k /\ page[m - L] = page[n - L]
      BY <1>5, <2>4
    <3>2. m - L = n - L
      BY <1>2, <3>1
    <3>3. QED
      BY <1>3, <3>2
  <2>5. QED
    BY <2>1, <2>2, <2>3, <2>4
<1>8. \A a \in 1..last : Wanted(a) => \E n \in 1..(L + k) : addrs'[n] = a
  <2> SUFFICES ASSUME NEW a \in 1..last, Wanted(a) PROVE \E n \in 1..(L + k) : addrs'[n] = a
    OBVIOUS
  <2>1. CASE a \in 1..at
    <3>1. PICK n \in 1..L : addrs[n] = a
      BY <1>3, <2>1
    <3>2. addrs'[n] = a /\ n \in 1..(L + k)
      BY <1>2, <1>3, <3>1 DEF L
    <3>3. QED
      BY <3>2
  <2>2. CASE a \in (at + 1)..last
    <3>1. PICK n \in 1..k : page[n] = a
      BY <1>2, <2>2
    <3>2. addrs'[L + n] = a /\ L + n \in 1..(L + k)
      BY <1>2, <1>3, <3>1 DEF L
    <3>3. QED
      BY <3>2
  <2>3. QED
    BY <1>3, <2>1, <2>2
<1>9. Len(addrs') <= last
  BY <1>2, <1>3 DEF L
<1>10. QED
  BY <1>3, <1>4, <1>6, <1>7, <1>8, <1>9

LEMMA ListStep == SelectionInv /\ [Next]_vars => ListInv'
<1> SUFFICES ASSUME SelectionInv, [Next]_vars PROVE ListInv'
  OBVIOUS
<1> USE SelectionAssumption DEF inputs
<1>0. TypeOK /\ ListInv /\ Len(addrs) \in Nat /\ DOMAIN addrs = 1..Len(addrs)
  BY DEF SelectionInv, TypeOK
<1>1. ASSUME Parse \/ Parsed, pc' # "error" PROVE ListInv'
  <2>1. Seen = 0 /\ Seen' = 0 /\ addrs' = addrs /\ (pc' = "list" => at' = 0)
    BY <1>1 DEF Parse, Parsed, Seen
  <2>2. Len(addrs) = 0 /\ DOMAIN addrs = {}
    BY <1>0, <1>1, <2>1 DEF Parse, Parsed, ListInv
  <2>3. QED
    BY <2>1, <2>2 DEF ListInv
<1>2. CASE NextPage
  <2>1. /\ pc = "list" /\ pc' = "list" /\ at' = at + PageSize /\ provider = "gcp"
        /\ at \in 0..at' /\ at' \in Nat /\ at' <= N /\ AddPage(at')
    BY <1>0, <1>2 DEF NextPage, TypeOK
  <2>2. Seen' = at' /\ UNCHANGED <<inputs, parsed>>
    BY <1>2, <2>1 DEF Seen, NextPage
  <2>3. QED
    BY <2>1, <2>2, AddPageList DEF ListInv
<1>3. CASE LastPage
  <2> DEFINE last == IF provider = "aws" \/ at + PageSize > N THEN N ELSE at + PageSize
  <2>1. /\ pc = "list" /\ pc' = "listed" /\ at \in 0..N /\ (provider # "gcp" => at = 0)
        /\ (provider = "gcp" => at + PageSize >= N) /\ UNCHANGED <<inputs, parsed>>
        /\ provider \in {"aws", "gcp", "oci"}
    BY <1>0, <1>3 DEF LastPage, ListInv, SelectionInv, FilterInv
  <2>2. last \in Nat /\ last <= N /\ at \in 0..last
    BY <2>1
  <2>3. Seen' = last
    BY <2>1 DEF Seen
  <2>4. AddPage(last)
    BY <1>3 DEF LastPage
  <2> HIDE DEF last
  <2>5. QED
    BY <2>1, <2>2, <2>3, <2>4, AddPageList DEF ListInv
<1>4. ASSUME pc' = "error" PROVE ListInv'
  BY <1>4 DEF ListInv
<1>5. ASSUME UNCHANGED <<provider, cloud, parsed>>
      PROVE  \A a : Wanted(a)' <=> Wanted(a)
  BY <1>5 DEF Wanted, CheckFreeformTagFilter, Matches
<1>6. ASSUME Listed \/ Inserted \/ Panic \/ Sorted, pc' # "error" PROVE ListInv'
  <2>1. UNCHANGED <<provider, cloud, parsed, addrs, inputs>>
    BY <1>6 DEF Listed, Inserted, Panic, Sorted
  <2>2. Seen' = Seen /\ pc # "error" /\ pc' # "list"
    BY <1>6, <2>1 DEF Listed, Inserted, Panic, Sorted, Seen
  <2>3. \A n : Wanted(addrs[n])' <=> Wanted(addrs[n])
    BY <2>1 DEF Wanted, CheckFreeformTagFilter, Matches
  <2>4. QED
    BY <1>0, <1>5, <2>1, <2>2, <2>3 DEF ListInv
<1>7. CASE Swap
  <2>1. /\ j \in 2..Len(addrs) /\ Len(addrs') = Len(addrs) /\ DOMAIN addrs' = DOMAIN addrs
        /\ addrs'[j] = addrs[j - 1] /\ addrs'[j - 1] = addrs[j]
        /\ \A n \in DOMAIN addrs : n \notin {j, j - 1} => addrs'[n] = addrs[n]
    BY <1>0, <1>7, SwapResult DEF SelectionInv
  <2>2. UNCHANGED <<provider, cloud, parsed, inputs, pc, at>> /\ pc = "sort" /\ Seen' = Seen
    BY <1>7 DEF Swap, Seen
  <2> DEFINE from(n) == IF n = j THEN j - 1 ELSE IF n = j - 1 THEN j ELSE n
  <2>3. /\ \A n \in DOMAIN addrs : from(n) \in DOMAIN addrs /\ addrs'[n] = addrs[from(n)]
        /\ \A n \in DOMAIN addrs : from(from(n)) = n
    <3>1. j \in 1..Len(addrs) /\ j - 1 \in 1..Len(addrs) /\ j # j - 1
      BY <1>0, <2>1
    <3>2. QED
      BY <1>0, <2>1, <3>1
  <2> HIDE DEF from
  <2>4. \A n : Wanted(addrs[n])' <=> Wanted(addrs'[n])
    BY <2>2 DEF Wanted, CheckFreeformTagFilter, Matches
  <2>5. \A n \in DOMAIN addrs' : addrs'[n] \in 1..Seen' /\ Wanted(addrs[n])'
    BY <1>0, <2>1, <2>2, <2>3, <2>4 DEF ListInv
  <2>6. \A m, n \in DOMAIN addrs' : addrs'[m] = addrs'[n] => m = n
    BY <1>0, <2>1, <2>2, <2>3 DEF ListInv
  <2>7. \A a \in 1..Seen' : Wanted(a)' => \E n \in DOMAIN addrs' : addrs'[n] = a
    BY <1>0, <1>5, <2>1, <2>2, <2>3 DEF ListInv
  <2>8. Len(addrs') <= Seen'
    BY <1>0, <2>1, <2>2 DEF ListInv
  <2>9. QED
    BY <2>2, <2>5, <2>6, <2>7, <2>8 DEF ListInv
<1>8. CASE UNCHANGED vars
  <2>1. UNCHANGED <<provider, cloud, parsed, addrs, pc, at>> /\ Seen' = Seen
    BY <1>8 DEF vars, Seen
  <2>2. \A n : Wanted(addrs[n])' <=> Wanted(addrs[n])
    BY <2>1 DEF Wanted, CheckFreeformTagFilter, Matches
  <2>3. QED
    BY <1>0, <1>5, <2>1, <2>2 DEF ListInv
<1>9. QED
  BY <1>1, <1>2, <1>3, <1>4, <1>6, <1>7, <1>8 DEF Next, Step, ListFails, ListRefused

\* What the order of two addresses says of their tags.
LEMMA LessMeans ==
  ASSUME cloud \in [Addresses -> Kinds], NEW a \in Addresses, NEW b \in Addresses
  PROVE  /\ HasKey(a) => ~cloud[a].nil /\ cloud[a].tags[SortKey] \in Nat
         /\ LessByTag(a, b) => ~cloud[a].nil
         /\ LessByTag(a, b) /\ HasKey(b) =>
                HasKey(a) /\ cloud[a].tags[SortKey] < cloud[b].tags[SortKey]
         /\ ~LessByTag(a, b) /\ cloud[b].nil => cloud[a].nil
         /\ ~LessByTag(a, b) /\ HasKey(a) /\ HasKey(b) =>
                cloud[b].tags[SortKey] <= cloud[a].tags[SortKey]
<1>1. cloud[a] \in Kinds /\ cloud[b] \in Kinds
  OBVIOUS
<1>2. /\ HasKey(a) => ~cloud[a].nil /\ cloud[a].tags[SortKey] \in Nat
      /\ HasKey(b) => ~cloud[b].nil /\ cloud[b].tags[SortKey] \in Nat
      /\ cloud[a].nil \in BOOLEAN /\ cloud[b].nil \in BOOLEAN
  BY <1>1, SelectionAssumption DEF HasKey
<1>3. QED
  BY <1>2 DEF LessByTag

\* The address that is being inserted comes past the one before it.
LEMMA SortedButSwap ==
  ASSUME cloud \in [Addresses -> Kinds], NEW s \in Seq(Addresses), NEW t \in Seq(Addresses),
         NEW h \in 2..Len(s), NEW p \in Nat, h <= p, SortedBut(s, h, p),
         LessByTag(s[h], s[h - 1]),
         Len(t) = Len(s), t[h] = s[h - 1], t[h - 1] = s[h],
         \A n \in 1..Len(s) : n \notin {h, h - 1} => t[n] = s[n]
  PROVE  SortedBut(t, h - 1, p)
<1> DEFINE L == Len(s)
           from(n) == IF n = h THEN h - 1 ELSE n
<1>1. L \in Nat /\ DOMAIN s = 1..L /\ DOMAIN t = 1..L /\ h \in 1..L /\ h - 1 \in 1..L /\ h \in Nat
  OBVIOUS
<1>2. \A n \in 1..L : s[n] \in Addresses
  BY <1>1
<1>3. \A n \in 1..L \ {h - 1} : from(n) \in (1..L) \ {h} /\ t[n] = s[from(n)]
  BY <1>1
<1>4. \A m, n \in 1..L \ {h - 1} : m < n => from(m) < from(n)
  BY <1>1
<1>5. \A n \in 1..L : h - 1 < n /\ n <= p => LessByTag(t[h - 1], t[n])
  BY <1>1, <1>3 DEF SortedBut
<1>6. ASSUME NEW m \in 1..L \ {h - 1}, NEW n \in 1..L \ {h - 1}, m < n, n <= p, cloud[t[m]].nil
      PROVE  cloud[t[n]].nil
  <2>1. /\ from(m) \in (1..L) \ {h} /\ from(n) \in (1..L) \ {h} /\ from(m) < from(n)
        /\ t[m] = s[from(m)] /\ t[n] = s[from(n)]
    BY <1>3, <1>4, <1>6
  <2>2. from(n) <= p
    BY <1>1, <1>6
  <2>3. QED
    BY <1>1, <1>6, <2>1, <2>2 DEF SortedBut
<1>7. ASSUME NEW m \in 1..L \ {h - 1}, NEW n \in 1..L \ {h - 1}, m < n, n <= p,
             \A l \in m..n : l = h - 1 \/ HasKey(t[l])
      PROVE  cloud[t[m]].tags[SortKey] <= cloud[t[n]].tags[SortKey]
  <2>1. /\ from(m) \in (1..L) \ {h} /\ from(n) \in (1..L) \ {h} /\ from(m) < from(n)
        /\ t[m] = s[from(m)] /\ t[n] = s[from(n)]
    BY <1>3, <1>4, <1>7
  <2>2. from(n) <= p
    BY <1>1, <1>7
  <2>3. ASSUME NEW l \in from(m)..from(n), l # h PROVE HasKey(s[l])
    <3>1. CASE l = h - 1
      <4>1. h \in m..n
        BY <1>1, <1>7, <2>3, <3>1
      <4>2. QED
        BY <1>1, <1>7, <3>1, <4>1
    <3>2. CASE l # h - 1
      <4>1. l \in m..n /\ l \in 1..L
        BY <1>1, <1>7, <2>3, <3>2
      <4>2. t[l] = s[l]
        BY <2>3, <3>2, <4>1
      <4>3. QED
        BY <1>7, <3>2, <4>1, <4>2
    <3>3. QED
      BY <3>1, <3>2
  <2> HIDE DEF from
  <2>4. QED
    BY <1>1, <2>1, <2>2, <2>3 DEF SortedBut
<1>8. QED
  BY <1>1, <1>5, <1>6, <1>7 DEF SortedBut

\* The address that is being inserted stays where it is: one more is sorted.
LEMMA SortedButNext ==
  ASSUME cloud \in [Addresses -> Kinds], NEW s \in Seq(Addresses), NEW p \in Nat,
         NEW h \in 1..Len(s), h <= p, p <= Len(s), SortedBut(s, h, p),
         h > 1 => ~LessByTag(s[h], s[h - 1])
  PROVE  SortedBut(s, p + 1, p + 1)
<1> DEFINE L == Len(s)
<1>1. L \in Nat /\ DOMAIN s = 1..L /\ h \in Nat /\ \A n \in 1..L : s[n] \in Addresses
  OBVIOUS
<1>2. ASSUME NEW m \in 1..L, NEW n \in 1..L, m < n, n <= p, cloud[s[m]].nil
      PROVE  cloud[s[n]].nil
  <2>1. CASE m # h /\ n # h
    BY <1>1, <1>2, <2>1 DEF SortedBut
  <2>2. CASE m = h
    <3>1. LessByTag(s[h], s[n])
      BY <1>1, <1>2, <2>2 DEF SortedBut
    <3>2. QED
      BY <1>1, <1>2, <2>2, <3>1, LessMeans
  <2>3. CASE n = h
    <3>1. h > 1 /\ h - 1 \in 1..L /\ h - 1 # h /\ h - 1 <= p /\ m # h
      BY <1>1, <1>2, <2>3
    <3>2. m = h - 1 \/ m < h - 1
      BY <1>1, <1>2, <2>3
    <3>3. cloud[s[h - 1]].nil
      BY <1>1, <1>2, <3>1, <3>2 DEF SortedBut
    <3>4. QED
      BY <1>1, <2>3, <3>1, <3>3, LessMeans
  <2>4. QED
    BY <2>1, <2>2, <2>3
<1>3. ASSUME NEW m \in 1..L, NEW n \in 1..L, m < n, n <= p, \A l \in m..n : HasKey(s[l])
      PROVE  cloud[s[m]].tags[SortKey] <= cloud[s[n]].tags[SortKey]
  <2>0. HasKey(s[m]) /\ HasKey(s[n])
    BY <1>3
  <2>1. CASE m # h /\ n # h
    BY <1>1, <1>3, <2>1 DEF SortedBut
  <2>2. CASE m = h
    <3>1. LessByTag(s[h], s[n])
      BY <1>1, <1>3, <2>2 DEF SortedBut
    <3>2. cloud[s[m]].tags[SortKey] \in Nat /\ cloud[s[n]].tags[SortKey] \in Nat
      BY <1>1, <2>0, LessMeans
    <3>3. cloud[s[m]].tags[SortKey] < cloud[s[n]].tags[SortKey]
      BY <1>1, <2>0, <2>2, <3>1, LessMeans
    <3>4. QED
      BY <3>2, <3>3
  <2>3. CASE n = h
    <3>1. h > 1 /\ h - 1 \in 1..L /\ h - 1 # h /\ h - 1 <= p /\ m # h
      BY <1>1, <1>3, <2>3
    <3>2. HasKey(s[h - 1])
      BY <1>1, <1>3, <2>3, <3>1
    <3>3. cloud[s[h - 1]].tags[SortKey] <= cloud[s[h]].tags[SortKey]
      BY <1>1, <2>0, <2>3, <3>1, <3>2, LessMeans
    <3>4. CASE m = h - 1
      BY <2>3, <3>3, <3>4
    <3>5. CASE m < h - 1
      <4>1. \A l \in m..(h - 1) : l \in m..n
        BY <1>1, <2>3
      <4>2. cloud[s[m]].tags[SortKey] <= cloud[s[h - 1]].tags[SortKey]
        BY <1>1, <1>3, <3>1, <3>5, <4>1 DEF SortedBut
      <4>3. /\ cloud[s[m]].tags[SortKey] \in Nat /\ cloud[s[n]].tags[SortKey] \in Nat
            /\ cloud[s[h - 1]].tags[SortKey] \in Nat
        BY <1>1, <2>0, <3>1, <3>2, LessMeans
      <4>4. QED
        BY <2>3, <3>3, <4>2, <4>3
    <3>6. QED
      BY <1>1, <1>3, <2>3, <3>4, <3>5
  <2>4. QED
    BY <2>1, <2>2, <2>3
<1>4. \A n \in DOMAIN s \ {p + 1} : n <= p + 1 => n \in 1..L /\ n <= p
  BY <1>1
<1>5. \A m, n \in DOMAIN s \ {p + 1} :
        m < n /\ n <= p + 1 /\ cloud[s[m]].nil => cloud[s[n]].nil
  BY <1>1, <1>2, <1>4
<1>6. \A m, n \in DOMAIN s \ {p + 1} :
        m < n /\ n <= p + 1 /\ (\A l \in m..n : l = p + 1 \/ HasKey(s[l])) =>
            cloud[s[m]].tags[SortKey] <= cloud[s[n]].tags[SortKey]
  <2> SUFFICES ASSUME NEW m \in DOMAIN s \ {p + 1}, NEW n \in DOMAIN s \ {p + 1},
                      m < n, n <= p + 1, \A l \in m..n : l = p + 1 \/ HasKey(s[l])
               PROVE  cloud[s[m]].tags[SortKey] <= cloud[s[n]].tags[SortKey]
    OBVIOUS
  <2>1. m \in 1..L /\ n \in 1..L /\ n <= p
    BY <1>1, <1>4
  <2>2. \A l \in m..n : l # p + 1
    BY <2>1
  <2>3. QED
    BY <1>3, <2>1, <2>2
<1>7. \A n \in DOMAIN s : ~(p + 1 < n /\ n <= p + 1)
  BY <1>1
<1>8. QED
  BY <1>5, <1>6, <1>7 DEF SortedBut

LEMMA SortStep == SelectionInv /\ [Next]_vars => SortInv'
<1> SUFFICES ASSUME SelectionInv, [Next]_vars PROVE SortInv'
  OBVIOUS
<1> USE SelectionAssumption DEF inputs
<1>0. /\ TypeOK /\ SortInv /\ cloud \in [Addresses -> Kinds]
      /\ addrs \in Seq(Addresses) /\ Len(addrs) \in Nat /\ DOMAIN addrs = 1..Len(addrs)
      /\ i \in Nat /\ j \in Nat /\ i >= 2 /\ j >= 1
  BY DEF SelectionInv, FilterInv, TypeOK
<1>1. ASSUME cloud' = cloud PROVE SortedBut(addrs, j, i)' <=> SortedBut(addrs', j', i')
  BY <1>1 DEF SortedBut, LessByTag, HasKey
<1>2. CASE Parse \/ Parsed \/ NextPage \/ LastPage \/ ListFails \/ ListRefused
  BY <1>0, <1>2 DEF Parse, Parsed, NextPage, LastPage, ListFails, ListRefused, SortInv
<1>3. CASE Listed
  <2>1. /\ UNCHANGED <<cloud, orderBy, addrs, i, j>> /\ i = 2 /\ j = 2
        /\ pc' \in {"error", "sort", "done"} /\ (pc' = "done" => orderBy = "")
    BY <1>0, <1>3 DEF Listed, SortInv
  <2>2. SortedBut(addrs, 2, 2)
    BY <1>0 DEF SortedBut
  <2>3. QED
    BY <1>0, <1>1, <2>1, <2>2 DEF SortInv
<1>4. CASE Swap
  <2>1. /\ j \in 2..Len(addrs) /\ Len(addrs') = Len(addrs)
        /\ addrs'[j] = addrs[j - 1] /\ addrs'[j - 1] = addrs[j] /\ addrs' \in Seq(Addresses)
        /\ \A n \in 1..Len(addrs) : n \notin {j, j - 1} => addrs'[n] = addrs[n]
    BY <1>0, <1>4, SwapResult, TypeStep DEF SelectionInv, TypeOK
  <2>2. /\ UNCHANGED <<cloud, orderBy, pc, i>> /\ pc = "sort" /\ j' = j - 1 /\ i <= Len(addrs)
        /\ (orderBy = "Tag" => LessByTag(addrs[j], addrs[j - 1]))
    BY <1>4 DEF Swap, Less
  <2>3. ASSUME orderBy = "Tag" PROVE SortedBut(addrs', j', i')
    <3>1. SortedBut(addrs, j, i) /\ j <= i
      BY <1>0, <2>2, <2>3 DEF SortInv
    <3>2. QED
      BY <1>0, <2>1, <2>2, <2>3, <3>1, SortedButSwap
  <2>4. QED
    BY <1>0, <1>1, <2>1, <2>2, <2>3 DEF SortInv
<1>5. CASE Inserted
  <2>1. /\ UNCHANGED <<cloud, orderBy, pc, addrs>> /\ pc = "sort"
        /\ i' = i + 1 /\ j' = i + 1 /\ i <= Len(addrs)
        /\ (orderBy = "Tag" /\ j > 1 => ~LessByTag(addrs[j], addrs[j - 1]))
    BY <1>5 DEF Inserted, Less
  <2>2. ASSUME orderBy = "Tag" PROVE SortedBut(addrs', j', i')
    <3>1. SortedBut(addrs, j, i) /\ j <= i /\ j \in 1..Len(addrs)
      BY <1>0, <2>1, <2>2 DEF SortInv
    <3>2. QED
      BY <1>0, <2>1, <2>2, <3>1, SortedButNext
  <2>3. QED
    BY <1>0, <1>1, <2>1, <2>2 DEF SortInv
<1>6. CASE Panic \/ Sorted
  <2>1. UNCHANGED <<cloud, orderBy, addrs, i, j>> /\ pc = "sort" /\ pc' \in {"panic", "done"}
        /\ (pc' = "done" => i > Len(addrs))
    BY <1>6 DEF Panic, Sorted
  <2>2. QED
    BY <1>0, <1>1, <2>1 DEF SortInv
<1>7. CASE UNCHANGED vars
  BY <1>0, <1>1, <1>7 DEF vars, SortInv
<1>8. QED
  BY <1>2, <1>3, <1>4, <1>5, <1>6, <1>7 DEF Next, Step

LEMMA SelectionInvStep == SelectionInv /\ [Next]_vars => SelectionInv'
BY TypeStep, FilterStep, ListStep, SortStep DEF SelectionInv

LEMMA SelectionInvariant == Spec => []SelectionInv
BY SelectionInvInit, SelectionInvStep, PTL DEF Spec

-----------------------------------------------------------------------------
(* What follows                                                            *)

\* The counters of the loops over filters, pages and addresses stay within their bounds,
\* and the list within the cloud (Parse to Sorted), whatever the configuration.
THEOREM SelectionTypeCorrect == Spec => []TypeOK
<1>1. SelectionInv => TypeOK
  BY DEF SelectionInv
<1>2. QED
  BY <1>1, SelectionInvariant, PTL

\* What getAvailableElasticIPs and its likes return is free and matches every filter the
\* configuration asks for, for any number of filters and any paging, unless one of the
\* filters replaces another.
THEOREM SelectionOnlyMatching == Spec => []OnlyMatching
<1>1. SelectionInv => OnlyMatching
  <2> SUFFICES ASSUME SelectionInv, pc = "done", NEW n \in DOMAIN addrs
               PROVE  ~cloud[addrs[n]].used /\ (NoneReplaced => Matches(addrs[n], Asked))
    BY DEF OnlyMatching
  <2>1. Wanted(addrs[n]) /\ ParsedUpTo(Len(filter)) /\ DOMAIN filter = 1..Len(filter)
    BY DEF SelectionInv, ListInv, FilterInv
  <2>2. ~cloud[addrs[n]].used /\ Matches(addrs[n], parsed)
    BY <2>1 DEF Wanted, CheckFreeformTagFilter
  <2>3. NoneReplaced => Asked \subseteq parsed
    BY <2>1 DEF ParsedUpTo, Asked
  <2>4. QED
    BY <2>2, <2>3 DEF Matches
<1>2. QED
  BY <1>1, SelectionInvariant, PTL

\* They return none twice and leave none out, but for what Oracle Cloud's first page and
\* CheckFreeformTagFilter leave out, for any page size and any order of sorting.
THEOREM SelectionNoneForgotten == Spec => []NoneForgotten
<1>1. SelectionInv => NoneForgotten
  <2> SUFFICES ASSUME SelectionInv, pc = "done" PROVE NoneForgotten
    BY DEF NoneForgotten
  <2>1. /\ parsed \subseteq Asked
        /\ \A m, n \in DOMAIN addrs : addrs[m] = addrs[n] => m = n
        /\ \A a \in 1..Seen : Wanted(a) => \E n \in DOMAIN addrs : addrs[n] = a
    BY DEF SelectionInv, ListInv, FilterInv, ParsedUpTo
  <2>2. ASSUME NEW a \in Addresses, ~cloud[a].used, Matches(a, Asked),
               provider = "oci" => a <= PageSize /\ ~cloud[a].nil
        PROVE  \E n \in DOMAIN addrs : addrs[n] = a
    <3>1. a \in 1..Seen
      BY <2>2, SelectionAssumption DEF Seen, Addresses
    <3>2. Wanted(a)
      BY <2>1, <2>2 DEF Wanted, CheckFreeformTagFilter, Matches
    <3>3. QED
      BY <2>1, <3>1, <3>2
  <2>3. QED
    BY <2>1, <2>2 DEF NoneForgotten
<1>2. QED
  BY <1>1, SelectionInvariant, PTL

\* Once all are inserted, the place of the next one is past the end of the list.
LEMMA AllSorted ==
  ASSUME SelectionInv, pc = "done", orderBy = "Tag"
  PROVE  /\ SortedBut(addrs, j, i)
         /\ \A n \in DOMAIN addrs : n \in DOMAIN addrs \ {j} /\ n <= i
<1>1. /\ addrs \in Seq(Addresses) /\ i \in Nat /\ i > Len(addrs) /\ j = i
      /\ SortedBut(addrs, j, i)
  BY SelectionAssumption DEF SelectionInv, TypeOK, SortInv
<1>2. QED
  BY <1>1

\* sortAddressesByTag puts the addresses without tags last, for any list that is sorted by
\* insertion and although its order is no strict weak order.
THEOREM SelectionUntaggedLast == Spec => []UntaggedLast
<1>1. SelectionInv => UntaggedLast
  BY AllSorted DEF UntaggedLast, SortedBut
<1>2. QED
  BY <1>1, SelectionInvariant, PTL

\* And it sorts every stretch of addresses that have the tag.
THEOREM SelectionSortedBetween == Spec => []SortedBetween
<1>1. SelectionInv => SortedBetween
  <2> SUFFICES ASSUME SelectionInv, pc = "done", orderBy = "Tag",
                      NEW m \in DOMAIN addrs, NEW n \in DOMAIN addrs, m < n,
                      \A l \in m..n : HasKey(addrs[l])
               PROVE  cloud[addrs[m]].tags[SortKey] <= cloud[addrs[n]].tags[SortKey]
    BY DEF SortedBetween
  <2>1. QED
    BY AllSorted DEF SortedBut
<1>2. QED
  BY <1>1, SelectionInvariant, PTL

=============================================================================
