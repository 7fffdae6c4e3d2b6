------------------------------- MODULE Review -------------------------------
(***************************************************************************)
(* What the user is shown to review: the pages of the library, of the      *)
(* similar groups and of one group, and the way from photo to photo in the *)
(* inspector. All is read from the rows that Culling writes.               *)
(***************************************************************************)
EXTENDS Culling

CONSTANT PageSize   \* of each list
ASSUME PageAssumption == PageSize \in Nat \ {0}

TotalPages(count, limit) == Max({1, (count + limit - 1) \div limit})
\* OFFSET and LIMIT.
Slice(list, offset, limit) == SubSeq(list, offset + 1, Min({offset + limit, Len(list)}))
\* A page of a list; one past the last is the last.
Page(list, page) == Slice(list, (Min({page, TotalPages(Len(list), PageSize)}) - 1) * PageSize, PageSize)

-----------------------------------------------------------------------------
(* The library: list_page and count_filtered. The filters by tier and by    *)
(* gallery, of the same form, are left out.                                *)

\* Those that match anything; "" and Nobody are no filter.
Filters == [decision : {"", "REJECT"} \cup {row[p].decision : p \in Photos},
            session : {Nobody} \cup {s.id : s \in sessions}]
Matching(filter) ==
    {p \in Photos :
        /\ \/ filter.decision \in {"", row[p].decision}
           \/ filter.decision = "REJECT" /\ row[p].decision \in {"REJECT_TECHNICAL", "REJECT_REDUNDANT"}
        /\ filter.session \in {Nobody, row[p].session}}
\* The one column that photos are ordered by; a sort that is not known orders nothing.
Column(sort) == CASE sort = "score_desc" -> [p \in Photos |-> -row[p].score]
                  [] sort = "score_asc" -> [p \in Photos |-> row[p].score]
                  [] sort = "name_desc" -> [p \in Photos |-> -shot[p].name]
                  [] sort = "name_asc" -> [p \in Photos |-> shot[p].name]
                  [] OTHER -> [p \in Photos |-> 0]
\* What a query may list: those with one value of the column come in any order, which
\* may be another one in the query for the next page.
Listings(matching, column) ==
    {s \in SetToSeqs(matching) : \A i, j \in DOMAIN s : i < j => column[s[i]] <= column[s[j]]}
\* What may be on a page; one past the last is empty.
LibraryPages(listings, page) == {Slice(s, (page - 1) * PageSize, PageSize) : s \in listings}
\* What a native client may be given of the whole catalog, a step at a time.
NoFilter == [decision |-> "", session |-> Nobody]
NativeListings == Listings(Matching(NoFilter), Column("name_asc"))
NativeCatalog(listings, offset, limit) == {Slice(s, offset, limit) : s \in listings}

-----------------------------------------------------------------------------
(* Similar groups.                                                         *)

ListedGroups == {row[p].burst.of : p \in {q \in Photos : row[q].burst.kind = "similar"}}
GroupList == SetToSeq(ListedGroups)   \* by their identities
Members(group) == {p \in Photos : row[p].burst = [kind |-> "similar", of |-> group]}

NamedBefore(p, q) == shot[p].name < shot[q].name \/ (shot[p].name = shot[q].name /\ p < q)
Better(p, q) == row[p].score > row[q].score \/ (row[p].score = row[q].score /\ NamedBefore(p, q))
\* Mutant: the members are in the order of their names.
ByName(group) == InOrder(Members(group), {e \in Photos \X Photos : NamedBefore(e[1], e[2])})
\* The members of a group, best first.
Compared(group) == InOrder(Members(group), {e \in Photos \X Photos : Better(e[1], e[2])})
Recommended(group) == Head(Compared(group))

-----------------------------------------------------------------------------
(* The inspector: from photo to photo, in the catalog or in a group.       *)

\* Mutant: photos of one name are not told apart.
FollowsByName(p, q) == shot[p].name > shot[q].name
Follows(p, q) == shot[p].name > shot[q].name \/ (shot[p].name = shot[q].name /\ p > q)
Following(scope, p) == {q \in scope : Follows(q, p)}
Preceding(scope, p) == {q \in scope : Follows(p, q)}
\* The next photo, and the one before, as sets of at most one.
NextPhoto(scope, p) == {q \in Following(scope, p) : \A r \in Following(scope, p) \ {q} : Follows(r, q)}
PreviousPhoto(scope, p) == {q \in Preceding(scope, p) : \A r \in Preceding(scope, p) \ {q} : Follows(q, r)}

-----------------------------------------------------------------------------
(* Properties.                                                             *)

\* A list is shown entirely, each of its entries once, by pages one after the other.
Shown(pages) ==
    LET shown[n \in 0..Len(pages)] == IF n = 0 THEN <<>> ELSE shown[n - 1] \o pages[n]
    IN  shown[Len(pages)]
PagesShowOnce(list) == Shown([page \in 1..TotalPages(Len(list), PageSize) |-> Page(list, page)]) = list

\* Queries one after the other, each with any of its answers, show each value of the column
\* as often as there are photos of it, and no answer has a photo twice. So a photo that is
\* alone with its value is shown exactly once; among photos of one value, one may be shown
\* by two queries, in the place of another.
ShowEveryPlace(answers, matching, column) ==
    LET Values(list) == [i \in DOMAIN list |-> column[list[i]]]
        values == [i \in DOMAIN answers |-> {Values(list) : list \in answers[i]}]
    IN  /\ \A i \in DOMAIN answers : \A list \in answers[i] : IsInjective(list)
        /\ \A pages \in [DOMAIN answers -> UNION Range(values)] :
              (\A i \in DOMAIN pages : pages[i] \in values[i]) =>
                  LET shown == Shown(pages)
                  IN  \A p \in matching :
                          Cardinality({i \in DOMAIN shown : shown[i] = column[p]})
                            = Cardinality({q \in matching : column[q] = column[p]})

\* No place is left out of a review. The pages of the library, and the steps of a client
\* through the native catalog, show every place of the photos they count, whatever order the
\* database gives equal ones in each query, and there is such an order; the pages of the
\* groups and of each group, which are in a total order, show every entry once; and the
\* inspector's next and previous lead from the first photo through all others to the last
\* and back.
EveryPlaceIsShown ==
    /\ \A matching \in {Matching(filter) : filter \in Filters},
          column \in {Column(sort) : sort \in {"score_desc", "score_asc", "name_desc", "name_asc", "?"}} :
          LET listings == Listings(matching, column)
          IN  /\ listings # {}
              /\ ShowEveryPlace([page \in 1..TotalPages(Cardinality(matching), PageSize) |->
                                    LibraryPages(listings, page)], matching, column)
    /\ LET listings == NativeListings
       IN  /\ listings # {}
           /\ \A limit \in {1, PageSize} :
                 ShowEveryPlace([step \in 1..TotalPages(N, limit) |->
                                    NativeCatalog(listings, (step - 1) * limit, limit)],
                                Photos, Column("name_asc"))
    /\ PagesShowOnce(GroupList)
    /\ \A group \in ListedGroups : PagesShowOnce(Compared(group))
    /\ \A scope \in {Photos} \cup {Members(group) : group \in ListedGroups} :
          /\ \A p, q \in scope : q \in NextPhoto(scope, p) <=> p \in PreviousPhoto(scope, q)
          /\ Cardinality({p \in scope : NextPhoto(scope, p) = {}}) = 1
          /\ Cardinality({p \in scope : PreviousPhoto(scope, p) = {}}) = 1

\* The photo that the review of a group recommends is one that the rules keep: after an
\* analysis of one of its members, it has the score of a member that is BEST or KEEP, unless
\* no member has a score.
RecommendedIsKept ==
    [][last'[1] = "analysis" =>
        \A group \in ListedGroups' :
            Members(group)' \cap last'[2] # {} /\ row'[Recommended(group)'].score > 0 =>
                \E p \in Members(group)' : /\ row'[p].score = row'[Recommended(group)'].score
                                          /\ row'[p].decision \in {"BEST", "KEEP"}]_vars
=============================================================================
