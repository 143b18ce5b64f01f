------------------------------- MODULE Pages -------------------------------
(***************************************************************************)
(* The pages that list the accounts (src/src/http_endpoints.c): each walks  *)
(* a table from row to row, where __find_table_entry (table.c) counts how   *)
(* many rows are left.                                                      *)
(*                                                                          *)
(* Abstractions.  A page is the sequence of its entries.  Nothing changes a *)
(* table while a page is made, so that a walk never starts from a row that  *)
(* is not in use.                                                           *)
(***************************************************************************)
EXTENDS Users

\* mutant: the rows before from are counted off twice
FindFromCountingTwice(rows, n, from) ==
    LET S == {i \in rows : from < i /\ i <= n - from}
    IN  IF S = {} THEN 0 ELSE FirstIn(S)

\* __find_table_entry: the first of the given rows behind from, in a table of n
\* rows; 0 if there is none.
FindFrom(rows, n, from) ==
    LET S == {i \in rows : from < i /\ i <= n}
    IN  IF S = {} THEN 0 ELSE FirstIn(S)

\* get_next_user and get_next_mac.
NextRow(table, from) == FindFrom(DOMAIN table, Len(table), from)

\* The rows that a page lists: it visits all and passes over those not to be kept.
Walk(table, kept) ==
    LET W[i \in 0..Len(table)] ==
            LET next == NextRow(table, i)
            IN  IF next = 0 THEN <<>>
                ELSE IF next \in kept THEN <<next>> \o W[next] ELSE W[next]
    IN  W[0]

WalkUsers == Walk(users, DOMAIN users)

\* httpapp_user_binding: the cards of u.
CardsListed(u) == Walk(mappings, {k \in DOMAIN mappings : mappings[k].user = u})

\* What the pages say of user u; only the last one has no comma behind it.
Comma(u) == NextRow(users, u) # 0

UserUsage(u)   == [name |-> users[u].name, credit |-> users[u].credit, comma |-> Comma(u)]
UserBinding(u) == [name |-> users[u].name, cards |-> CardsListed(u), comma |-> Comma(u)]
CsvLine(u)     == [name |-> users[u].name, credit |-> users[u].credit,
                   last_credit |-> users[u].last_credit]

\* query/list, query/bindings and usage.csv.
SendAllUsage     == LET w == WalkUsers IN [k \in DOMAIN w |-> UserUsage(w[k])]
SendUserBindings == LET w == WalkUsers IN [k \in DOMAIN w |-> UserBinding(w[k])]
GetCsv           == LET w == WalkUsers IN [k \in DOMAIN w |-> CsvLine(w[k])]

----------------------------------------------------------------------------
\* The cards that the bindings page lists, each with the number of its entry.
CardsOn(bindings) ==
    {x \in (DOMAIN bindings) \X (DOMAIN mappings) :
        \E i \in DOMAIN bindings[x[1]].cards : bindings[x[1]].cards[i] = x[2]}

\* The pages add up, after whatever merges and moves of rows: the usage listed
\* is what the cards transferred in this period and in the last one, every card
\* is listed for one user and no user goes without (http_endpoints.c:107 writes
\* before its buffer then), and commas stand between the users only.
PagesAddUp ==
    LET list == SendAllUsage
        csv == GetCsv
        bindings == SendUserBindings
        listed == CardsOn(bindings)
    IN  /\ SumFunction([k \in DOMAIN list |-> list[k].credit]) = Total(used)
        /\ SumFunction([k \in DOMAIN csv |-> csv[k].last_credit]) = Total(last_used)
        /\ Cardinality(listed) = Len(mappings) /\ {x[2] : x \in listed} = DOMAIN mappings
        /\ \A k \in DOMAIN bindings :
                /\ bindings[k].cards # <<>>
                /\ bindings[k].comma = (k < Len(bindings))
                /\ list[k].name = bindings[k].name
=============================================================================
