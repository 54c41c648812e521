----------------------------- MODULE HeaderSort ------------------------------
(***************************************************************************)
(* cmd/httpstat prints the names of the response's headers in an order of  *)
(* its own: type headers is sorted with sort.Sort, which for up to twelve  *)
(* names is an insertion sort.  The names come from ranging over a map, so *)
(* in any order and each once.  Go's order of strings is the order of the  *)
(* names' positions.                                                       *)
(***************************************************************************)
EXTENDS Naturals, Sequences, FiniteSets

CONSTANTS Names,      \* header names
          Position    \* the place of each of them in the order of strings

ASSUME PositionAssumption ==
  /\ IsFiniteSet(Names) /\ Position \in [Names -> Nat]
  /\ \A a, b \in Names : Position[a] = Position[b] => a = b

HopByHop == {"Connection", "Keep-Alive", "Proxy-Authenticate", "Proxy-Authorization",
             "TE", "Trailers", "Transfer-Encoding", "Upgrade"}

endtoend(n) == n \notin HopByHop

\* Mutant: the second test for Server is missing.
LessServerOnce(a, b) ==
  \/ a = "Server"
  \/ IF endtoend(a) = endtoend(b) THEN Position[a] < Position[b] ELSE endtoend(a)

\* headers.Less, of two names.
Less(a, b) ==
  \/ a = "Server"
  \/ /\ b # "Server"
     /\ IF endtoend(a) = endtoend(b) THEN Position[a] < Position[b] ELSE endtoend(a)

VARIABLES h,    \* the names
          i, j  \* the loop variables of the insertion sort; h[1..i-1] is sorted

sortVars == <<h, i, j>>

\* The orders in which the keys of a map may be visited.
Orders(S) == {s \in [1..Cardinality(S) -> S] : \A m, n \in DOMAIN s : m # n => s[m] # s[n]}

SortInit == h \in UNION {Orders(S) : S \in SUBSET Names} /\ i = 2 /\ j = 2

Swap(m, n) == h' = [h EXCEPT ![m] = h[n], ![n] = h[m]]

\* The inner loop carries a name down while it is less than its predecessor.
Inner ==
  /\ i <= Len(h) /\ j > 1 /\ Less(h[j], h[j - 1])
  /\ Swap(j, j - 1)
  /\ j' = j - 1
  /\ UNCHANGED i

\* The outer loop goes on to the next name.
Outer ==
  /\ i <= Len(h) /\ ~(j > 1 /\ Less(h[j], h[j - 1]))
  /\ i' = i + 1 /\ j' = i + 1
  /\ UNCHANGED h

Sort == Inner \/ Outer
SortDone == i > Len(h) /\ UNCHANGED sortVars
SortNext == Sort \/ SortDone
SortSpec == SortInit /\ [][SortNext]_sortVars

-----------------------------------------------------------------------------
\* The printed names are each printed once and in the order the comments of Less
\* promise ("server always sorts at the top", same class by name): Server first,
\* then the end-to-end headers, then the hop-by-hop ones, each in string order.
Sorted ==
  i > Len(h) =>
    \A m, n \in 1..Len(h) : m < n =>
      /\ h[m] # h[n]
      /\ h[n] # "Server"
      /\ h[m] # "Server" =>
           /\ endtoend(h[n]) => endtoend(h[m])
           /\ endtoend(h[n]) = endtoend(h[m]) => Position[h[m]] < Position[h[n]]

NamesOf(s) == {s[m] : m \in 1..Len(s)}

\* What is printed is what was received: no turn of the sort loses a header name
\* or doubles one (headers.Swap exchanges two names in place).
NamesKept == [][NamesOf(h') = NamesOf(h) /\ Len(h') = Len(h)]_sortVars
=============================================================================
