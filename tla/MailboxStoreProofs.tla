------------------------- MODULE MailboxStoreProofs -------------------------
(***************************************************************************)
(* Proofs about MailboxStore, for any number of messages, threads, bodies, *)
(* identities and times and any limit: it implements MailboxContract.      *)
(*                                                                         *)
(* First what the statements compute: ORDER BY lists a finite set in its   *)
(* order, LIMIT cuts that list, and the upserts of a batch, one after the  *)
(* other, make of the rows what the contract says of the whole batch. Then *)
(* the inductive invariant: what a transaction has done to its image is    *)
(* what the call promises as far as its statements have run, so that its   *)
(* commit is one step of the contract and everything else a stutter or a   *)
(* call that failed.                                                       *)
(***************************************************************************)
EXTENDS MailboxStore, FiniteSetTheorems, TLAPS

-----------------------------------------------------------------------------
(* Orders.                                                                  *)

Total(S, before) ==
    /\ \A i \in S : <<i, i>> \notin before
    /\ \A i, j \in S : i # j => <<i, j>> \in before \/ <<j, i>> \in before
    /\ \A i, j, k \in S : <<i, j>> \in before /\ <<j, k>> \in before => <<i, k>> \in before

Preceding(S, before, i) == {j \in S : <<j, i>> \in before}

\* Of two members of a finite order, the later one has more before it.
LEMMA MorePrecede ==
    ASSUME NEW S, IsFiniteSet(S), NEW before, Total(S, before),
           NEW i \in S, NEW j \in S, <<i, j>> \in before
    PROVE  /\ Cardinality(Preceding(S, before, i)) \in Nat
           /\ Cardinality(Preceding(S, before, j)) \in Nat
           /\ Cardinality(Preceding(S, before, i)) < Cardinality(Preceding(S, before, j))
           /\ Cardinality(Preceding(S, before, j)) < Cardinality(S)
<1> DEFINE A == Preceding(S, before, i)
           B == Preceding(S, before, j)
<1>1. A \subseteq B /\ i \in B /\ i \notin A /\ B \subseteq S /\ j \notin B
    BY DEF Total, Preceding
<1>2. IsFiniteSet(B) /\ IsFiniteSet(S \ {j}) /\ Cardinality(S \ {j}) = Cardinality(S) - 1
    BY <1>1, FS_Subset, FS_RemoveElement
<1>3. IsFiniteSet(A) /\ Cardinality(A) <= Cardinality(B) /\ Cardinality(A) # Cardinality(B)
    BY <1>1, <1>2, FS_Subset
<1>4. Cardinality(B) <= Cardinality(S \ {j})
    BY <1>1, <1>2, FS_Subset
<1>5. Cardinality(A) \in Nat /\ Cardinality(B) \in Nat /\ Cardinality(S) \in Nat
    BY <1>2, <1>3, FS_CardinalityType
<1> QED BY <1>2, <1>3, <1>4, <1>5 DEF Preceding

\* A finite set in a total order is listed once each, every member after as
\* many others as come before it.
LEMMA OrderByLists ==
    ASSUME NEW S, IsFiniteSet(S), NEW before, Total(S, before)
    PROVE  LET s == OrderBy(S, before)
               n == Cardinality(S)
           IN  /\ n \in Nat
               /\ s \in [1..n -> S]
               /\ \A k, m \in 1..n : k < m => <<s[k], s[m]>> \in before
               /\ \A i \in S : /\ Cardinality(Preceding(S, before, i)) + 1 \in 1..n
                               /\ s[Cardinality(Preceding(S, before, i)) + 1] = i
               /\ \A k \in 1..n : Cardinality(Preceding(S, before, s[k])) = k - 1
<1> DEFINE n == Cardinality(S)
           rank(i) == Cardinality(Preceding(S, before, i)) + 1
           place == [i \in S |-> rank(i)]
<1>n. n \in Nat
    BY FS_CardinalityType
<1>1. \A i \in S : rank(i) \in 1..n
  <2> TAKE i \in S
  <2>1. Preceding(S, before, i) \subseteq S \ {i}
      BY DEF Total, Preceding
  <2>2. IsFiniteSet(S \ {i}) /\ Cardinality(S \ {i}) = n - 1
      BY FS_RemoveElement
  <2>3. IsFiniteSet(Preceding(S, before, i)) /\ Cardinality(Preceding(S, before, i)) <= n - 1
      BY <2>1, <2>2, FS_Subset
  <2> QED BY <2>3, <1>n, FS_CardinalityType
<1>2. \A i, j \in S : <<i, j>> \in before => rank(i) < rank(j)
  <2> TAKE i, j \in S
  <2> HAVE <<i, j>> \in before
  <2> QED BY MorePrecede
<1>3. \A i, j \in S : rank(i) = rank(j) => i = j
  <2> TAKE i, j \in S
  <2> HAVE rank(i) = rank(j)
  <2> HIDE DEF rank
  <2>1. rank(i) \in Nat /\ rank(j) \in Nat
      BY <1>1
  <2>2. ~ rank(i) < rank(j) /\ ~ rank(j) < rank(i)
      BY <2>1
  <2> QED BY <2>2, <1>2 DEF Total
<1>4. place \in Injection(S, 1..n)
    BY <1>1, <1>3 DEF Injection, IsInjective
<1>5. IsFiniteSet(1..n) /\ Cardinality(1..n) = n
    BY <1>n, FS_Interval
<1>6. place \in Surjection(S, 1..n)
    BY <1>4, <1>5, FS_Injection
<1>7. \A k \in 1..n : \E i \in S : rank(i) = k
    BY <1>6 DEF Surjection
<1> DEFINE t == [k \in 1..n |-> CHOOSE i \in S : rank(i) = k]
<1>8. \A k \in 1..n : t[k] \in S /\ rank(t[k]) = k
    BY <1>7
<1>9. t \in [1..n -> S] /\ \A k, m \in 1..n : k < m => <<t[k], t[m]>> \in before
  <2>1. ASSUME NEW k \in 1..n, NEW m \in 1..n, k < m
        PROVE  <<t[k], t[m]>> \in before
    <3> HIDE DEF t, rank
    <3>1. t[k] \in S /\ t[m] \in S /\ rank(t[k]) < rank(t[m])
        BY <1>8, <2>1
    <3>2. ~ rank(t[m]) < rank(t[k]) /\ t[k] # t[m]
        BY <1>8, <2>1
    <3> QED BY <3>1, <3>2, <1>2 DEF Total
  <2> QED BY <1>8, <2>1
<1> DEFINE s == OrderBy(S, before)
<1>10. s \in [1..n -> S] /\ \A k, m \in 1..n : k < m => <<s[k], s[m]>> \in before
    BY <1>9 DEF OrderBy
<1> HIDE DEF s, t
<1>11. s \in Injection(1..n, S)
  <2> SUFFICES ASSUME NEW k \in 1..n, NEW m \in 1..n, k # m PROVE s[k] # s[m]
      BY <1>10 DEF Injection, IsInjective
  <2>1. k < m \/ m < k
      BY <1>n
  <2> QED BY <2>1, <1>10 DEF Total
<1>12. \A i \in S : \E k \in 1..n : s[k] = i
  <2>1. s \in Surjection(1..n, S)
      BY <1>11, <1>5, FS_Injection
  <2> QED BY <2>1 DEF Surjection
<1>13. \A k \in 1..n : Cardinality(Preceding(S, before, s[k])) = k - 1
  <2> TAKE k \in 1..n
  <2> DEFINE P == Preceding(S, before, s[k])
             f == [m \in 1..(k - 1) |-> s[m]]
  <2>1. \A m \in 1..(k - 1) : f[m] \in P
      BY <1>10, <1>n DEF Preceding
  <2>2. \A j \in P : \E m \in 1..(k - 1) : f[m] = j
    <3> TAKE j \in P
    <3>1. PICK m \in 1..n : s[m] = j
        BY <1>12 DEF Preceding
    <3>2. <<s[m], s[k]>> \in before
        BY <3>1 DEF Preceding
    <3>3. ~(k < m) /\ m # k
        BY <3>2, <1>10 DEF Total
    <3> QED BY <3>1, <3>3, <1>n
  <2>3. f \in Injection(1..(k - 1), P)
      BY <2>1, <1>11, <1>n DEF Injection, IsInjective
  <2>4. f \in Surjection(1..(k - 1), P)
      BY <2>1, <2>2 DEF Surjection
  <2>5. IsFiniteSet(P)
      BY FS_Subset DEF Preceding
  <2>6. Cardinality(1..(k - 1)) = k - 1
      BY <1>n, FS_Interval
  <2> QED BY <2>3, <2>4, <2>5, <2>6, FS_Injection
<1>14. \A i \in S : s[rank(i)] = i
  <2> TAKE i \in S
  <2>1. PICK k \in 1..n : s[k] = i
      BY <1>12
  <2>2. rank(i) = k
      BY <2>1, <1>13, <1>n
  <2> QED BY <2>1, <2>2
<1> QED BY <1>n, <1>1, <1>10, <1>13, <1>14 DEF s

\* As many of the first of a set in an order as fit, in that order.
Cut(s, S, before, limit) ==
    LET m == IF Cardinality(S) < limit THEN Cardinality(S) ELSE limit
    IN  /\ m \in Nat
        /\ s \in [1..m -> S] /\ s \in Seq(S) /\ Len(s) = m
        /\ \A k, l \in 1..m : k < l => <<s[k], s[l]>> \in before
        /\ \A i \in S : Cardinality(Preceding(S, before, i)) < limit
                         => \E k \in 1..m : s[k] = i
        /\ \A k \in 1..m : Cardinality(Preceding(S, before, s[k])) < limit
        /\ \A i \in S : (\E k \in 1..m : s[k] = i) \/ \A k \in 1..m : <<s[k], i>> \in before

LEMMA LimitedLists ==
    ASSUME NEW S, IsFiniteSet(S), NEW before, Total(S, before), NEW limit \in Nat
    PROVE  Cut(Limited(OrderBy(S, before), limit), S, before, limit)
<1> DEFINE n == Cardinality(S)
           m == IF n < limit THEN n ELSE limit
           t == OrderBy(S, before)
           s == Limited(t, limit)
           rank(i) == Cardinality(Preceding(S, before, i)) + 1
<1>1. /\ n \in Nat /\ t \in [1..n -> S]
      /\ \A k, l \in 1..n : k < l => <<t[k], t[l]>> \in before
      /\ \A i \in S : rank(i) \in 1..n /\ t[rank(i)] = i
      /\ \A k \in 1..n : Cardinality(Preceding(S, before, t[k])) = k - 1
    BY OrderByLists
<1> HIDE DEF t
<1>2. m \in Nat /\ m <= n /\ m <= limit
    BY <1>1
<1>3. t \in Seq(S) /\ Len(t) = n
    BY <1>1
<1>4. s = [k \in 1..m |-> t[k]]
    BY <1>1, <1>2, <1>3 DEF Limited
<1>5. s \in [1..m -> S] /\ s \in Seq(S) /\ Len(s) = m
  <2> HIDE DEF m, s, n
  <2>1. \A k \in 1..m : t[k] \in S
      BY <1>1, <1>2
  <2>2. s \in [1..m -> S]
      BY <2>1, <1>4
  <2> QED BY <2>2, <1>2
<1>6. \A k \in 1..m : s[k] = t[k] /\ k \in 1..n
    BY <1>1, <1>2, <1>4
<1>7. \A k, l \in 1..m : k < l => <<s[k], s[l]>> \in before
    BY <1>1, <1>6
<1>8. ASSUME NEW i \in S, Cardinality(Preceding(S, before, i)) < limit
      PROVE  \E k \in 1..m : s[k] = i
  <2>1. rank(i) \in 1..n /\ t[rank(i)] = i
      BY <1>1
  <2>2. rank(i) \in 1..m
      BY <2>1, <1>1, <1>8
  <2> QED BY <2>1, <2>2, <1>6
<1>9. ASSUME NEW k \in 1..m
      PROVE  Cardinality(Preceding(S, before, s[k])) < limit
    BY <1>1, <1>2, <1>6
<1>10. ASSUME NEW i \in S, ~ Cardinality(Preceding(S, before, i)) < limit, NEW k \in 1..m
       PROVE  <<s[k], i>> \in before
  <2>1. rank(i) \in 1..n /\ t[rank(i)] = i
      BY <1>1
  <2> HIDE DEF rank
  <2>2. rank(i) > m
      BY <1>10, <2>1, <1>2, <1>1 DEF rank
  <2>3. <<t[k], t[rank(i)]>> \in before
      BY <2>1, <2>2, <1>1, <1>6
  <2> QED BY <2>1, <2>3, <1>6
<1> HIDE DEF s, rank
<1>11. Cut(s, S, before, limit)
    BY <1>1, <1>2, <1>5, <1>7, <1>8, <1>9, <1>10 DEF Cut
<1> QED BY <1>11 DEF s, t

LEMMA NewestFirstTotal ==
    ASSUME NEW rows \in [Ids -> Message \cup {None}], NEW S \in SUBSET Present(rows)
    PROVE  /\ IsFiniteSet(S)
           /\ Total(S, NewestFirst(rows, S))
           /\ \A i \in S : Preceding(S, NewestFirst(rows, S), i) = {j \in S : Newer(rows, j, i)}
<1>1. S \subseteq Ids /\ Ids \subseteq Nat /\ IsFiniteSet(Ids)
    BY ContractAssumption DEF Present
<1>2. \A i \in S : rows[i].received \in Nat /\ i \in Nat
    BY <1>1, AbsentAssumption DEF Message, Present
<1>3. \A i, j \in S : <<i, j>> \in NewestFirst(rows, S) <=> Newer(rows, i, j)
    BY DEF NewestFirst
<1>4. Total(S, NewestFirst(rows, S))
    BY <1>2, <1>3 DEF Total, Newer
<1> QED BY <1>1, <1>3, <1>4, FS_Subset DEF Preceding

LEMMA OldestFirstTotal ==
    ASSUME NEW rows \in [Ids -> Message \cup {None}], NEW S \in SUBSET Present(rows)
    PROVE  /\ IsFiniteSet(S)
           /\ Total(S, OldestFirst(rows, S))
           /\ \A i \in S : Preceding(S, OldestFirst(rows, S), i) = {j \in S : Before(rows, j, i)}
<1>1. S \subseteq Ids /\ Ids \subseteq Nat /\ IsFiniteSet(Ids)
    BY ContractAssumption DEF Present
<1>2. \A i \in S : rows[i].received \in Nat /\ i \in Nat
    BY <1>1, AbsentAssumption DEF Message, Present
<1>3. \A i, j \in S : <<i, j>> \in OldestFirst(rows, S) <=> Before(rows, i, j)
    BY DEF OldestFirst
<1>4. Total(S, OldestFirst(rows, S))
    BY <1>2, <1>3 DEF Total, Before
<1> QED BY <1>1, <1>3, <1>4, FS_Subset DEF Preceding

\* A set of places, each once, from the first to the last.
Ascends(t, places) ==
    LET m == Cardinality(places)
    IN  /\ m \in Nat /\ IsFiniteSet(places)
        /\ t \in [1..m -> places]
        /\ \A k, l \in 1..m : k < l => t[k] < t[l]
        /\ \A p \in places : \E k \in 1..m : t[k] = p

\* The entries at some places are in the order of these places, one for each.
LEMMA FilteredLists ==
    ASSUME NEW n \in Nat, NEW places \in SUBSET (1..n)
    PROVE  Ascends(OrderBy(places, Ascending(places)), places)
<1> DEFINE b == Ascending(places)
<1>1. IsFiniteSet(places)
  <2>1. IsFiniteSet(1..n)
      BY FS_Interval
  <2> QED BY <2>1, FS_Subset
<1>2. \A i, j \in places : i \in Nat /\ j \in Nat /\ (<<i, j>> \in b <=> i < j)
    BY DEF Ascending
<1>3. Total(places, b)
    BY <1>2 DEF Total
<1>4. LET t == OrderBy(places, b)
          m == Cardinality(places)
      IN  /\ m \in Nat
          /\ t \in [1..m -> places]
          /\ \A k, l \in 1..m : k < l => <<t[k], t[l]>> \in b
          /\ \A p \in places : /\ Cardinality(Preceding(places, b, p)) + 1 \in 1..m
                               /\ t[Cardinality(Preceding(places, b, p)) + 1] = p
    BY <1>1, <1>3, OrderByLists
<1> QED BY <1>1, <1>2, <1>4 DEF Ascends

-----------------------------------------------------------------------------
(* Listings.                                                                *)

Rows == [Ids -> Message \cup {None}]

\* ORDER BY .. LIMIT lists the newest rows, each once, newest first.
THEOREM InboxLists ==
    ASSUME NEW rows \in Rows, NEW limit \in StoreLimit
    PROVE  /\ Lists(ListEnvelopes(rows, limit), Present(rows), rows, limit)
           /\ ListEnvelopes(rows, limit) \in Seq(Present(rows))
<1> DEFINE S == Present(rows)
           b == NewestFirst(rows, S)
           ids == ListEnvelopes(rows, limit)
<1>1. limit \in Nat
    BY ContractAssumption DEF StoreLimit
<1>2. IsFiniteSet(S) /\ Total(S, b)
    BY NewestFirstTotal DEF Rows
<1>3. ids = Limited(OrderBy(S, b), limit)
    BY DEF ListEnvelopes
<1>4. \A i, j \in S : <<i, j>> \in b <=> Newer(rows, i, j)
    BY DEF NewestFirst
<1> DEFINE m == IF Cardinality(S) < limit THEN Cardinality(S) ELSE limit
<1> HIDE DEF S, b, ids
<1>5. /\ ids \in [1..m -> S] /\ ids \in Seq(S) /\ Len(ids) = m
      /\ \A k, l \in 1..m : k < l => <<ids[k], ids[l]>> \in b
      /\ \A i \in S : (\E k \in 1..m : ids[k] = i) \/ \A k \in 1..m : <<ids[k], i>> \in b
  <2>1. Cut(ids, S, b, limit)
      BY <1>1, <1>2, <1>3, LimitedLists
  <2> QED BY <2>1 DEF Cut
<1>6. \A k, l \in 1..m : k < l => Newer(rows, ids[k], ids[l])
    BY <1>4, <1>5
<1>7. \A i \in S : (\E k \in 1..m : ids[k] = i) \/ \A k \in 1..m : Newer(rows, ids[k], i)
    BY <1>4, <1>5
<1>8. DOMAIN ids = 1..m /\ {ids[k] : k \in DOMAIN ids} \subseteq S
    BY <1>5
<1>9. Lists(ids, S, rows, limit)
  <2> HIDE DEF m
  <2>1. Len(ids) = IF Cardinality(S) < limit THEN Cardinality(S) ELSE limit
      BY <1>5 DEF m
  <2> QED BY <1>6, <1>7, <1>8, <2>1 DEF Lists
<1> QED BY <1>5, <1>9 DEF ids, S

\* DELETE .. NOT IN (SELECT .. LIMIT) keeps the newest rows and no other.
THEOREM PruneKeepsNewest ==
    ASSUME NEW rows \in Rows, NEW keep \in StoreLimit
    PROVE  /\ [i \in Ids |-> IF i \in ToSet(ListEnvelopes(rows, keep)) THEN rows[i] ELSE None]
                 = Newest(rows, keep)
           /\ Newest(rows, keep) \in Rows
<1> DEFINE S == Present(rows)
           b == NewestFirst(rows, S)
           ids == ListEnvelopes(rows, keep)
           m == IF Cardinality(S) < keep THEN Cardinality(S) ELSE keep
<1>1. keep \in Nat
    BY ContractAssumption DEF StoreLimit
<1>2. IsFiniteSet(S) /\ Total(S, b)
    BY NewestFirstTotal DEF Rows
<1>p. \A i \in S : Preceding(S, b, i) = {j \in S : Newer(rows, j, i)}
    BY NewestFirstTotal DEF Rows
<1>3. ids = Limited(OrderBy(S, b), keep)
    BY DEF ListEnvelopes
<1> HIDE DEF S, b, ids
<1>4. /\ ids \in [1..m -> S]
      /\ \A i \in S : Cardinality(Preceding(S, b, i)) < keep => \E k \in 1..m : ids[k] = i
      /\ \A k \in 1..m : Cardinality(Preceding(S, b, ids[k])) < keep
  <2>1. Cut(ids, S, b, keep)
      BY <1>1, <1>2, <1>3, LimitedLists
  <2> QED BY <2>1 DEF Cut
<1> HIDE DEF m
<1>5. \A i \in Ids : i \in ToSet(ids)
                       <=> i \in S /\ Cardinality({j \in S : Newer(rows, j, i)}) < keep
  <2> SUFFICES ASSUME NEW i \in Ids
               PROVE  i \in ToSet(ids)
                        <=> i \in S /\ Cardinality({j \in S : Newer(rows, j, i)}) < keep
      OBVIOUS
  <2>1. ToSet(ids) = {ids[k] : k \in 1..m} /\ \A k \in 1..m : ids[k] \in S
    <3>1. DOMAIN ids = 1..m /\ \A k \in 1..m : ids[k] \in S
        BY <1>4
    <3> QED BY <3>1 DEF ToSet
  <2>2. ASSUME i \in S
        PROVE  Cardinality(Preceding(S, b, i)) = Cardinality({j \in S : Newer(rows, j, i)})
      BY <1>p, <2>2
  <2>3. ASSUME i \in ToSet(ids)
        PROVE  i \in S /\ Cardinality({j \in S : Newer(rows, j, i)}) < keep
    <3>1. PICK k \in 1..m : i = ids[k]
        BY <2>1, <2>3
    <3>2. i \in S /\ Cardinality(Preceding(S, b, i)) < keep
        BY <1>4, <2>1, <3>1
    <3> QED BY <2>2, <3>2
  <2>4. ASSUME i \in S, Cardinality({j \in S : Newer(rows, j, i)}) < keep
        PROVE  i \in ToSet(ids)
    <3>1. Cardinality(Preceding(S, b, i)) < keep
        BY <2>2, <2>4
    <3>2. PICK k \in 1..m : ids[k] = i
        BY <1>4, <2>4, <3>1
    <3> QED BY <2>1, <3>2
  <2> QED BY <2>3, <2>4
<1>6. [i \in Ids |-> IF i \in ToSet(ids) THEN rows[i] ELSE None] = Newest(rows, keep)
    BY <1>5 DEF Newest, S
<1>7. Newest(rows, keep) \in Rows
    BY DEF Newest, Rows
<1> QED BY <1>6, <1>7 DEF ids

\* The oldest of a thread, oldest first: what the contract asks of a listing.
OldestListed(ids, rows, thread, limit) ==
    LET among == {i \in Present(rows) : rows[i].thread = thread}
    IN  /\ {ids[k] : k \in DOMAIN ids} =
               {i \in among : Cardinality({j \in among : Before(rows, j, i)}) < limit}
        /\ \A k, m \in DOMAIN ids : k < m => Before(rows, ids[k], ids[m])

\* The oldest of a thread are listed, oldest first, whatever else is stored.
THEOREM ThreadLists ==
    ASSUME NEW rows \in Rows, NEW thread, NEW limit \in StoreLimit
    PROVE  OldestListed(ListThread(rows, thread, limit), rows, thread, limit)
<1> DEFINE S == {i \in Present(rows) : rows[i].thread = thread}
           b == OldestFirst(rows, S)
           ids == ListThread(rows, thread, limit)
           m == IF Cardinality(S) < limit THEN Cardinality(S) ELSE limit
<1>1. limit \in Nat
    BY ContractAssumption DEF StoreLimit
<1>2. IsFiniteSet(S) /\ Total(S, b)
    BY OldestFirstTotal DEF Rows
<1>p. \A i \in S : Preceding(S, b, i) = {j \in S : Before(rows, j, i)}
    BY OldestFirstTotal DEF Rows
<1>3. ids = Limited(OrderBy(S, b), limit)
    BY DEF ListThread
<1>4. \A i, j \in S : <<i, j>> \in b <=> Before(rows, i, j)
    BY DEF OldestFirst
<1> HIDE DEF S, b, ids
<1>5. /\ ids \in [1..m -> S] /\ ids \in Seq(S)
      /\ \A k, l \in 1..m : k < l => <<ids[k], ids[l]>> \in b
      /\ \A i \in S : Cardinality(Preceding(S, b, i)) < limit => \E k \in 1..m : ids[k] = i
      /\ \A k \in 1..m : Cardinality(Preceding(S, b, ids[k])) < limit
  <2>1. Cut(ids, S, b, limit)
      BY <1>1, <1>2, <1>3, LimitedLists
  <2> QED BY <2>1 DEF Cut
<1> HIDE DEF m
<1>6. {ids[k] : k \in DOMAIN ids} = {i \in S : Cardinality({j \in S : Before(rows, j, i)}) < limit}
  <2>1. \A i \in S : (\E k \in 1..m : ids[k] = i) <=> Cardinality({j \in S : Before(rows, j, i)}) < limit
      BY <1>p, <1>5
  <2>2. DOMAIN ids = 1..m /\ \A k \in 1..m : ids[k] \in S
      BY <1>5
  <2> QED BY <2>1, <2>2
<1>7. \A k, l \in DOMAIN ids : k < l => Before(rows, ids[k], ids[l])
    BY <1>4, <1>5
<1> QED BY <1>6, <1>7 DEF ids, S, OldestListed

\* A search of a cache of at most MAX rows lists the newest of all that match:
\* that it lists the cache first, and cuts then, loses none of them.
THEOREM SearchLists ==
    ASSUME NEW rows \in Rows, NEW limit \in StoreLimit
    PROVE  /\ SearchMetadata(rows, limit) \in Seq(Ids)
           /\ Cardinality(Present(rows)) <= MAX =>
                 Lists(SearchMetadata(rows, limit), {i \in Present(rows) : rows[i].hits}, rows, limit)
<1> DEFINE S == Present(rows)
           listed == ListEnvelopes(rows, MAX)
           F == {k \in DOMAIN listed : rows[listed[k]].hits}
           t == OrderBy(F, Ascending(F))
           n == Cardinality(F)
           found == Filtered(listed, F)
           m == IF n < limit THEN n ELSE limit
           ids == SearchMetadata(rows, limit)
           hits == {i \in S : rows[i].hits}
<1>1. limit \in Nat /\ MAX \in StoreLimit /\ MAX \in Nat
    BY ContractAssumption DEF StoreLimit
<1>2. Lists(listed, S, rows, MAX) /\ listed \in Seq(S)
    BY <1>1, InboxLists
<1>3. S \subseteq Ids /\ IsFiniteSet(S)
    BY ContractAssumption, FS_Subset DEF Present
<1> HIDE DEF listed, S
<1>4. Len(listed) \in Nat /\ DOMAIN listed = 1..Len(listed) /\ F \subseteq 1..Len(listed)
      /\ \A k \in 1..Len(listed) : listed[k] \in S
    BY <1>2
<1>6. F \subseteq 1..Len(listed) /\ \A k \in F : rows[listed[k]].hits /\ listed[k] \in S
    BY <1>4
<1>h. \A k \in 1..Len(listed) : rows[listed[k]].hits => k \in F
    BY <1>4
<1>9. ids = Limited(found, limit)
    BY DEF SearchMetadata, listed
<1> HIDE DEF F, found, ids
<1>5. /\ n \in Nat /\ IsFiniteSet(F)
      /\ t \in [1..n -> F]
      /\ \A k, l \in 1..n : k < l => t[k] < t[l]
      /\ \A p \in F : \E k \in 1..n : t[k] = p
      /\ found = [k \in 1..n |-> listed[t[k]]]
  <2> DEFINE N == Len(listed)
  <2>1. N \in Nat /\ F \in SUBSET (1..N)
      BY <1>4
  <2> HIDE DEF N
  <2>2. Ascends(t, F)
      BY <2>1, FilteredLists
  <2> HIDE DEF t
  <2>3. found = [k \in 1..n |-> listed[t[k]]]
      BY DEF found, Filtered, t
  <2> QED BY <2>2, <2>3 DEF Ascends
<1> HIDE DEF t, n
<1>7. found \in Seq(S) /\ Len(found) = n /\ \A k \in 1..n : found[k] = listed[t[k]] /\ found[k] \in S
  <2>1. \A k \in 1..n : t[k] \in F /\ found[k] = listed[t[k]]
      BY <1>5
  <2>2. found \in [1..n -> S]
      BY <2>1, <1>5, <1>6
  <2> QED BY <2>1, <2>2, <1>5
<1>8. m \in Nat /\ m <= n /\ m <= limit
    BY <1>1, <1>5
<1>s. ids = [k \in 1..m |-> found[k]]
    BY <1>7, <1>8, <1>9 DEF Limited
<1>10. /\ DOMAIN ids = 1..m /\ Len(ids) = m /\ ids \in Seq(S)
       /\ \A k \in 1..m : ids[k] = listed[t[k]] /\ t[k] \in F
  <2> HIDE DEF m
  <2>1. \A k \in 1..m : k \in 1..n /\ ids[k] = found[k]
      BY <1>8, <1>s, <1>5
  <2> QED BY <2>1, <1>5, <1>7, <1>8, <1>s
<1>11. ASSUME Cardinality(S) <= MAX
       PROVE  Lists(ids, hits, rows, limit)
  <2>1. Len(listed) = Cardinality(S)
      BY <1>1, <1>2, <1>3, <1>11, FS_CardinalityType DEF Lists
  <2>2. \A k, l \in 1..Len(listed) : k < l => Newer(rows, listed[k], listed[l])
      BY <1>2, <1>4 DEF Lists
  <2>3. \A k, l \in 1..Len(listed) : k # l => listed[k] # listed[l]
    <3>1. \A i \in S : ~ Newer(rows, i, i)
      <4> TAKE i \in S
      <4>1. rows[i].received \in Nat /\ i \in Nat
          BY <1>3, AbsentAssumption, ContractAssumption DEF Rows, Message, Present, S
      <4> QED BY <4>1 DEF Newer
    <3> QED BY <3>1, <2>2, <1>4
  <2>4. \A i \in S : \E k \in 1..Len(listed) : listed[k] = i
    <3>1. listed \in Injection(1..Len(listed), S)
        BY <1>2, <1>4, <2>3 DEF Injection, IsInjective
    <3>2. Cardinality(1..Len(listed)) = Cardinality(S) /\ IsFiniteSet(1..Len(listed))
        BY <1>4, <2>1, FS_Interval
    <3>3. listed \in Surjection(1..Len(listed), S)
        BY <3>1, <3>2, <1>3, FS_Injection
    <3> QED BY <3>3 DEF Surjection
  <2>5. n = Cardinality(hits)
    <3> DEFINE f == [k \in F |-> listed[k]]
    <3>1. IsFiniteSet(hits)
        BY <1>3, FS_Subset
    <3>2. f \in Injection(F, hits)
        BY <1>6, <2>3 DEF Injection, IsInjective
    <3>3. f \in Surjection(F, hits)
      <4>1. \A i \in hits : \E k \in F : listed[k] = i
          BY <2>4, <1>h
      <4> QED BY <1>6, <4>1 DEF Surjection
    <3> QED BY <3>1, <3>2, <3>3, FS_Injection DEF n
  <2>6. \A k, l \in 1..m : k < l => Newer(rows, ids[k], ids[l])
    <3> TAKE k, l \in 1..m
    <3> HAVE k < l
    <3>1. k \in 1..n /\ l \in 1..n
        BY <1>8, <1>5
    <3>2. t[k] < t[l] /\ t[k] \in 1..Len(listed) /\ t[l] \in 1..Len(listed)
        BY <3>1, <1>5, <1>6
    <3> QED BY <3>2, <2>2, <1>10
  <2>7. ASSUME NEW i \in hits
        PROVE  (\E k \in 1..m : ids[k] = i) \/ \A k \in 1..m : Newer(rows, ids[k], i)
    <3>1. PICK p \in 1..Len(listed) : listed[p] = i
        BY <2>4
    <3>2. p \in F
        BY <3>1, <1>h
    <3>3. PICK q \in 1..n : t[q] = p
        BY <3>2, <1>5
    <3>4. CASE q <= m
      <4>1. q \in 1..m
          BY <3>3, <3>4, <1>8, <1>5
      <4> QED BY <4>1, <3>1, <3>3, <1>10
    <3>5. CASE q > m
      <4> SUFFICES ASSUME NEW k \in 1..m PROVE Newer(rows, ids[k], i)
          OBVIOUS
      <4>1. k \in 1..n /\ k < q
          BY <3>5, <1>8, <1>5
      <4>2. t[k] < t[q] /\ t[k] \in 1..Len(listed)
          BY <4>1, <1>5, <1>6
      <4> QED BY <4>2, <3>1, <3>3, <2>2, <1>10
    <3> QED BY <3>4, <3>5, <1>8, <1>5
  <2>8. {ids[k] : k \in DOMAIN ids} \subseteq hits
    <3> SUFFICES ASSUME NEW k \in 1..m PROVE ids[k] \in hits
        BY <1>10
    <3> QED BY <1>10, <1>6
  <2>9. Len(ids) = IF Cardinality(hits) < limit THEN Cardinality(hits) ELSE limit
      BY <1>10, <2>5
  <2> HIDE DEF hits, m
  <2> QED BY <2>6, <2>7, <2>8, <2>9, <1>10 DEF Lists
<1>12. ids \in Seq(Ids)
    BY <1>10, <1>3
<1> QED BY <1>11, <1>12 DEF ids, S

-----------------------------------------------------------------------------
(* The survivors of a batch.                                                *)

LEMMA LeastPlace ==
    ASSUME NEW S \in SUBSET Nat, S # {}
    PROVE  \E m \in S : \A n \in S : m <= n
<1>1. \E m \in S : \A n \in S : <<n, m>> \notin OpToRel(<, Nat)
    BY NatLessThanWellFounded, WFMin, Zenon
<1>2. \E m \in S : \A n \in S : ~(n < m)
    BY <1>1 DEF OpToRel
<1> QED BY <1>2

\* What a reconciliation returns names each surviving input once, in the order
\* in which they were first sent, however often the batch repeats one.
THEOREM SurvivorsNamed ==
    ASSUME NEW rows \in Rows, NEW batch \in Seq(Envelopes)
    PROVE  LET named == Filtered(batch, {k \in DOMAIN batch :
                                            /\ FirstOf(batch, k)
                                            /\ rows[batch[k].id] # None})
               ids == [k \in DOMAIN named |-> named[k].id]
           IN  NamesSurvivors(ids, batch, rows) /\ ids \in Seq(Ids)
<1> DEFINE places == {k \in DOMAIN batch : FirstOf(batch, k) /\ rows[batch[k].id] # None}
           named == Filtered(batch, places)
           ids == [k \in DOMAIN named |-> named[k].id]
           t == OrderBy(places, Ascending(places))
           m == Cardinality(places)
           n == Len(batch)
           first(i) == CHOOSE k \in Of(batch, i) : \A l \in Of(batch, i) : k <= l
<1>1. n \in Nat /\ DOMAIN batch = 1..n /\ \A k \in 1..n : batch[k] \in Envelopes
    OBVIOUS
<1>2. \A e \in Envelopes : e.id \in Ids
    BY ContractAssumption
<1>3. places \in SUBSET (1..n)
    BY <1>1
<1>a. ASSUME NEW k \in places
      PROVE  FirstOf(batch, k) /\ rows[batch[k].id] # None
    OBVIOUS
<1>b. ASSUME NEW k \in 1..n, FirstOf(batch, k), rows[batch[k].id] # None
      PROVE  k \in places
    BY <1>1, <1>b
<1>c. ids = [k \in DOMAIN named |-> named[k].id]
    OBVIOUS
<1>d. named = Filtered(batch, places)
    OBVIOUS
<1> HIDE DEF n, places, named, ids
<1>4. /\ m \in Nat /\ t \in [1..m -> places]
      /\ \A k, l \in 1..m : k < l => t[k] < t[l]
      /\ \A p \in places : \E k \in 1..m : t[k] = p
      /\ named = [k \in 1..m |-> batch[t[k]]]
  <2>1. n \in Nat
      BY <1>1
  <2>2. Ascends(t, places)
      BY <2>1, <1>3, FilteredLists
  <2> HIDE DEF t
  <2>3. named = [k \in 1..m |-> batch[t[k]]]
      BY <1>d DEF Filtered, t
  <2> QED BY <2>2, <2>3 DEF Ascends
<1> HIDE DEF t, m
<1>5. /\ DOMAIN ids = 1..m
      /\ \A k \in 1..m : ids[k] = batch[t[k]].id /\ t[k] \in places /\ t[k] \in 1..n
    BY <1>3, <1>4, <1>c
<1>6. \A k \in 1..m : ids[k] \in Ids
    BY <1>1, <1>2, <1>5
<1>7. ids \in Seq(Ids)
  <2>1. ids \in [1..m -> Ids]
      BY <1>4, <1>5, <1>6, <1>c
  <2> QED BY <2>1, <1>4
<1>8. ASSUME NEW k \in places
      PROVE  first(batch[k].id) = k
  <2>1. k \in Of(batch, batch[k].id)
      BY <1>1, <1>3 DEF Of
  <2>2. \A l \in Of(batch, batch[k].id) : k <= l
    <3> TAKE l \in Of(batch, batch[k].id)
    <3>1. l \in 1..n /\ k \in 1..n /\ batch[l].id = batch[k].id
        BY <1>1, <1>3 DEF Of
    <3>2. ~(l \in 1..(k - 1))
        BY <3>1, <1>a DEF FirstOf
    <3> QED BY <3>1, <3>2, <1>1
  <2>3. \A l \in Of(batch, batch[k].id) : l \in Int /\ k \in Int
      BY <1>1, <1>3 DEF Of
  <2> QED BY <2>1, <2>2, <2>3
<1> HIDE DEF first
<1>9. \A k, l \in 1..m : k < l => first(ids[k]) < first(ids[l])
  <2>1. \A k \in 1..m : first(ids[k]) = t[k]
    <3> SUFFICES ASSUME NEW k \in 1..m PROVE first(ids[k]) = t[k]
        OBVIOUS
    <3>1. ids[k] = batch[t[k]].id /\ t[k] \in places
        BY <1>5
    <3> QED BY <1>8, <3>1
  <2> QED BY <1>4, <2>1
<1>10. ASSUME NEW i \in Present(rows), Of(batch, i) # {}
       PROVE  \E k \in 1..m : ids[k] = i
  <2> DEFINE O == Of(batch, i)
  <2>1. O \subseteq 1..n
      BY <1>1 DEF Of
  <2>2. PICK p \in O : \A l \in O : p <= l
    <3>1. O \in SUBSET Nat /\ O # {}
        BY <1>10, <2>1, <1>1
    <3> QED BY <3>1, LeastPlace
  <2>3. p \in 1..n /\ batch[p].id = i
      BY <2>1, <2>2 DEF Of
  <2>4. FirstOf(batch, p)
    <3> SUFFICES ASSUME NEW l \in 1..(p - 1), batch[l].id = i PROVE FALSE
        BY <2>3 DEF FirstOf
    <3>1. l \in 1..n /\ l < p
        BY <2>3, <1>1
    <3>2. l \in O
        BY <3>1, <1>1 DEF Of
    <3>3. p <= l
        BY <2>2, <3>2
    <3> QED BY <3>1, <3>3, <2>3
  <2>5. p \in places
      BY <2>3, <2>4, <1>b DEF Present
  <2> QED BY <2>5, <2>3, <1>4, <1>5
<1>11. ASSUME NEW k \in 1..m
       PROVE  ids[k] \in Present(rows) /\ Of(batch, ids[k]) # {}
    BY <1>1, <1>5, <1>6, <1>a DEF Present, Of
<1>12. {ids[k] : k \in DOMAIN ids} = {i \in Present(rows) : Of(batch, i) # {}}
    BY <1>5, <1>10, <1>11
<1>13. NamesSurvivors(ids, batch, rows)
    BY <1>5, <1>9, <1>12 DEF NamesSurvivors, first
<1> QED BY <1>7, <1>13 DEF ids, named, places

-----------------------------------------------------------------------------
(* What a batch of snapshots makes of the rows.                             *)

LEMMA LastPlace ==
    ASSUME NEW n \in Nat, NEW S \in SUBSET (1..n), S # {}
    PROVE  \E m \in S : \A k \in S : k <= m
<1> DEFINE T == {n - k : k \in S}
<1>1. T \in SUBSET Nat /\ T # {}
  <2>1. \A k \in S : n - k \in Nat
      OBVIOUS
  <2>2. PICK k \in S : TRUE
      OBVIOUS
  <2>3. n - k \in T
      OBVIOUS
  <2> QED BY <2>1, <2>3
<1>2. PICK t \in T : \A u \in T : t <= u
  <2> HIDE DEF T
  <2> QED BY <1>1, LeastPlace
<1>3. PICK m \in S : t = n - m
    OBVIOUS
<1>4. \A k \in S : n - m <= n - k
    BY <1>2, <1>3
<1> QED BY <1>4

EnvelopeFields(e) ==
    /\ e.id \in Ids /\ e.thread \in Threads /\ e.received \in Nat
    /\ e.hits \in BOOLEAN /\ e.unread \in BOOLEAN

LEMMA EnvelopeTyped == \A e \in Envelopes : EnvelopeFields(e)
BY ContractAssumption DEF EnvelopeFields

\* What a message becomes that some snapshots were sent of.
MergedRow(rows, batch, i) ==
    LET last == CHOOSE k \in Of(batch, i) : \A n \in Of(batch, i) : n <= k
    IN  [thread |-> batch[last].thread, received |-> batch[last].received,
         hits |-> batch[last].hits,
         unread |-> /\ rows[i] # None => rows[i].unread
                    /\ \A k \in Of(batch, i) : batch[k].unread,
         content |-> IF rows[i] = None THEN None ELSE rows[i].content]

LEMMA MergedRows ==
    ASSUME NEW rows, NEW batch, NEW i \in Ids
    PROVE  Merged(rows, batch)[i] = IF Of(batch, i) = {} THEN rows[i] ELSE MergedRow(rows, batch, i)
BY DEF Merged, MergedRow

LEMMA MergedType ==
    ASSUME NEW rows \in Rows, NEW batch \in Seq(Envelopes)
    PROVE  /\ Merged(rows, batch) \in Rows
           /\ \A i \in Ids : Of(batch, i) # {} => MergedRow(rows, batch, i) \in Message
<1> DEFINE n == Len(batch)
           last(i) == CHOOSE k \in Of(batch, i) : \A l \in Of(batch, i) : l <= k
<1>1. n \in Nat /\ DOMAIN batch = 1..n /\ \A k \in 1..n : batch[k] \in Envelopes
    OBVIOUS
<1> HIDE DEF n
<1>2. ASSUME NEW i \in Ids, Of(batch, i) # {}
      PROVE  MergedRow(rows, batch, i) \in Message
  <2>1. Of(batch, i) \in SUBSET (1..n)
      BY <1>1 DEF Of
  <2>2. \E k \in Of(batch, i) : \A l \in Of(batch, i) : l <= k
      BY <1>1, <1>2, <2>1, LastPlace
  <2>3. last(i) \in Of(batch, i)
      BY <2>2
  <2>4. EnvelopeFields(batch[last(i)])
      BY <1>1, <2>1, <2>3, EnvelopeTyped
  <2>5. (IF rows[i] = None THEN None ELSE rows[i].content) \in Bodies \cup {None}
      BY DEF Rows, Message
  <2> QED BY <2>4, <2>5 DEF MergedRow, Message, EnvelopeFields
<1>3. \A i \in Ids : Merged(rows, batch)[i] \in Message \cup {None}
    BY <1>2, MergedRows DEF Rows
<1>4. Merged(rows, batch) \in Rows
    BY <1>3 DEF Rows, Merged
<1> QED BY <1>2, <1>4

\* Nothing sent, nothing changed.
LEMMA MergedNothing ==
    ASSUME NEW rows \in Rows
    PROVE  Merged(rows, <<>>) = rows
<1>1. \A i \in Ids : Of(<<>>, i) = {}
    BY DEF Of
<1>2. \A i \in Ids : Merged(rows, <<>>)[i] = rows[i]
    BY <1>1, MergedRows
<1> QED BY <1>2 DEF Merged, Rows

\* The upsert of one more snapshot makes of the rows what the longer batch does:
\* the snapshot is the last of its message so far, a read message stays read and
\* a body stays where it is.
THEOREM MergedOneMore ==
    ASSUME NEW rows \in Rows, NEW batch \in Seq(Envelopes), NEW envelope \in Envelopes
    PROVE  WriteEnvelope(Merged(rows, batch), envelope, None) = Merged(rows, Append(batch, envelope))
<1> DEFINE more == Append(batch, envelope)
           n == Len(batch)
           e == envelope.id
           last(b, i) == CHOOSE k \in Of(b, i) : \A l \in Of(b, i) : l <= k
           R == Merged(rows, batch)
           W == WriteEnvelope(R, envelope, None)
<1>1. /\ n \in Nat /\ DOMAIN batch = 1..n /\ DOMAIN more = 1..(n + 1)
      /\ more[n + 1] = envelope /\ \A k \in 1..n : more[k] = batch[k]
    OBVIOUS
<1>2. EnvelopeFields(envelope) /\ e \in Ids
    BY EnvelopeTyped DEF EnvelopeFields
<1>t. R \in Rows /\ more \in Seq(Envelopes)
    BY MergedType
<1> HIDE DEF more, n
<1>3. /\ \A i \in Ids \ {e} : Of(more, i) = Of(batch, i)
      /\ Of(more, e) = Of(batch, e) \cup {n + 1}
      /\ \A i \in Ids : Of(batch, i) \subseteq 1..n
    BY <1>1 DEF Of
<1>4. last(more, e) = n + 1
  <2>1. n + 1 \in Of(more, e) /\ \A l \in Of(more, e) : l <= n + 1
      BY <1>1, <1>2, <1>3
  <2>2. \A k \in Of(more, e) : k \in Int
      BY <1>1, <1>2, <1>3
  <2> QED BY <2>1, <2>2, <1>1
<1>5. \A i \in Ids \ {e} : Merged(rows, more)[i] = W[i]
  <2> TAKE i \in Ids \ {e}
  <2>1. Of(more, i) = Of(batch, i) /\ Of(batch, i) \subseteq 1..n
      BY <1>3
  <2>2. W[i] = R[i]
      BY <1>2, <1>t DEF WriteEnvelope, Rows
  <2>3. CASE Of(batch, i) = {}
      BY <2>1, <2>2, <2>3, MergedRows
  <2>4. CASE Of(batch, i) # {}
    <3> DEFINE l == last(batch, i)
    <3>1. \E k \in Of(batch, i) : \A m \in Of(batch, i) : m <= k
        BY <2>1, <2>4, <1>1, LastPlace
    <3>2. l \in Of(batch, i)
        BY <3>1
    <3>3. more[l] = batch[l] /\ \A k \in Of(batch, i) : more[k] = batch[k]
        BY <3>2, <2>1, <1>1
    <3>4. MergedRow(rows, more, i) = MergedRow(rows, batch, i)
        BY <2>1, <3>3 DEF MergedRow
    <3> QED BY <2>1, <2>2, <2>4, <3>4, MergedRows
  <2> QED BY <2>3, <2>4
<1>6. Merged(rows, more)[e] = MergedRow(rows, more, e)
    BY <1>2, <1>3, MergedRows
<1>7. MergedRow(rows, more, e) = RowOf(envelope,
              /\ rows[e] # None => rows[e].unread
              /\ envelope.unread
              /\ \A k \in Of(batch, e) : batch[k].unread,
              IF rows[e] = None THEN None ELSE rows[e].content)
  <2>1. (\A k \in Of(more, e) : more[k].unread)
            <=> envelope.unread /\ \A k \in Of(batch, e) : batch[k].unread
      BY <1>1, <1>2, <1>3
  <2>2. more[last(more, e)] = envelope
      BY <1>1, <1>4
  <2> HIDE DEF last
  <2> QED BY <2>1, <2>2 DEF MergedRow, RowOf, last
<1>8. W[e] = IF R[e] = None THEN RowOf(envelope, envelope.unread, None)
             ELSE RowOf(envelope, R[e].unread /\ envelope.unread, R[e].content)
    BY <1>2, <1>t DEF WriteEnvelope, Rows, Unread
<1>9. W[e] = Merged(rows, more)[e]
  <2>1. CASE Of(batch, e) = {}
    <3>1. R[e] = rows[e]
        BY <2>1, <1>2, MergedRows
    <3>2. rows[e] # None => rows[e].unread \in BOOLEAN
        BY <1>2 DEF Rows, Message
    <3> QED BY <3>1, <3>2, <2>1, <1>2, <1>6, <1>7, <1>8 DEF RowOf, EnvelopeFields
  <2>2. CASE Of(batch, e) # {}
    <3>1. R[e] = MergedRow(rows, batch, e) /\ R[e] \in Message
        BY <2>2, <1>2, MergedRows, MergedType
    <3>2. R[e] # None
        BY <3>1, AbsentAssumption
    <3>3. /\ R[e].unread <=> /\ rows[e] # None => rows[e].unread
                             /\ \A k \in Of(batch, e) : batch[k].unread
          /\ R[e].content = IF rows[e] = None THEN None ELSE rows[e].content
        BY <3>1 DEF MergedRow
    <3> QED BY <3>2, <3>3, <1>6, <1>7, <1>8 DEF RowOf
  <2> QED BY <2>1, <2>2
<1>10. W \in [Ids -> Message \cup {None}] /\ Merged(rows, more) \in Rows
  <2>1. Merged(rows, more) \in Rows
      BY <1>t, MergedType
  <2>2. W[e] \in Message \cup {None}
      BY <2>1, <1>9, <1>2 DEF Rows
  <2> QED BY <2>1, <2>2, <1>t DEF WriteEnvelope, Rows
<1>11. W = Merged(rows, more)
    BY <1>5, <1>9, <1>10 DEF Rows
<1> QED BY <1>11 DEF more

-----------------------------------------------------------------------------
(* The inductive invariant: what a transaction has done to its image is    *)
(* what the call promises, as far as its statements have run.              *)

Ok == [kind |-> "ok", ids |-> <<>>, content |-> None]
WithRows(rows) == [disk EXCEPT !.rows = rows]
Empty == [i \in Ids |-> None]

AnswerKinds ==
    MailboxStoreError
        \cup {"nothing", "ok", "survivors", "cached", "absent", "inbox", "thread", "search", "message",
              "identity", "binding", "recovery", "freshness"}

WorkType ==
    [steps : Seq(StatementNames), image : Tables, batch : Batches, left : Seq(Envelopes),
     content : Bodies \cup {None}, keep : StoreLimit, fence : Identities \cup {None},
     fresh : Identities \cup {None},
     answer : [kind : AnswerKinds, ids : Seq(Ids), content : {None}]]

\* Some of the batch is in the image, and the rest is to be written.
Writing(tail) ==
    \E done \in Seq(Envelopes) :
        /\ work.batch = done \o work.left
        /\ work.steps = Writes(work.left) \o tail
        /\ work.image = WithRows(Merged(disk.rows, done))
        /\ work.content = None /\ work.answer = Ok

Upserting == Writing(<<"commit">>)

Kept == WithRows(Newest(Merged(disk.rows, work.batch), work.keep))

NamedAs(image) ==
    /\ work.image = image
    /\ work.answer.kind = "survivors" /\ work.answer.content = None
    /\ NamesSurvivors(work.answer.ids, work.batch, image.rows)

Reconciling ==
    /\ work.fence \in Identities
    /\ \/ Writing(<<"prune", "survivors", "fence", "commit">>)
       \/ work.steps = <<"survivors", "fence", "commit">> /\ work.image = Kept /\ work.answer = Ok
       \/ work.steps = <<"fence", "commit">> /\ NamedAs(Kept)
       \/ work.steps = <<"commit">> /\ NamedAs(Kept) /\ disk.identity = work.fence

WithBody(envelope) ==
    WithRows([Merged(disk.rows, <<envelope>>) EXCEPT ![envelope.id].content = work.content])

Putting ==
    \E envelope \in Envelopes :
        /\ work.batch = <<envelope>> /\ work.content \in Bodies /\ work.answer = Ok
        /\ \/ /\ work.steps = <<"write", "commit">>
              /\ work.left = <<envelope>> /\ work.image = disk
           \/ work.steps = <<"commit">> /\ work.image = WithBody(envelope)

CachedAs(envelope) ==
    IF disk.rows[envelope.id] = None
    THEN work.image = disk /\ work.answer = [Ok EXCEPT !.kind = "absent"]
    ELSE work.image = WithBody(envelope) /\ work.answer = [Ok EXCEPT !.kind = "cached"]

Caching ==
    \E envelope \in Envelopes :
        /\ work.batch = <<envelope>> /\ work.content \in Bodies /\ work.fence \in Identities
        /\ work.left = <<envelope>>
        /\ \/ /\ work.steps = <<"update", "fence", "commit">>
              /\ work.image = disk /\ work.answer = Ok
           \/ work.steps = <<"fence", "commit">> /\ CachedAs(envelope)
           \/ work.steps = <<"commit">> /\ CachedAs(envelope) /\ disk.identity = work.fence

Cleared == IF work.fence = None THEN disk ELSE [disk EXCEPT !.rows = Empty, !.freshness = None]

Recording ==
    /\ work.fresh \in Identities /\ work.answer = Ok
    /\ \/ /\ work.steps =
                  IF work.fence = None THEN <<"expected", "insertIdentity", "commit">>
                  ELSE <<"expected", "deleteMessages", "clearFreshness", "insertIdentity", "commit">>
          /\ work.image = disk
       \/ /\ disk.identity = work.fence
          /\ \/ /\ work.steps = <<"deleteMessages", "clearFreshness", "insertIdentity", "commit">>
                /\ work.fence # None /\ work.image = disk
             \/ /\ work.steps = <<"clearFreshness", "insertIdentity", "commit">>
                /\ work.fence # None /\ work.image = WithRows(Empty)
             \/ work.steps = <<"insertIdentity", "commit">> /\ work.image = Cleared
             \/ work.steps = <<"commit">> /\ work.image = [Cleared EXCEPT !.identity = work.fresh]

Purging ==
    /\ work.answer = Ok
    /\ \/ /\ work.steps = <<"deleteMessages", "deleteIdentity", "clearBinding", "clearFreshness", "commit">>
          /\ work.image = disk
       \/ /\ work.steps = <<"deleteIdentity", "clearBinding", "clearFreshness", "commit">>
          /\ work.image = WithRows(Empty)
       \/ /\ work.steps = <<"clearBinding", "clearFreshness", "commit">>
          /\ work.image = [disk EXCEPT !.rows = Empty, !.identity = None]
       \/ /\ work.steps = <<"clearFreshness", "commit">>
          /\ work.image = [disk EXCEPT !.rows = Empty, !.identity = None, !.binding = FALSE]
       \/ /\ work.steps = <<"commit">>
          /\ work.image = [disk EXCEPT !.rows = Empty, !.identity = None, !.binding = FALSE,
                                       !.freshness = None]

Holds == work \in WorkType /\ Len(work.left) <= Len(work.batch)

Running == Upserting \/ Reconciling \/ Putting \/ Caching \/ Recording \/ Purging

ReturnedOK ==
    /\ returned.kind \in AnswerKinds
    /\ \A k \in DOMAIN returned.ids : returned.ids[k] \in Ids
    /\ returned.kind \in {"identity", "binding", "recovery", "freshness"}
          \/ returned.content \in Bodies \cup {None}

IInv ==
    /\ disk \in Tables /\ ReturnedOK
    /\ work # NoWork => Holds /\ Running

-----------------------------------------------------------------------------
(* Statements one after the other.                                          *)

LEMMA WritesTyped ==
    ASSUME NEW left \in Seq(Envelopes)
    PROVE  /\ Writes(left) \in Seq(StatementNames) /\ Len(Writes(left)) = Len(left)
           /\ \A k \in 1..Len(left) : Writes(left)[k] = "write"
<1>1. Writes(left) = [k \in 1..Len(left) |-> "write"]
    BY DEF Writes
<1>2. "write" \in StatementNames
    BY DEF StatementNames
<1>3. Writes(left) \in [1..Len(left) -> StatementNames]
    BY <1>1, <1>2
<1> QED BY <1>1, <1>3

\* What r is when it is s followed by t.
IsJoined(r, s, t) ==
    /\ r \in Seq(StatementNames) /\ Len(r) = Len(s) + Len(t)
    /\ \A i \in 1..(Len(s) + Len(t)) : r[i] = IF i <= Len(s) THEN s[i] ELSE t[i - Len(s)]

LEMMA Joined ==
    ASSUME NEW s \in Seq(StatementNames), NEW t \in Seq(StatementNames)
    PROVE  IsJoined(s \o t, s, t)
BY DEF IsJoined

\* The head and the rest of what is joined.
LEMMA JoinedRest ==
    ASSUME NEW r, NEW s \in Seq(StatementNames), NEW t \in Seq(StatementNames),
           NEW v \in Seq(StatementNames), NEW q,
           IsJoined(r, s, t), IsJoined(q, v, t), Len(s) = Len(v) + 1,
           \A k \in 1..Len(s) : s[k] = "write", \A k \in 1..Len(v) : v[k] = "write"
    PROVE  r # <<>> /\ Head(r) = "write" /\ Tail(r) = q
<1>1. /\ Len(s) \in Nat /\ Len(t) \in Nat /\ Len(v) \in Nat
      /\ r \in Seq(StatementNames) /\ q \in Seq(StatementNames)
      /\ Len(r) = Len(s) + Len(t) /\ Len(q) = Len(v) + Len(t)
    BY DEF IsJoined
<1>2. \A i \in 1..Len(s) : i \in 1..(Len(s) + Len(t)) /\ r[i] = "write"
    BY <1>1 DEF IsJoined
<1>3. r # <<>> /\ Head(r) = "write"
    BY <1>1, <1>2
<1>4. Tail(r) \in Seq(StatementNames) /\ Len(Tail(r)) = Len(q)
    BY <1>1, <1>3
<1>5. \A k \in 1..Len(q) : Tail(r)[k] = r[k + 1]
    BY <1>1, <1>3
<1>6. \A k \in 1..Len(q) : r[k + 1] = q[k]
  <2> SUFFICES ASSUME NEW k \in 1..Len(q)
               PROVE  r[k + 1] = q[k]
      OBVIOUS
  <2>1. CASE k <= Len(v)
    <3>1. k \in 1..Len(v) /\ k + 1 \in 1..Len(s)
        BY <1>1, <2>1
    <3>2. q[k] = "write"
        BY <1>1, <2>1, <3>1 DEF IsJoined
    <3> QED BY <1>2, <3>1, <3>2
  <2>2. CASE ~ (k <= Len(v))
    <3>1. k + 1 \in 1..(Len(s) + Len(t)) /\ ~ (k + 1 <= Len(s)) /\ k + 1 - Len(s) = k - Len(v)
        BY <1>1, <2>2
    <3>2. r[k + 1] = t[k + 1 - Len(s)]
        BY <3>1 DEF IsJoined
    <3>3. q[k] = t[k - Len(v)]
        BY <1>1, <2>2 DEF IsJoined
    <3> QED BY <3>1, <3>2, <3>3
  <2> QED BY <2>1, <2>2
<1>7. Tail(r) = q
  <2>1. \A k \in 1..Len(q) : Tail(r)[k] = q[k]
      BY <1>5, <1>6
  <2> DEFINE a == Tail(r)
  <2>2. a \in Seq(StatementNames) /\ Len(a) = Len(q) /\ \A k \in 1..Len(q) : a[k] = q[k]
      BY <1>4, <2>1
  <2>3. a = q
    <3> HIDE DEF a
    <3> QED BY <1>1, <2>2
  <2> QED BY <2>3
<1> QED BY <1>3, <1>7

LEMMA WritesFirst ==
    ASSUME NEW left \in Seq(Envelopes), NEW tail \in Seq(StatementNames)
    PROVE  /\ Writes(left) \o tail \in Seq(StatementNames)
           /\ left = <<>> => Writes(left) \o tail = tail
           /\ left # <<>> => /\ Writes(left) \o tail # <<>>
                             /\ Head(Writes(left) \o tail) = "write"
                             /\ Tail(Writes(left) \o tail) = Writes(Tail(left)) \o tail
<1>1. Writes(left) \in Seq(StatementNames)
    BY WritesTyped
<1>2. IsJoined(Writes(left) \o tail, Writes(left), tail)
    BY <1>1, Joined, Zenon
<1>3. Writes(left) \o tail \in Seq(StatementNames)
    BY <1>2, Zenon DEF IsJoined
<1>4. CASE left = <<>>
  <2>1. Writes(left) = <<>>
      BY <1>4 DEF Writes
  <2> QED BY <2>1, <1>3, <1>4
<1>5. CASE left # <<>>
  <2>1. Tail(left) \in Seq(Envelopes) /\ Len(left) = Len(Tail(left)) + 1
      BY <1>5
  <2>2. /\ Writes(Tail(left)) \in Seq(StatementNames)
        /\ Len(Writes(Tail(left))) = Len(Tail(left))
        /\ \A k \in 1..Len(Tail(left)) : Writes(Tail(left))[k] = "write"
      BY <2>1, WritesTyped, Zenon
  <2>3. Len(Writes(left)) = Len(left) /\ \A k \in 1..Len(left) : Writes(left)[k] = "write"
      BY WritesTyped, Zenon
  <2>4. IsJoined(Writes(Tail(left)) \o tail, Writes(Tail(left)), tail)
      BY <2>2, Joined, Zenon
  <2>5. /\ Len(Writes(left)) = Len(Writes(Tail(left))) + 1
        /\ \A k \in 1..Len(Writes(left)) : Writes(left)[k] = "write"
        /\ \A k \in 1..Len(Writes(Tail(left))) : Writes(Tail(left))[k] = "write"
      BY <2>1, <2>2, <2>3, Zenon
  <2>6. /\ Writes(left) \o tail # <<>>
        /\ Head(Writes(left) \o tail) = "write"
        /\ Tail(Writes(left) \o tail) = Writes(Tail(left)) \o tail
      BY <1>1, <1>2, <2>2, <2>4, <2>5, JoinedRest, Zenon
  <2> QED BY <1>3, <1>5, <2>6
<1> QED BY <1>4, <1>5

LEMMA BatchParts ==
    ASSUME NEW done \in Seq(Envelopes), NEW left \in Seq(Envelopes)
    PROVE  /\ left = <<>> => done \o left = done
           /\ left # <<>> => /\ Append(done, Head(left)) \in Seq(Envelopes)
                             /\ Append(done, Head(left)) \o Tail(left) = done \o left
                             /\ Head(left) \in Envelopes /\ Tail(left) \in Seq(Envelopes)
                             /\ Len(Tail(left)) < Len(left)
<1>1. CASE left = <<>>
    BY <1>1
<1>2. CASE left # <<>>
  <2>1. Head(left) \in Envelopes /\ Tail(left) \in Seq(Envelopes) /\ Len(left) > 0
        /\ Len(Tail(left)) = Len(left) - 1 /\ Head(left) = left[1]
      BY <1>2
  <2>2. Append(done, Head(left)) \in Seq(Envelopes)
      BY <2>1
  <2> DEFINE a == Append(done, Head(left)) \o Tail(left)
             b == done \o left
  <2>3. a \in Seq(Envelopes) /\ b \in Seq(Envelopes) /\ Len(a) = Len(b)
      BY <2>1, <2>2
  <2>4. \A k \in 1..Len(a) : a[k] = b[k]
      BY <2>1, <2>2
  <2>5. a = b
      BY <2>3, <2>4
  <2> QED BY <1>2, <2>1, <2>2, <2>5
<1> QED BY <1>1, <1>2

LEMMA BatchesTyped == Batches \subseteq Seq(Envelopes)
BY ContractAssumption DEF Batches

-----------------------------------------------------------------------------
(* Each statement of a transaction either goes on with what the call        *)
(* promises or ends it with one step of the contract.                       *)

GoesOn == UNCHANGED <<disk, returned>> /\ Holds'
Ends == work' = NoWork /\ Next

LEMMA WritingGoesOn ==
    ASSUME disk \in Tables, Holds, work # NoWork, NEW tail \in Seq(StatementNames), Writing(tail),
           work.left # <<>>, Statement
    PROVE  /\ GoesOn /\ Writing(tail)'
           /\ work'.batch = work.batch /\ work'.keep = work.keep /\ work'.fence = work.fence
<1>1. PICK done \in Seq(Envelopes) :
          /\ work.batch = done \o work.left
          /\ work.steps = Writes(work.left) \o tail
          /\ work.image = WithRows(Merged(disk.rows, done))
          /\ work.content = None /\ work.answer = Ok
    BY DEF Writing
<1> DEFINE e == Head(work.left)
           more == Append(done, e)
<1>2. work \in WorkType /\ work.left \in Seq(Envelopes)
    BY DEF Holds, WorkType
<1>3. /\ work.steps # <<>> /\ Head(work.steps) = "write"
      /\ Next1 = Writes(Tail(work.left)) \o tail
  <2> DEFINE s == Writes(work.left) \o tail
  <2>1. s # <<>> /\ Head(s) = "write" /\ Tail(s) = Writes(Tail(work.left)) \o tail
      BY <1>2, WritesFirst
  <2>2. work.steps = s
      BY <1>1
  <2> QED BY <2>1, <2>2 DEF Next1
<1>4. /\ e \in Envelopes /\ Tail(work.left) \in Seq(Envelopes) /\ more \in Seq(Envelopes)
      /\ work.batch = more \o Tail(work.left)
      /\ Len(Tail(work.left)) < Len(work.left)
    BY <1>1, <1>2, BatchParts
<1> HIDE DEF e, more
<1>5. Write
    BY <1>3 DEF Statement, At, Write, Update, Prune, Survivors, CheckFence, CheckExpected,
                DeleteMessages, ClearFreshness, InsertIdentity, DeleteIdentity, ClearBinding, Commit
<1>6. disk.rows \in Rows /\ Merged(disk.rows, more) \in Rows
    BY <1>4, MergedType DEF Tables, Rows
<1>7. WriteEnvelope(work.image.rows, e, work.content) = Merged(disk.rows, more)
  <2>1. work.image.rows = Merged(disk.rows, done)
      BY <1>1 DEF WithRows, Tables
  <2> QED BY <1>1, <1>4, <1>6, <2>1, MergedOneMore DEF more
<1>8. /\ work' = [work EXCEPT !.image = WithRows(Merged(disk.rows, more)),
                              !.left = Tail(work.left), !.steps = Next1]
      /\ UNCHANGED <<disk, returned>>
  <2>1. [work.image EXCEPT !.rows = Merged(disk.rows, more)] = WithRows(Merged(disk.rows, more))
      BY <1>1 DEF WithRows, Tables
  <2> QED BY <1>2, <1>5, <1>7, <2>1 DEF Write, WorkType, e
<1>9. WithRows(Merged(disk.rows, more)) \in Tables
    BY <1>6 DEF WithRows, Tables, Rows
<1>10. Next1 \in Seq(StatementNames)
    BY <1>3, <1>4, WritesFirst
<1>11. Holds'
  <2>1. work' \in WorkType
      BY <1>2, <1>4, <1>8, <1>9, <1>10 DEF WorkType
  <2>2. Len(work'.left) <= Len(work'.batch)
      BY <1>2, <1>4, <1>8, BatchesTyped DEF WorkType, Holds
  <2> QED BY <2>1, <2>2, <1>8 DEF Holds, WorkType
<1>12. Writing(tail)'
  <2>1. /\ work'.batch = more \o work'.left
        /\ work'.steps = Writes(work'.left) \o tail
        /\ work'.image = WithRows(Merged(disk.rows, more))
        /\ work'.content = None /\ work'.answer = Ok
      BY <1>1, <1>2, <1>3, <1>4, <1>8 DEF WorkType
  <2>2. disk' = disk
      BY <1>8
  <2> QED BY <1>4, <2>1, <2>2 DEF Writing, WithRows
<1> QED BY <1>2, <1>8, <1>11, <1>12 DEF GoesOn, WorkType

LEMMA WritingIsDone ==
    ASSUME Holds, NEW tail \in Seq(StatementNames), Writing(tail), work.left = <<>>
    PROVE  /\ work.steps = tail
           /\ work.image = WithRows(Merged(disk.rows, work.batch))
           /\ work.content = None /\ work.answer = Ok
<1>1. PICK done \in Seq(Envelopes) :
          /\ work.batch = done \o work.left
          /\ work.steps = Writes(work.left) \o tail
          /\ work.image = WithRows(Merged(disk.rows, done))
          /\ work.content = None /\ work.answer = Ok
    BY DEF Writing
<1>2. work.batch = done
    BY <1>1, BatchParts
<1>3. work.steps = tail
  <2>1. Writes(work.left) \o tail = tail
      BY WritesFirst DEF Holds, WorkType
  <2> QED BY <1>1, <2>1
<1> QED BY <1>1, <1>2, <1>3

\* Every statement is one of those that are named.
LEMMA StatementAt ==
    ASSUME Statement, work # NoWork
    PROVE  /\ Head(work.steps) = "prune" => Prune
           /\ Head(work.steps) = "write" => Write
           /\ Head(work.steps) = "update" => Update
           /\ Head(work.steps) = "survivors" => Survivors
           /\ Head(work.steps) = "fence" => CheckFence
           /\ Head(work.steps) = "expected" => CheckExpected
           /\ Head(work.steps) = "deleteMessages" => DeleteMessages
           /\ Head(work.steps) = "clearFreshness" => ClearFreshness
           /\ Head(work.steps) = "insertIdentity" => InsertIdentity
           /\ Head(work.steps) = "deleteIdentity" => DeleteIdentity
           /\ Head(work.steps) = "clearBinding" => ClearBinding
           /\ Head(work.steps) = "commit" => Commit
BY DEF Statement, At, Write, Update, Prune, Survivors, CheckFence, CheckExpected,
       DeleteMessages, ClearFreshness, InsertIdentity, DeleteIdentity, ClearBinding, Commit

LEMMA UpsertStep ==
    ASSUME disk \in Tables, Holds, work # NoWork, Upserting, Statement
    PROVE  (GoesOn /\ Upserting') \/ Ends
<1>1. <<"commit">> \in Seq(StatementNames)
    BY DEF StatementNames
<1>2. CASE work.left # <<>>
    BY <1>1, <1>2, WritingGoesOn DEF Upserting
<1>3. CASE work.left = <<>>
  <2>1. /\ work.steps = <<"commit">>
        /\ work.image = WithRows(Merged(disk.rows, work.batch)) /\ work.answer = Ok
      BY <1>1, <1>3, WritingIsDone DEF Upserting
  <2>2. Commit
      BY <2>1, StatementAt
  <2>3. Upsert(work.batch) /\ work' = NoWork
      BY <2>1, <2>2 DEF Commit, Upsert, Answer, Ok, WithRows
  <2>4. work.batch \in Batches
      BY DEF Holds, WorkType
  <2> QED BY <2>3, <2>4 DEF Ends, Next
<1> QED BY <1>2, <1>3

LEMMA RunGoesOn ==
    ASSUME disk \in Tables, Holds, work # NoWork, NEW image \in Tables, Run(image),
           NEW rest \in Seq(StatementNames), Tail(work.steps) = rest
    PROVE  /\ GoesOn
           /\ work'.steps = rest /\ work'.image = image
           /\ work'.batch = work.batch /\ work'.left = work.left /\ work'.content = work.content
           /\ work'.keep = work.keep /\ work'.fence = work.fence /\ work'.fresh = work.fresh
           /\ work'.answer = work.answer
<1>1. work \in WorkType /\ work' = [work EXCEPT !.image = image, !.steps = rest]
      /\ UNCHANGED <<disk, returned>>
    BY DEF Holds, Run, Next1
<1>2. work' \in WorkType /\ Len(work'.left) <= Len(work'.batch)
    BY <1>1 DEF WorkType, Holds
<1> QED BY <1>1, <1>2 DEF GoesOn, Holds, WorkType

\* Every rest of the statements of a call is one.
LEMMA StepsTyped ==
    /\ <<"prune", "survivors", "fence", "commit">> \in Seq(StatementNames)
    /\ <<"survivors", "fence", "commit">> \in Seq(StatementNames)
    /\ <<"fence", "commit">> \in Seq(StatementNames)
    /\ <<"deleteMessages", "clearFreshness", "insertIdentity", "commit">> \in Seq(StatementNames)
    /\ <<"clearFreshness", "insertIdentity", "commit">> \in Seq(StatementNames)
    /\ <<"insertIdentity", "commit">> \in Seq(StatementNames)
    /\ <<"deleteIdentity", "clearBinding", "clearFreshness", "commit">> \in Seq(StatementNames)
    /\ <<"clearBinding", "clearFreshness", "commit">> \in Seq(StatementNames)
    /\ <<"clearFreshness", "commit">> \in Seq(StatementNames)
    /\ <<"commit">> \in Seq(StatementNames)
BY DEF StatementNames

LEMMA KeptTyped ==
    ASSUME disk \in Tables, Holds
    PROVE  /\ Kept \in Tables
           /\ Kept.rows = Newest(Merged(disk.rows, work.batch), work.keep)
           /\ Kept.identity = disk.identity
           /\ Merged(disk.rows, work.batch) \in Rows
<1>1. disk.rows \in Rows /\ work.batch \in Seq(Envelopes) /\ work.keep \in StoreLimit
    BY BatchesTyped DEF Tables, Rows, Holds, WorkType
<1>2. Merged(disk.rows, work.batch) \in Rows
    BY <1>1, MergedType
<1>3. Newest(Merged(disk.rows, work.batch), work.keep) \in Rows
    BY <1>1, <1>2, PruneKeepsNewest
<1> QED BY <1>2, <1>3 DEF Kept, WithRows, Tables, Rows

LEMMA ReconcileStep ==
    ASSUME disk \in Tables, Holds, work # NoWork, Reconciling, Statement
    PROVE  (GoesOn /\ Reconciling') \/ Ends
<1> DEFINE steps == <<"prune", "survivors", "fence", "commit">>
<1>1. /\ work \in WorkType /\ work.fence \in Identities /\ work.keep \in StoreLimit
      /\ work.batch \in Batches /\ work.batch \in Seq(Envelopes)
    BY BatchesTyped DEF Reconciling, Holds, WorkType
<1>2. CASE Writing(steps) /\ work.left # <<>>
  <2>1. GoesOn /\ Writing(steps)' /\ work'.fence = work.fence
      BY <1>2, StepsTyped, WritingGoesOn
  <2> QED BY <1>1, <2>1 DEF Reconciling
<1>3. CASE Writing(steps) /\ work.left = <<>>
  <2>1. /\ work.steps = steps
        /\ work.image = WithRows(Merged(disk.rows, work.batch)) /\ work.answer = Ok
      BY <1>3, StepsTyped, WritingIsDone
  <2>2. Prune /\ Tail(work.steps) = <<"survivors", "fence", "commit">>
      BY <2>1, StatementAt
  <2>3. Run(Kept)
    <3> DEFINE rows == work.image.rows
    <3>1. rows = Merged(disk.rows, work.batch)
        BY <2>1 DEF WithRows, Tables
    <3>2. [i \in Ids |-> IF i \in ToSet(ListEnvelopes(rows, work.keep)) THEN rows[i] ELSE None]
              = Newest(rows, work.keep)
        BY <1>1, <3>1, KeptTyped, PruneKeepsNewest
    <3>3. [work.image EXCEPT !.rows = Newest(rows, work.keep)] = Kept
        BY <2>1, <3>1 DEF Kept, WithRows, Tables
    <3> QED BY <2>2, <3>2, <3>3 DEF Prune
  <2>4. /\ GoesOn /\ work'.steps = <<"survivors", "fence", "commit">> /\ work'.image = Kept
        /\ work'.batch = work.batch /\ work'.keep = work.keep
        /\ work'.fence = work.fence /\ work'.answer = Ok
      BY <2>1, <2>2, <2>3, StepsTyped, KeptTyped, RunGoesOn
  <2> QED BY <1>1, <2>4 DEF Reconciling, GoesOn, Kept, WithRows, Ok
<1>4. CASE work.steps = <<"survivors", "fence", "commit">> /\ work.image = Kept /\ work.answer = Ok
  <2> DEFINE named == Filtered(work.batch, {k \in DOMAIN work.batch :
                                                /\ FirstOf(work.batch, k)
                                                /\ work.image.rows[work.batch[k].id] # None})
             ids == [k \in DOMAIN named |-> named[k].id]
  <2>1. Survivors /\ Next1 = <<"fence", "commit">>
      BY <1>4, StatementAt DEF Next1
  <2>2. work.image.rows \in Rows
      BY <1>1 DEF WorkType, Tables, Rows
  <2>3. NamesSurvivors(ids, work.batch, work.image.rows) /\ ids \in Seq(Ids)
      BY <1>1, <2>2, SurvivorsNamed
  <2>4. /\ work' = [work EXCEPT !.answer.kind = "survivors", !.answer.ids = ids, !.steps = Next1]
        /\ UNCHANGED <<disk, returned>>
      BY <2>1 DEF Survivors
  <2> HIDE DEF ids
  <2>5. /\ work'.answer = [kind |-> "survivors", ids |-> ids, content |-> None]
        /\ work' \in WorkType /\ work'.steps = <<"fence", "commit">>
        /\ work'.batch = work.batch /\ work'.keep = work.keep /\ work'.left = work.left
        /\ work'.fence = work.fence /\ work'.image = work.image
      BY <1>1, <1>4, <2>1, <2>3, <2>4, StepsTyped DEF WorkType, Ok, AnswerKinds
  <2>6. GoesOn
      BY <2>4, <2>5 DEF GoesOn, Holds
  <2>7. work'.image = Kept'
      BY <1>4, <2>4, <2>5 DEF Kept, WithRows
  <2>8. NamedAs(Kept)'
      BY <2>3, <2>5, <2>7 DEF NamedAs
  <2> QED BY <1>1, <2>5, <2>6, <2>8 DEF Reconciling
<1>5. CASE work.steps = <<"fence", "commit">> /\ NamedAs(Kept)
  <2>1. CheckFence /\ Tail(work.steps) = <<"commit">>
      BY <1>5, StatementAt
  <2>2. work.image = Kept /\ work.image.identity = disk.identity /\ work.image \in Tables
      BY <1>5, KeptTyped DEF NamedAs
  <2>3. CASE disk.identity = work.fence
    <3>1. Run(work.image)
        BY <2>1, <2>2, <2>3 DEF CheckFence
    <3>2. /\ GoesOn /\ work'.steps = <<"commit">> /\ work'.image = work.image
          /\ work'.batch = work.batch /\ work'.keep = work.keep
          /\ work'.fence = work.fence /\ work'.answer = work.answer
        BY <2>1, <2>2, <3>1, StepsTyped, RunGoesOn
    <3>3. disk' = disk /\ Kept' = Kept
        BY <3>2 DEF GoesOn, Kept, WithRows
    <3>4. NamedAs(Kept)'
        BY <1>5, <3>2, <3>3 DEF NamedAs
    <3> QED BY <1>1, <2>3, <3>2, <3>3, <3>4 DEF Reconciling
  <2>4. CASE disk.identity # work.fence
    <3>1. Reconcile(work.batch, work.keep, work.fence) /\ work' = NoWork
        BY <2>1, <2>2, <2>4 DEF CheckFence, Rollback, Reconcile
    <3> QED BY <1>1, <3>1 DEF Ends, Next
  <2> QED BY <2>3, <2>4
<1>6. CASE work.steps = <<"commit">> /\ NamedAs(Kept) /\ disk.identity = work.fence
  <2>1. Commit
      BY <1>6, StatementAt
  <2>2. /\ disk' = Kept /\ returned' = work.answer /\ work' = NoWork
        /\ work.answer.kind = "survivors" /\ work.answer.content = None
        /\ NamesSurvivors(work.answer.ids, work.batch, Kept.rows)
      BY <1>6, <2>1 DEF Commit, NamedAs
  <2>3. Reconcile(work.batch, work.keep, work.fence)
    <3> DEFINE rows == Newest(Merged(disk.rows, work.batch), work.keep)
    <3>1. disk' = [disk EXCEPT !.rows = rows] /\ NamesSurvivors(returned'.ids, work.batch, rows)
        BY <2>2, KeptTyped DEF Kept, WithRows
    <3>2. Listing("survivors")
        BY <2>2 DEF Listing
    <3> QED BY <1>6, <3>1, <3>2 DEF Reconcile
  <2> QED BY <1>1, <2>2, <2>3 DEF Ends, Next
<1> QED BY <1>2, <1>3, <1>4, <1>5, <1>6 DEF Reconciling

LEMMA PutRows ==
    ASSUME disk \in Tables, Holds, NEW envelope \in Envelopes, work.content \in Bodies
    PROVE  /\ [disk EXCEPT !.rows = WriteEnvelope(disk.rows, envelope, work.content)] = WithBody(envelope)
           /\ WithBody(envelope) \in Tables
           /\ WithBody(envelope).identity = disk.identity
<1> DEFINE e == envelope.id
           W == WriteEnvelope(disk.rows, envelope, work.content)
           N == WriteEnvelope(disk.rows, envelope, None)
<1>1. disk.rows \in Rows /\ EnvelopeFields(envelope) /\ e \in Ids
    BY EnvelopeTyped DEF Tables, Rows, EnvelopeFields
<1>2. Merged(disk.rows, <<envelope>>) = N /\ N \in Rows
  <2>1. Append(<<>>, envelope) = <<envelope>> /\ <<>> \in Seq(Envelopes) /\ <<envelope>> \in Seq(Envelopes)
      OBVIOUS
  <2>2. Merged(disk.rows, <<>>) = disk.rows
      BY <1>1, MergedNothing
  <2>3. WriteEnvelope(Merged(disk.rows, <<>>), envelope, None)
            = Merged(disk.rows, Append(<<>>, envelope))
      BY <1>1, <2>1, MergedOneMore
  <2>4. Merged(disk.rows, <<envelope>>) = N
      BY <2>1, <2>2, <2>3
  <2>5. Merged(disk.rows, <<envelope>>) \in Rows
      BY <1>1, <2>1, MergedType
  <2> QED BY <2>4, <2>5
<1>3. work.content # None
    BY ContractAssumption
<1>4. W = [N EXCEPT ![e].content = work.content]
  <2>1. \A i \in Ids \ {e} : W[i] = disk.rows[i] /\ N[i] = disk.rows[i]
      BY <1>1 DEF WriteEnvelope, Rows
  <2>2. W[e] = [N[e] EXCEPT !.content = work.content]
      BY <1>1, <1>3 DEF WriteEnvelope, Rows, RowOf, Unread
  <2>3. DOMAIN W = Ids /\ DOMAIN N = Ids
      BY <1>1 DEF WriteEnvelope, Rows
  <2>4. W = [i \in Ids |-> W[i]] /\ N = [i \in Ids |-> N[i]]
      BY <1>1 DEF WriteEnvelope, Rows
  <2> HIDE DEF W, N
  <2> QED BY <1>1, <2>1, <2>2, <2>3, <2>4
<1>5. W \in Rows
  <2>1. N[e] \in Message
      BY <1>1 DEF WriteEnvelope, Rows, RowOf, Unread, Message, EnvelopeFields
  <2>2. W[e] \in Message
    <3>1. W[e] = [N[e] EXCEPT !.content = work.content]
        BY <1>1, <1>2, <1>4 DEF Rows
    <3> HIDE DEF N, W
    <3> QED BY <2>1, <3>1 DEF Message
  <2> QED BY <1>1, <2>2 DEF WriteEnvelope, Rows
<1> HIDE DEF W, N
<1> QED BY <1>2, <1>4, <1>5 DEF WithBody, WithRows, Tables, Rows, W

LEMMA PutStep ==
    ASSUME disk \in Tables, Holds, work # NoWork, Putting, Statement
    PROVE  (GoesOn /\ Putting') \/ Ends
<1>1. work \in WorkType
    BY DEF Holds
<1>2. PICK envelope \in Envelopes :
          /\ work.batch = <<envelope>> /\ work.content \in Bodies /\ work.answer = Ok
          /\ \/ /\ work.steps = <<"write", "commit">>
                /\ work.left = <<envelope>> /\ work.image = disk
             \/ work.steps = <<"commit">> /\ work.image = WithBody(envelope)
    BY DEF Putting
<1>3. CASE /\ work.steps = <<"write", "commit">>
           /\ work.left = <<envelope>> /\ work.image = disk
  <2>1. /\ Write /\ Next1 = <<"commit">> /\ Head(work.left) = envelope
        /\ Tail(work.left) = <<>>
      BY <1>3, StatementAt DEF Next1
  <2>2. /\ work' = [work EXCEPT !.image = WithBody(envelope), !.left = <<>>, !.steps = <<"commit">>]
        /\ UNCHANGED <<disk, returned>>
    <3>1. [work.image EXCEPT !.rows = WriteEnvelope(work.image.rows, envelope, work.content)]
              = WithBody(envelope)
        BY <1>2, <1>3, PutRows
    <3> QED BY <1>1, <2>1, <3>1 DEF Write, WorkType
  <2>3. work' \in WorkType /\ Len(work'.left) <= Len(work'.batch)
    <3> DEFINE image == WithBody(envelope)
               steps == <<"commit">>
               left == <<>>
    <3>1. left \in Seq(Envelopes) /\ steps \in Seq(StatementNames) /\ image \in Tables
        BY <1>2, PutRows, StepsTyped
    <3>2. Len(left) = 0 /\ Len(work.batch) = 1
        BY <1>2
    <3>3. work' = [work EXCEPT !.image = image, !.left = left, !.steps = steps]
        BY <2>2
    <3> HIDE DEF image, steps, left
    <3>4. work' \in WorkType
        BY <1>1, <3>1, <3>3 DEF WorkType
    <3>5. work'.left = left /\ work'.batch = work.batch
        BY <1>1, <3>3 DEF WorkType
    <3> QED BY <3>2, <3>4, <3>5
  <2>4. Putting'
    <3>1. /\ work'.batch = <<envelope>> /\ work'.content \in Bodies /\ work'.answer = Ok
          /\ work'.steps = <<"commit">> /\ work'.image = WithBody(envelope)
          /\ work'.content = work.content /\ disk' = disk
        BY <1>1, <1>2, <2>2 DEF WorkType
    <3> QED BY <3>1 DEF Putting, WithBody, WithRows
  <2> QED BY <2>2, <2>3, <2>4 DEF GoesOn, Holds
<1>4. CASE work.steps = <<"commit">> /\ work.image = WithBody(envelope)
  <2>1. Commit
      BY <1>4, StatementAt
  <2>2. Put(envelope, work.content) /\ work' = NoWork
      BY <1>2, <1>4, <2>1 DEF Commit, Put, Answer, Ok, WithBody, WithRows
  <2> QED BY <1>2, <2>2 DEF Ends, Next
<1> QED BY <1>2, <1>3, <1>4

LEMMA CacheStep ==
    ASSUME disk \in Tables, Holds, work # NoWork, Caching, Statement
    PROVE  (GoesOn /\ Caching') \/ Ends
<1>1. work \in WorkType
    BY DEF Holds
<1>2. PICK envelope \in Envelopes :
          /\ work.batch = <<envelope>> /\ work.content \in Bodies /\ work.fence \in Identities
          /\ work.left = <<envelope>>
          /\ \/ /\ work.steps = <<"update", "fence", "commit">>
                /\ work.image = disk /\ work.answer = Ok
             \/ work.steps = <<"fence", "commit">> /\ CachedAs(envelope)
             \/ work.steps = <<"commit">> /\ CachedAs(envelope) /\ disk.identity = work.fence
    BY DEF Caching
<1>3. CASE work.steps = <<"update", "fence", "commit">> /\ work.image = disk /\ work.answer = Ok
  <2> DEFINE kind == IF disk.rows[envelope.id] = None THEN "absent" ELSE "cached"
             image == IF disk.rows[envelope.id] = None THEN disk ELSE WithBody(envelope)
  <2>1. Update /\ Next1 = <<"fence", "commit">> /\ Head(work.left) = envelope
      BY <1>2, <1>3, StatementAt DEF Next1
  <2>2. [disk EXCEPT !.rows = UpdateRow(disk.rows, envelope, work.content)] = image
      BY <1>2, PutRows DEF UpdateRow, Tables
  <2>3. image \in Tables
      BY <1>2, PutRows
  <2>4. /\ work' = [work EXCEPT !.image = image, !.answer.kind = kind, !.steps = <<"fence", "commit">>]
        /\ UNCHANGED <<disk, returned>>
      BY <1>1, <1>3, <2>1, <2>2 DEF Update, WorkType
  <2> HIDE DEF kind, image
  <2>5. /\ work' = [work EXCEPT !.image = image, !.answer = [Ok EXCEPT !.kind = kind],
                                !.steps = <<"fence", "commit">>]
      BY <1>1, <1>3, <2>4 DEF WorkType
  <2>6. work' \in WorkType /\ Len(work'.left) <= Len(work'.batch)
    <3> DEFINE answer == [Ok EXCEPT !.kind = kind]
               steps == <<"fence", "commit">>
    <3>1. answer \in [kind : AnswerKinds, ids : Seq(Ids), content : {None}]
      <4>1. kind \in AnswerKinds
          BY DEF AnswerKinds, kind
      <4>2. answer = [kind |-> kind, ids |-> <<>>, content |-> None]
          BY DEF Ok
      <4>3. <<>> \in Seq(Ids)
          OBVIOUS
      <4> QED BY <4>1, <4>2, <4>3
    <3>2. steps \in Seq(StatementNames)
        BY StepsTyped
    <3>3. work' = [work EXCEPT !.image = image, !.answer = answer, !.steps = steps]
        BY <2>5
    <3> HIDE DEF answer, steps
    <3>4. work' \in WorkType
        BY <1>1, <2>3, <3>1, <3>2, <3>3 DEF WorkType
    <3>5. work'.left = work.left /\ work'.batch = work.batch
        BY <1>1, <3>3 DEF WorkType
    <3>6. Len(work.left) <= Len(work.batch)
        BY DEF Holds
    <3> QED BY <3>4, <3>5, <3>6
  <2>7. Caching'
    <3>1. /\ work'.batch = <<envelope>> /\ work'.content \in Bodies /\ work'.fence \in Identities
          /\ work'.left = <<envelope>> /\ work'.steps = <<"fence", "commit">>
          /\ work'.image = image /\ work'.answer = [Ok EXCEPT !.kind = kind]
          /\ work'.content = work.content /\ disk' = disk
        BY <1>1, <1>2, <2>4, <2>5 DEF WorkType
    <3>2. CachedAs(envelope)'
        BY <3>1 DEF CachedAs, kind, image, WithBody, WithRows
    <3> QED BY <3>1, <3>2 DEF Caching
  <2> QED BY <2>4, <2>6, <2>7 DEF GoesOn, Holds
<1>4. ASSUME CachedAs(envelope)
      PROVE  work.image.identity = disk.identity /\ work.image \in Tables
    BY <1>2, <1>4, PutRows DEF CachedAs
<1>5. CASE work.steps = <<"fence", "commit">> /\ CachedAs(envelope)
  <2>1. CheckFence /\ Tail(work.steps) = <<"commit">>
      BY <1>5, StatementAt
  <2>2. CASE disk.identity = work.fence
    <3>1. Run(work.image)
        BY <1>4, <1>5, <2>1, <2>2 DEF CheckFence
    <3>2. /\ GoesOn /\ work'.steps = <<"commit">> /\ work'.image = work.image
          /\ work'.batch = work.batch /\ work'.left = work.left /\ work'.content = work.content
          /\ work'.fence = work.fence /\ work'.answer = work.answer
        BY <1>4, <1>5, <2>1, <3>1, StepsTyped, RunGoesOn
    <3>3. disk' = disk
        BY <3>2 DEF GoesOn
    <3>4. CachedAs(envelope)'
        BY <1>5, <3>2, <3>3 DEF CachedAs, WithBody, WithRows
    <3> QED BY <1>2, <2>2, <3>2, <3>3, <3>4 DEF Caching
  <2>3. CASE disk.identity # work.fence
    <3>1. Cache(envelope, work.content, work.fence) /\ work' = NoWork
        BY <1>4, <1>5, <2>1, <2>3 DEF CheckFence, Rollback, Cache
    <3> QED BY <1>2, <3>1 DEF Ends, Next
  <2> QED BY <2>2, <2>3
<1>6. CASE work.steps = <<"commit">> /\ CachedAs(envelope) /\ disk.identity = work.fence
  <2>1. Commit
      BY <1>6, StatementAt
  <2>2. Cache(envelope, work.content, work.fence) /\ work' = NoWork
      BY <1>6, <2>1 DEF Commit, Cache, CachedAs, Answer, Ok, WithBody, WithRows
  <2> QED BY <1>2, <2>2 DEF Ends, Next
<1> QED BY <1>2, <1>3, <1>5, <1>6

LEMMA RecordStep ==
    ASSUME disk \in Tables, Holds, work # NoWork, Recording, Statement
    PROVE  (GoesOn /\ Recording') \/ Ends
<1>1. /\ work \in WorkType /\ work.fresh \in Identities /\ work.fence \in Identities \cup {None}
      /\ work.answer = Ok
    BY DEF Holds, WorkType, Recording
<1>2. /\ WithRows(Empty) \in Tables /\ Cleared \in Tables
      /\ [Cleared EXCEPT !.identity = work.fresh] \in Tables
    BY <1>1 DEF WithRows, Empty, Cleared, Tables
<1>3. CASE /\ work.steps =
                  IF work.fence = None THEN <<"expected", "insertIdentity", "commit">>
                  ELSE <<"expected", "deleteMessages", "clearFreshness", "insertIdentity", "commit">>
           /\ work.image = disk
  <2> DEFINE rest == IF work.fence = None THEN <<"insertIdentity", "commit">>
                     ELSE <<"deleteMessages", "clearFreshness", "insertIdentity", "commit">>
  <2>1. Head(work.steps) = "expected" /\ Tail(work.steps) = rest /\ rest \in Seq(StatementNames)
    <3>1. CASE work.fence = None
      <4>1. work.steps = <<"expected", "insertIdentity", "commit">>
          BY <1>3, <3>1
      <4> QED BY <3>1, <4>1, StepsTyped
    <3>2. CASE work.fence # None
      <4>1. work.steps = <<"expected", "deleteMessages", "clearFreshness", "insertIdentity", "commit">>
          BY <1>3, <3>2
      <4> QED BY <3>2, <4>1, StepsTyped
    <3> QED BY <3>1, <3>2
  <2>2. CheckExpected
      BY <2>1, StatementAt
  <2>3. CASE disk.identity = work.fence
    <3>1. Run(disk)
        BY <1>3, <2>2, <2>3 DEF CheckExpected
    <3>2. /\ GoesOn /\ work'.steps = rest /\ work'.image = disk
          /\ work'.fence = work.fence /\ work'.fresh = work.fresh /\ work'.answer = work.answer
        BY <2>1, <3>1, RunGoesOn
    <3>3. disk' = disk
        BY <3>2 DEF GoesOn
    <3> QED BY <1>1, <2>3, <3>2, <3>3 DEF Recording, Cleared
  <2>4. CASE disk.identity # work.fence
    <3>1. RecordIdentity(work.fresh, work.fence) /\ work' = NoWork
        BY <1>3, <2>2, <2>4 DEF CheckExpected, Rollback, RecordIdentity
    <3> QED BY <1>1, <3>1 DEF Ends, Next
  <2> QED BY <2>3, <2>4
<1>4. CASE /\ work.steps = <<"deleteMessages", "clearFreshness", "insertIdentity", "commit">>
           /\ work.fence # None /\ work.image = disk /\ disk.identity = work.fence
  <2>1. DeleteMessages /\ Tail(work.steps) = <<"clearFreshness", "insertIdentity", "commit">>
      BY <1>4, StatementAt
  <2>2. Run(WithRows(Empty))
      BY <1>4, <2>1 DEF DeleteMessages, WithRows, Empty
  <2>3. /\ GoesOn /\ work'.steps = <<"clearFreshness", "insertIdentity", "commit">>
        /\ work'.image = WithRows(Empty)
        /\ work'.fence = work.fence /\ work'.fresh = work.fresh /\ work'.answer = work.answer
      BY <1>2, <2>1, <2>2, StepsTyped, RunGoesOn
  <2> QED BY <1>1, <1>4, <2>3 DEF Recording, GoesOn, WithRows, Empty
<1>5. CASE /\ work.steps = <<"clearFreshness", "insertIdentity", "commit">>
           /\ work.fence # None /\ work.image = WithRows(Empty) /\ disk.identity = work.fence
  <2>1. ClearFreshness /\ Tail(work.steps) = <<"insertIdentity", "commit">>
      BY <1>5, StatementAt
  <2>2. Run(Cleared)
    <3>1. [work.image EXCEPT !.freshness = None] = Cleared
        BY <1>5 DEF WithRows, Cleared, Tables
    <3> QED BY <2>1, <3>1 DEF ClearFreshness
  <2>3. /\ GoesOn /\ work'.steps = <<"insertIdentity", "commit">> /\ work'.image = Cleared
        /\ work'.fence = work.fence /\ work'.fresh = work.fresh /\ work'.answer = work.answer
      BY <1>2, <2>1, <2>2, StepsTyped, RunGoesOn
  <2>4. disk' = disk /\ Cleared' = Cleared
      BY <2>3 DEF GoesOn, Cleared
  <2> QED BY <1>1, <1>5, <2>3, <2>4 DEF Recording
<1>6. CASE /\ work.steps = <<"insertIdentity", "commit">> /\ work.image = Cleared
           /\ disk.identity = work.fence
  <2>1. InsertIdentity /\ Tail(work.steps) = <<"commit">>
      BY <1>6, StatementAt
  <2>2. Run([Cleared EXCEPT !.identity = work.fresh])
      BY <1>6, <2>1 DEF InsertIdentity
  <2>3. /\ GoesOn /\ work'.steps = <<"commit">>
        /\ work'.image = [Cleared EXCEPT !.identity = work.fresh]
        /\ work'.fence = work.fence /\ work'.fresh = work.fresh /\ work'.answer = work.answer
      BY <1>2, <2>1, <2>2, StepsTyped, RunGoesOn
  <2>4. disk' = disk /\ Cleared' = Cleared
      BY <2>3 DEF GoesOn, Cleared
  <2> QED BY <1>1, <1>6, <2>3, <2>4 DEF Recording
<1>7. CASE /\ work.steps = <<"commit">> /\ work.image = [Cleared EXCEPT !.identity = work.fresh]
           /\ disk.identity = work.fence
  <2>1. Commit
      BY <1>7, StatementAt
  <2>2. RecordIdentity(work.fresh, work.fence) /\ work' = NoWork
    <3>1. work.fence # None => [Cleared EXCEPT !.identity = work.fresh]
              = [disk EXCEPT !.identity = work.fresh, !.rows = [i \in Ids |-> None], !.freshness = None]
        BY DEF Cleared, Empty, Tables
    <3> QED BY <1>1, <1>7, <2>1, <3>1 DEF Commit, RecordIdentity, Answer, Ok, Cleared
  <2> QED BY <1>1, <2>2 DEF Ends, Next
<1> QED BY <1>3, <1>4, <1>5, <1>6, <1>7 DEF Recording

LEMMA PurgeStep ==
    ASSUME disk \in Tables, Holds, work # NoWork, Purging, Statement
    PROVE  (GoesOn /\ Purging') \/ Ends
<1> DEFINE named == [disk EXCEPT !.rows = Empty, !.identity = None]
           bound == [disk EXCEPT !.rows = Empty, !.identity = None, !.binding = FALSE]
           purged == [disk EXCEPT !.rows = Empty, !.identity = None, !.binding = FALSE,
                                  !.freshness = None]
<1>1. work.answer = Ok
    BY DEF Purging
<1>2. WithRows(Empty) \in Tables /\ named \in Tables /\ bound \in Tables /\ purged \in Tables
    BY DEF WithRows, Empty, Tables
<1>3. CASE /\ work.steps = <<"deleteMessages", "deleteIdentity", "clearBinding", "clearFreshness", "commit">>
           /\ work.image = disk
  <2>1. /\ DeleteMessages
        /\ Tail(work.steps) = <<"deleteIdentity", "clearBinding", "clearFreshness", "commit">>
      BY <1>3, StatementAt
  <2>2. Run(WithRows(Empty))
      BY <1>3, <2>1 DEF DeleteMessages, WithRows, Empty
  <2>3. /\ GoesOn /\ work'.steps = <<"deleteIdentity", "clearBinding", "clearFreshness", "commit">>
        /\ work'.image = WithRows(Empty) /\ work'.answer = work.answer
      BY <1>2, <2>1, <2>2, StepsTyped, RunGoesOn
  <2> QED BY <1>1, <2>3 DEF Purging, GoesOn, WithRows, Empty
<1>4. CASE /\ work.steps = <<"deleteIdentity", "clearBinding", "clearFreshness", "commit">>
           /\ work.image = WithRows(Empty)
  <2>1. DeleteIdentity /\ Tail(work.steps) = <<"clearBinding", "clearFreshness", "commit">>
      BY <1>4, StatementAt
  <2>2. Run(named)
    <3>1. [work.image EXCEPT !.identity = None] = named
        BY <1>4 DEF WithRows, Tables
    <3> QED BY <2>1, <3>1 DEF DeleteIdentity
  <2>3. /\ GoesOn /\ work'.steps = <<"clearBinding", "clearFreshness", "commit">>
        /\ work'.image = named /\ work'.answer = work.answer
      BY <1>2, <2>1, <2>2, StepsTyped, RunGoesOn
  <2> QED BY <1>1, <2>3 DEF Purging, GoesOn, Empty
<1>5. CASE work.steps = <<"clearBinding", "clearFreshness", "commit">> /\ work.image = named
  <2>1. ClearBinding /\ Tail(work.steps) = <<"clearFreshness", "commit">>
      BY <1>5, StatementAt
  <2>2. Run(bound)
    <3>1. [work.image EXCEPT !.binding = FALSE] = bound
        BY <1>5 DEF Tables
    <3> QED BY <2>1, <3>1 DEF ClearBinding
  <2>3. /\ GoesOn /\ work'.steps = <<"clearFreshness", "commit">>
        /\ work'.image = bound /\ work'.answer = work.answer
      BY <1>2, <2>1, <2>2, StepsTyped, RunGoesOn
  <2> QED BY <1>1, <2>3 DEF Purging, GoesOn, Empty
<1>6. CASE work.steps = <<"clearFreshness", "commit">> /\ work.image = bound
  <2>1. ClearFreshness /\ Tail(work.steps) = <<"commit">>
      BY <1>6, StatementAt
  <2>2. Run(purged)
    <3>1. [work.image EXCEPT !.freshness = None] = purged
        BY <1>6 DEF Tables
    <3> QED BY <2>1, <3>1 DEF ClearFreshness
  <2>3. /\ GoesOn /\ work'.steps = <<"commit">>
        /\ work'.image = purged /\ work'.answer = work.answer
      BY <1>2, <2>1, <2>2, StepsTyped, RunGoesOn
  <2> QED BY <1>1, <2>3 DEF Purging, GoesOn, Empty
<1>7. CASE work.steps = <<"commit">> /\ work.image = purged
  <2>1. Commit
      BY <1>7, StatementAt
  <2>2. Purge /\ work' = NoWork
      BY <1>1, <1>7, <2>1 DEF Commit, Purge, Answer, Ok, Empty
  <2> QED BY <2>2 DEF Ends, Next
<1> QED BY <1>3, <1>4, <1>5, <1>6, <1>7 DEF Purging

-----------------------------------------------------------------------------
(* A call begins: nothing of it is visible, and it holds its lock.          *)

Goes == work' # NoWork => Holds' /\ Running'

LEMMA Began ==
    ASSUME disk \in Tables, NEW steps \in Seq(StatementNames), NEW batch \in Batches,
           NEW content \in Bodies \cup {None}, NEW keep \in StoreLimit,
           NEW fence \in Identities \cup {None}, NEW fresh \in Identities \cup {None},
           Transaction(steps, batch, content, keep, fence, fresh)
    PROVE  /\ Holds' /\ Next
           /\ work'.steps = steps /\ work'.image = disk /\ disk' = disk
           /\ work'.batch = batch /\ work'.left = batch /\ work'.content = content
           /\ work'.keep = keep /\ work'.fence = fence /\ work'.fresh = fresh /\ work'.answer = Ok
<1>1. /\ work' = [steps |-> steps, image |-> disk, batch |-> batch, left |-> batch,
                  content |-> content, keep |-> keep, fence |-> fence, fresh |-> fresh, answer |-> Ok]
      /\ Answer("nothing") /\ UNCHANGED disk
    BY DEF Transaction, Ok
<1>2. Ok \in [kind : AnswerKinds, ids : Seq(Ids), content : {None}]
    BY DEF Ok, AnswerKinds
<1>3. batch \in Seq(Envelopes)
    BY BatchesTyped
<1>4. work' \in WorkType
    BY <1>1, <1>2, <1>3 DEF WorkType
<1>5. Len(work'.left) <= Len(work'.batch)
    BY <1>1, <1>3
<1>6. Next
    BY <1>1 DEF Next, Die
<1> QED BY <1>1, <1>4, <1>5, <1>6 DEF Holds

LEMMA WritingBegins ==
    ASSUME disk \in Tables, NEW batch \in Batches, NEW tail \in Seq(StatementNames),
           disk' = disk, work'.steps = Writes(batch) \o tail, work'.image = disk,
           work'.batch = batch, work'.left = batch, work'.content = None, work'.answer = Ok
    PROVE  Writing(tail)'
<1>1. batch \in Seq(Envelopes) /\ <<>> \in Seq(Envelopes)
    BY BatchesTyped
<1>2. batch = <<>> \o batch
  <2>1. \A b \in Seq(Envelopes) : <<>> \o b = b
      OBVIOUS
  <2> QED BY <1>1, <2>1
<1>3. WithRows(Merged(disk.rows, <<>>)) = disk
  <2>1. Merged(disk.rows, <<>>) = disk.rows
      BY MergedNothing DEF Tables, Rows
  <2> QED BY <2>1 DEF WithRows, Tables
<1>4. WithRows(Merged(disk.rows, <<>>))' = WithRows(Merged(disk.rows, <<>>))
    BY DEF WithRows
<1> DEFINE none == <<>>
<1>5. /\ none \in Seq(Envelopes) /\ work'.batch = none \o work'.left
      /\ WithRows(Merged(disk.rows, none))' = disk
    BY <1>1, <1>2, <1>3, <1>4
<1> HIDE DEF none
<1> QED BY <1>5 DEF Writing

LEMMA BeginsStep ==
    ASSUME disk \in Tables, work = NoWork, Begins
    PROVE  Next /\ Goes
<1>m. MAX \in StoreLimit /\ <<>> \in Batches /\ \A e \in Envelopes : <<e>> \in Batches
  <2>1. MAX \in StoreLimit /\ 0 \in 0..MAX /\ 1 \in 0..MAX
      BY ContractAssumption DEF StoreLimit
  <2>2. <<>> \in [1..0 -> Envelopes]
      OBVIOUS
  <2>3. \A e \in Envelopes : <<e>> \in [1..1 -> Envelopes]
      OBVIOUS
  <2> QED BY <2>1, <2>2, <2>3 DEF Batches
<1>1. ASSUME NEW batch \in Batches, BeginUpsert(batch)
      PROVE  Next /\ Goes
  <2> DEFINE tail == <<"commit">>
  <2>1. tail \in Seq(StatementNames) /\ Writes(batch) \o tail \in Seq(StatementNames)
      BY StepsTyped, BatchesTyped, WritesFirst
  <2>2. Transaction(Writes(batch) \o tail, batch, None, MAX, None, None)
      BY <1>1 DEF BeginUpsert
  <2>3. /\ Holds' /\ Next
        /\ work'.steps = Writes(batch) \o tail /\ work'.image = disk /\ disk' = disk
        /\ work'.batch = batch /\ work'.left = batch /\ work'.content = None /\ work'.answer = Ok
      BY <1>m, <2>1, <2>2, Began
  <2>4. Writing(tail)'
    <3> HIDE DEF tail
    <3> QED BY <2>1, <2>3, WritingBegins
  <2> QED BY <2>3, <2>4 DEF Goes, Running, Upserting
<1>2. ASSUME NEW batch \in Batches, NEW keep \in StoreLimit, NEW fence \in Identities,
             BeginReconcile(batch, keep, fence)
      PROVE  Next /\ Goes
  <2> DEFINE tail == <<"prune", "survivors", "fence", "commit">>
  <2>1. tail \in Seq(StatementNames) /\ Writes(batch) \o tail \in Seq(StatementNames)
      BY StepsTyped, BatchesTyped, WritesFirst
  <2>2. Transaction(Writes(batch) \o tail, batch, None, keep, fence, None)
      BY <1>2 DEF BeginReconcile
  <2>3. /\ Holds' /\ Next
        /\ work'.steps = Writes(batch) \o tail /\ work'.image = disk /\ disk' = disk
        /\ work'.batch = batch /\ work'.left = batch /\ work'.content = None /\ work'.answer = Ok
        /\ work'.fence = fence
      BY <2>1, <2>2, Began
  <2>4. Writing(tail)'
    <3> HIDE DEF tail
    <3> QED BY <2>1, <2>3, WritingBegins
  <2> QED BY <2>3, <2>4 DEF Goes, Running, Reconciling
<1>3. ASSUME NEW envelope \in Envelopes, NEW body \in Bodies, BeginPut(envelope, body)
      PROVE  Next /\ Goes
  <2> DEFINE steps == <<"write", "commit">>
             batch == <<envelope>>
  <2>1. steps \in Seq(StatementNames)
      BY DEF StatementNames
  <2>2. Transaction(steps, batch, body, MAX, None, None) /\ batch \in Batches
      BY <1>m, <1>3 DEF BeginPut
  <2> HIDE DEF steps, batch
  <2>3. /\ Holds' /\ Next
        /\ work'.steps = steps /\ work'.image = disk /\ disk' = disk
        /\ work'.batch = batch /\ work'.left = batch /\ work'.content = body /\ work'.answer = Ok
      BY <1>m, <2>1, <2>2, Began
  <2>4. Putting'
      BY <2>3 DEF Putting, steps, batch
  <2> QED BY <2>3, <2>4 DEF Goes, Running
<1>4. ASSUME NEW envelope \in Envelopes, NEW body \in Bodies, NEW fence \in Identities,
             BeginCache(envelope, body, fence)
      PROVE  Next /\ Goes
  <2> DEFINE steps == <<"update", "fence", "commit">>
             batch == <<envelope>>
  <2>1. steps \in Seq(StatementNames)
      BY DEF StatementNames
  <2>2. Transaction(steps, batch, body, MAX, fence, None) /\ batch \in Batches
      BY <1>m, <1>4 DEF BeginCache
  <2> HIDE DEF steps, batch
  <2>3. /\ Holds' /\ Next
        /\ work'.steps = steps /\ work'.image = disk /\ disk' = disk /\ work'.fence = fence
        /\ work'.batch = batch /\ work'.left = batch /\ work'.content = body /\ work'.answer = Ok
      BY <1>m, <2>1, <2>2, Began
  <2>4. Caching'
      BY <2>3 DEF Caching, steps, batch
  <2> QED BY <2>3, <2>4 DEF Goes, Running
<1>5. ASSUME NEW fresh \in Identities, NEW expected \in Identities \cup {None},
             BeginRecord(fresh, expected)
      PROVE  Next /\ Goes
  <2> DEFINE steps == IF expected = None THEN <<"expected", "insertIdentity", "commit">>
                      ELSE <<"expected", "deleteMessages", "clearFreshness", "insertIdentity", "commit">>
             batch == <<>>
  <2>1. steps \in Seq(StatementNames)
    <3>1. /\ <<"expected", "insertIdentity", "commit">> \in Seq(StatementNames)
          /\ <<"expected", "deleteMessages", "clearFreshness", "insertIdentity", "commit">>
                 \in Seq(StatementNames)
        BY DEF StatementNames
    <3> QED BY <3>1
  <2>2. Transaction(steps, batch, None, MAX, expected, fresh) /\ batch \in Batches
      BY <1>m, <1>5 DEF BeginRecord
  <2> HIDE DEF steps, batch
  <2>3. /\ Holds' /\ Next
        /\ work'.steps = steps /\ work'.image = disk /\ disk' = disk
        /\ work'.fence = expected /\ work'.fresh = fresh /\ work'.answer = Ok
      BY <1>m, <2>1, <2>2, Began
  <2>4. Recording'
      BY <2>3 DEF Recording, steps
  <2> QED BY <2>3, <2>4 DEF Goes, Running
<1>6. ASSUME BeginPurge
      PROVE  Next /\ Goes
  <2> DEFINE steps == <<"deleteMessages", "deleteIdentity", "clearBinding", "clearFreshness", "commit">>
             batch == <<>>
  <2>1. steps \in Seq(StatementNames)
      BY DEF StatementNames
  <2>2. Transaction(steps, batch, None, MAX, None, None) /\ batch \in Batches
      BY <1>m, <1>6 DEF BeginPurge
  <2> HIDE DEF steps, batch
  <2>3. /\ Holds' /\ Next
        /\ work'.steps = steps /\ work'.image = disk /\ disk' = disk /\ work'.answer = Ok
      BY <1>m, <2>1, <2>2, Began
  <2>4. Purging'
      BY <2>3 DEF Purging, steps
  <2> QED BY <2>3, <2>4 DEF Goes, Running
<1>7. ASSUME RefuseReconcile
      PROVE  Next /\ Goes
    BY <1>7 DEF RefuseReconcile, Refused, Next, Fail, Goes
<1> QED BY <1>1, <1>2, <1>3, <1>4, <1>5, <1>6, <1>7 DEF Begins

-----------------------------------------------------------------------------
(* The calls of one statement.                                              *)

LEMMA MarksRead ==
    ASSUME disk \in Tables, NEW which \in SUBSET Ids
    PROVE  [disk EXCEPT !.rows = Read([i \in Ids |-> i \in which])]
               = [disk EXCEPT !.rows = [i \in Ids |->
                     IF i \in which \cap Present(disk.rows)
                     THEN [disk.rows[i] EXCEPT !.unread = FALSE] ELSE disk.rows[i]]]
BY DEF Read, Present

LEMMA SinglesStep ==
    ASSUME disk \in Tables, work = NoWork, Singles
    PROVE  /\ Next /\ work' = NoWork
           /\ returned'.kind = "search" => ReturnedOK'
<1> DEFINE Fine == Next /\ work' = NoWork /\ (returned'.kind = "search" => ReturnedOK')
<1>r. disk.rows \in Rows
    BY DEF Tables, Rows
<1>a. ASSUME NEW kind, kind # "search", Answer(kind)
      PROVE  returned'.kind # "search"
    BY <1>a DEF Answer
<1>1. ASSUME NEW id \in Ids, MarkMessageRead(id)
      PROVE  Fine
  <2>1. [i \in Ids |-> i = id] = [i \in Ids |-> i \in {id}]
      OBVIOUS
  <2>2. MarkRead({id}) /\ work' = NoWork
    <3>1. /\ disk' = [disk EXCEPT !.rows = Read([i \in Ids |-> i \in {id}])]
          /\ Answer("ok") /\ work' = NoWork
        BY <1>1, <2>1 DEF MarkMessageRead, Single
    <3>2. {id} \in SUBSET Ids
        OBVIOUS
    <3>3. [disk EXCEPT !.rows = Read([i \in Ids |-> i \in {id}])]
              = [disk EXCEPT !.rows = [i \in Ids |->
                    IF i \in {id} \cap Present(disk.rows)
                    THEN [disk.rows[i] EXCEPT !.unread = FALSE] ELSE disk.rows[i]]]
        BY <3>2, MarksRead
    <3> QED BY Zenon, <3>1, <3>3 DEF MarkRead
  <2> QED BY <1>a, <2>2 DEF Next, MarkRead
<1>2. ASSUME NEW id \in Ids, GetCompleteMessage(id)
      PROVE  Fine
  <2>1. GetMessage(id) /\ work' = NoWork /\ returned'.kind = "message"
      BY <1>2 DEF GetCompleteMessage, GetMessage
  <2> QED BY <2>1 DEF Next
<1>3. ASSUME NEW thread \in Threads, MarkThreadRead(thread)
      PROVE  Fine
  <2> DEFINE which == {i \in Present(disk.rows) : disk.rows[i].thread = thread}
  <2>1. [i \in Ids |-> disk.rows[i] # None /\ disk.rows[i].thread = thread]
            = [i \in Ids |-> i \in which]
      BY DEF Present
  <2>2. which \in SUBSET Ids
      BY DEF Present
  <2>3. MarkRead(which) /\ work' = NoWork
    <3>1. disk' = [disk EXCEPT !.rows = Read([i \in Ids |-> i \in which])]
        BY <1>3, <2>1 DEF MarkThreadRead, Single
    <3>2. Answer("ok") /\ work' = NoWork
        BY <1>3 DEF MarkThreadRead, Single
    <3> HIDE DEF which
    <3>3. [disk EXCEPT !.rows = Read([i \in Ids |-> i \in which])]
              = [disk EXCEPT !.rows = [i \in Ids |->
                    IF i \in which \cap Present(disk.rows)
                    THEN [disk.rows[i] EXCEPT !.unread = FALSE] ELSE disk.rows[i]]]
        BY <2>2, MarksRead
    <3> QED BY Zenon, <3>1, <3>2, <3>3 DEF MarkRead
  <2> QED BY <1>a, <2>3 DEF Next, MarkRead
<1>4. ASSUME NEW thread \in Threads, NEW limit \in StoreLimit, ThreadMetadata(thread, limit)
      PROVE  Fine
  <2> DEFINE ids == ListThread(disk.rows, thread, limit)
  <2>1. returned' = [kind |-> "thread", ids |-> ids, content |-> None] /\ UNCHANGED <<disk, work>>
      BY <1>4 DEF ThreadMetadata, List
  <2>2. OldestListed(ids, disk.rows, thread, limit)
      BY <1>r, ThreadLists
  <2>3. returned'.ids = ids /\ returned'.kind = "thread" /\ returned'.content = None
      BY <2>1
  <2> HIDE DEF ids
  <2>5. OldestListed(returned'.ids, disk.rows, thread, limit)
      BY <2>2, <2>3
  <2>6. UNCHANGED disk /\ Listing("thread")
      BY <2>1, <2>3 DEF Listing
  <2>4. Thread(thread, limit)
      BY <2>5, <2>6 DEF Thread, OldestListed, Before
  <2> QED BY <2>1, <2>3, <2>4 DEF Next
<1>5. ASSUME NEW limit \in StoreLimit, InboxMetadata(limit)
      PROVE  Fine
  <2>1. /\ returned' = [kind |-> "inbox", ids |-> ListEnvelopes(disk.rows, limit), content |-> None]
        /\ UNCHANGED <<disk, work>>
      BY <1>5 DEF InboxMetadata, List
  <2>2. Inbox(limit)
      BY <1>r, <2>1, InboxLists DEF Inbox, Listing
  <2> QED BY <2>1, <2>2 DEF Next
<1>6. ASSUME NEW limit \in StoreLimit, SearchCache(limit)
      PROVE  Fine
  <2> DEFINE ids == SearchMetadata(disk.rows, limit)
  <2>1. /\ returned' = [kind |-> "search", ids |-> ids, content |-> None]
        /\ UNCHANGED <<disk, work>>
      BY <1>6 DEF SearchCache, List
  <2>2. /\ ids \in Seq(Ids)
        /\ Cardinality(Present(disk.rows)) <= MAX =>
              Lists(ids, {i \in Present(disk.rows) : disk.rows[i].hits}, disk.rows, limit)
      BY <1>r, SearchLists
  <2> HIDE DEF ids
  <2>3. Search(limit)
      BY <2>1, <2>2 DEF Search, Listing
  <2>4. ReturnedOK'
      BY <2>1, <2>2 DEF ReturnedOK, AnswerKinds
  <2> QED BY <2>1, <2>3, <2>4 DEF Next
<1>7. ASSUME NEW there \in BOOLEAN, UpdateBinding(there)
      PROVE  Fine
  <2>1. Set("binding", there) /\ work' = NoWork
      BY <1>7 DEF UpdateBinding, Single, Set
  <2> QED BY <1>a, <2>1 DEF Next, Set
<1>8. ASSUME NEW mark \in DisconnectRecoveryState \cup {None}, UpdateRecovery(mark)
      PROVE  Fine
  <2>1. Set("recovery", mark) /\ work' = NoWork
      BY <1>8 DEF UpdateRecovery, Single, Set
  <2> QED BY <1>a, <2>1 DEF Next, Set
<1>9. ASSUME NEW time \in Times, RecordSuccessfulSync(time)
      PROVE  Fine
  <2>1. CASE time >= 0
    <3>1. Set("freshness", time) /\ work' = NoWork
        BY <1>9, <2>1 DEF RecordSuccessfulSync, Storable, Single, Set
    <3> QED BY <1>a, <2>1, <3>1 DEF Next, Set
  <2>2. CASE ~(time >= 0)
    <3>1. UNCHANGED disk /\ Answer("Corrupted") /\ work' = NoWork
        BY <1>9, <2>2 DEF RecordSuccessfulSync, Storable
    <3> QED BY <1>a, <2>2, <3>1 DEF Next
  <2> QED BY <2>1, <2>2
<1>10. ASSUME NEW field \in {"identity", "binding", "recovery", "freshness"}, LoadColumn(field)
       PROVE  Fine
  <2>1. Load(field) /\ work' = NoWork /\ returned'.kind = field
      BY <1>10 DEF LoadColumn, Load
  <2> QED BY <2>1 DEF Next
<1>11. ASSUME OtherAccount
       PROVE  Fine
  <2>1. Fail /\ work' = NoWork
      BY <1>11 DEF OtherAccount, Refused, Fail
  <2>2. returned'.kind # "search"
      BY <1>a, <1>11 DEF OtherAccount, Refused
  <2> QED BY <2>1, <2>2 DEF Next
<1> HIDE DEF Fine
<1>12. Fine
    BY <1>1, <1>2, <1>3, <1>4, <1>5, <1>6, <1>7, <1>8, <1>9, <1>10, <1>11
       DEF Singles, ReadIdentityHash, LoadBinding, ReadLifecycleMetadata
<1> QED BY <1>12 DEF Fine

-----------------------------------------------------------------------------
(* What the contract allows keeps the tables and the answers what they are. *)

LEMMA MarkedTyped ==
    ASSUME NEW rows \in Rows, NEW which
    PROVE  [i \in Ids |-> IF i \in which \cap Present(rows)
                          THEN [rows[i] EXCEPT !.unread = FALSE] ELSE rows[i]] \in Rows
<1>1. ASSUME NEW i \in Ids, i \in Present(rows)
      PROVE  [rows[i] EXCEPT !.unread = FALSE] \in Message
  <2>1. rows[i] \in Message
      BY <1>1 DEF Present, Rows
  <2> QED BY <2>1 DEF Message
<1>2. \A i \in Ids : rows[i] \in Message \cup {None}
    BY DEF Rows
<1> QED BY <1>1, <1>2 DEF Rows

LEMMA BodyTyped ==
    ASSUME NEW rows \in Rows, NEW envelope \in Envelopes, NEW body \in Bodies
    PROVE  [Merged(rows, <<envelope>>) EXCEPT ![envelope.id].content = body] \in Rows
<1> DEFINE batch == <<envelope>>
           e == envelope.id
           M == Merged(rows, batch)
<1>1. batch \in Seq(Envelopes) /\ Of(batch, e) # {} /\ e \in Ids
    BY EnvelopeTyped DEF Of, EnvelopeFields
<1>2. M \in Rows /\ MergedRow(rows, batch, e) \in Message
    BY <1>1, MergedType
<1>3. M[e] \in Message
    BY <1>1, <1>2, MergedRows
<1> HIDE DEF M
<1>4. [M[e] EXCEPT !.content = body] \in Message
    BY <1>3 DEF Message
<1> QED BY <1>1, <1>2, <1>4 DEF Rows, M

LEMMA AnswerTyped ==
    ASSUME NEW kind \in AnswerKinds, Answer(kind)
    PROVE  ReturnedOK'
BY DEF Answer, ReturnedOK

LEMMA ContractTyped ==
    ASSUME disk \in Tables, Next
    PROVE  disk' \in Tables /\ (returned'.kind # "search" => ReturnedOK')
<1> DEFINE Fine == disk' \in Tables /\ (returned'.kind # "search" => ReturnedOK')
<1>r. disk.rows \in Rows
    BY DEF Tables, Rows
<1>w. ASSUME NEW rows \in Rows
      PROVE  [disk EXCEPT !.rows = rows] \in Tables
    BY <1>w DEF Tables, Rows
<1>e. [i \in Ids |-> None] \in Rows
    BY DEF Rows
<1>k. {"Storage", "Corrupted", "IdentityChanged", "IdentityRaced", "nothing", "ok", "absent", "cached"}
          \subseteq AnswerKinds
    BY DEF AnswerKinds, MailboxStoreError
<1>1. ASSUME Fail \/ Die
      PROVE  Fine
    BY <1>1, <1>k, AnswerTyped DEF Fail, Die
<1>2. ASSUME Purge
      PROVE  Fine
  <2>1. ReturnedOK'
      BY <1>2, <1>k, AnswerTyped DEF Purge
  <2>2. disk' \in Tables
      BY <1>2, <1>e DEF Purge, Tables, Rows
  <2> QED BY <2>1, <2>2
<1>3. ASSUME NEW batch \in Batches, Upsert(batch)
      PROVE  Fine
  <2>1. Merged(disk.rows, batch) \in Rows
      BY <1>r, BatchesTyped, MergedType
  <2> QED BY <1>3, <1>k, <1>w, <2>1, AnswerTyped DEF Upsert
<1>4. ASSUME NEW batch \in Batches, NEW keep \in StoreLimit, NEW fence \in Identities,
             Reconcile(batch, keep, fence)
      PROVE  Fine
  <2> DEFINE rows == Newest(Merged(disk.rows, batch), keep)
  <2>1. rows \in Rows
      BY <1>r, BatchesTyped, MergedType, PruneKeepsNewest
  <2>2. CASE disk.identity = fence
    <3>1. disk' = [disk EXCEPT !.rows = rows] /\ Listing("survivors")
          /\ NamesSurvivors(returned'.ids, batch, rows)
        BY <1>4, <2>2 DEF Reconcile
    <3> HIDE DEF rows
    <3>2. ReturnedOK'
        BY <3>1 DEF Listing, NamesSurvivors, Present, ReturnedOK, AnswerKinds
    <3> QED BY <1>w, <2>1, <3>1, <3>2
  <2>3. CASE disk.identity # fence
      BY <1>4, <2>3, <1>k, AnswerTyped DEF Reconcile
  <2> QED BY <2>2, <2>3
<1>5. ASSUME NEW envelope \in Envelopes, NEW body \in Bodies, Put(envelope, body)
      PROVE  Fine
  <2> DEFINE rows == [Merged(disk.rows, <<envelope>>) EXCEPT ![envelope.id].content = body]
  <2>1. rows \in Rows
      BY <1>r, BodyTyped
  <2>2. disk' = [disk EXCEPT !.rows = rows] /\ ReturnedOK'
      BY <1>5, <1>k, AnswerTyped DEF Put
  <2> HIDE DEF rows
  <2> QED BY <1>w, <2>1, <2>2
<1>6. ASSUME NEW envelope \in Envelopes, NEW body \in Bodies, NEW fence \in Identities,
             Cache(envelope, body, fence)
      PROVE  Fine
  <2> DEFINE rows == [Merged(disk.rows, <<envelope>>) EXCEPT ![envelope.id].content = body]
  <2>1. rows \in Rows
      BY <1>r, BodyTyped
  <2>2. (disk' = [disk EXCEPT !.rows = rows] \/ UNCHANGED disk) /\ ReturnedOK'
      BY <1>6, <1>k, AnswerTyped DEF Cache
  <2> HIDE DEF rows
  <2> QED BY <1>w, <2>1, <2>2
<1>7. ASSUME NEW fresh \in Identities, NEW expected \in Identities \cup {None},
             RecordIdentity(fresh, expected)
      PROVE  Fine
  <2>1. ReturnedOK'
      BY <1>7, <1>k, AnswerTyped DEF RecordIdentity
  <2>2. disk' \in Tables
    <3> DEFINE empty == [i \in Ids |-> None]
    <3>1. /\ [disk EXCEPT !.identity = fresh] \in Tables
          /\ [disk EXCEPT !.identity = fresh, !.rows = empty, !.freshness = None] \in Tables
      <4> HIDE DEF empty
      <4> QED BY <1>e DEF Tables, Rows, empty
    <3> QED BY <1>7, <3>1 DEF RecordIdentity
  <2> QED BY <2>1, <2>2
<1>8. ASSUME NEW which, MarkRead(which)
      PROVE  Fine
    BY <1>8, <1>r, <1>k, <1>w, MarkedTyped, AnswerTyped DEF MarkRead
<1>9. ASSUME NEW i \in Ids, GetMessage(i)
      PROVE  Fine
  <2>1. disk.rows[i] # None => disk.rows[i].content \in Bodies \cup {None}
      BY <1>r DEF Rows, Message
  <2> QED BY <1>9, <2>1 DEF GetMessage, ReturnedOK, AnswerKinds
<1>10. ASSUME NEW thread \in Threads, NEW limit \in StoreLimit, Thread(thread, limit)
       PROVE  Fine
  <2>1. /\ {returned'.ids[k] : k \in DOMAIN returned'.ids} \subseteq Ids
        /\ Listing("thread") /\ UNCHANGED disk
      BY <1>10 DEF Thread, Present
  <2> QED BY <2>1 DEF Listing, ReturnedOK, AnswerKinds
<1>11. ASSUME NEW limit \in StoreLimit, Inbox(limit)
       PROVE  Fine
  <2>1. /\ {returned'.ids[k] : k \in DOMAIN returned'.ids} \subseteq Ids
        /\ Listing("inbox") /\ UNCHANGED disk
      BY <1>11 DEF Inbox, Lists, Present
  <2> QED BY <2>1 DEF Listing, ReturnedOK, AnswerKinds
<1>12. ASSUME NEW limit \in StoreLimit, Search(limit)
       PROVE  Fine
    BY <1>12 DEF Search, Listing
<1>13. ASSUME NEW b \in BOOLEAN, Set("binding", b)
       PROVE  Fine
    BY <1>13, <1>k, AnswerTyped DEF Set, Tables
<1>14. ASSUME NEW mark \in DisconnectRecoveryState \cup {None}, Set("recovery", mark)
       PROVE  Fine
    BY <1>14, <1>k, AnswerTyped DEF Set, Tables
<1>15. ASSUME NEW time \in Times,
              IF time >= 0 THEN Set("freshness", time) ELSE UNCHANGED disk /\ Answer("Corrupted")
       PROVE  Fine
  <2>1. time \in Int
      BY ContractAssumption
  <2>2. CASE time >= 0
      BY <1>15, <1>k, <2>1, <2>2, AnswerTyped DEF Set, Tables
  <2>3. CASE ~(time >= 0)
      BY <1>15, <1>k, <2>3, AnswerTyped
  <2> QED BY <2>2, <2>3
<1>16. ASSUME NEW field \in {"identity", "binding", "recovery", "freshness"}, Load(field)
       PROVE  Fine
    BY <1>16 DEF Load, ReturnedOK, AnswerKinds
<1> HIDE DEF Fine
<1>17. Fine
    BY <1>1, <1>2, <1>3, <1>4, <1>5, <1>6, <1>7, <1>8, <1>9, <1>10, <1>11, <1>12, <1>13, <1>14,
       <1>15, <1>16 DEF Next
<1> QED BY <1>17 DEF Fine

-----------------------------------------------------------------------------
(* Every step.                                                              *)

LEMMA RunningStep ==
    ASSUME disk \in Tables, ReturnedOK, Holds, Running, work # NoWork, Statement
    PROVE  ([Next]_vars) /\ disk' \in Tables /\ ReturnedOK' /\ Goes
<1>1. (GoesOn /\ Running') \/ Ends
    BY UpsertStep, ReconcileStep, PutStep, CacheStep, RecordStep, PurgeStep DEF Running
<1>2. CASE GoesOn /\ Running'
    BY <1>2 DEF GoesOn, Goes, vars, ReturnedOK
<1>3. CASE Ends
  <2>1. CASE Commit
    <3>1. returned' = work.answer
        BY <2>1 DEF Commit
    <3>2. ReturnedOK'
        BY <3>1 DEF Holds, WorkType, ReturnedOK
    <3> QED BY <1>3, <3>2, ContractTyped DEF Ends, Goes
  <2>2. CASE ~Commit
    <3>1. Answer("IdentityChanged") \/ Answer("IdentityRaced") \/ UNCHANGED returned
        BY <2>2 DEF Statement, Write, Update, Prune, Survivors, CheckFence, CheckExpected,
                    DeleteMessages, ClearFreshness, InsertIdentity, DeleteIdentity, ClearBinding,
                    Run, Rollback
    <3>2. ReturnedOK'
      <4>1. {"IdentityChanged", "IdentityRaced"} \subseteq AnswerKinds
          BY DEF AnswerKinds, MailboxStoreError
      <4> QED BY <3>1, <4>1, AnswerTyped DEF ReturnedOK
    <3> QED BY <1>3, <3>2, ContractTyped DEF Ends, Goes
  <2> QED BY <2>1, <2>2
<1> QED BY <1>1, <1>2, <1>3

LEMMA StoreStep ==
    ASSUME IInv, [StoreNext]_tables
    PROVE  ([Next]_vars) /\ IInv'
<1> USE DEF IInv
<1>k. {"Storage", "Corrupted", "nothing"} \subseteq AnswerKinds
    BY DEF AnswerKinds, MailboxStoreError
<1>1. CASE UNCHANGED tables
    BY <1>1 DEF tables, vars, ReturnedOK, Holds, Running, Upserting, Writing, Reconciling, NamedAs, Kept,
                Putting, Caching, CachedAs, WithBody, WithRows, Recording, Cleared, Purging, Empty
<1>2. CASE Begins
  <2>1. work = NoWork /\ (Answer("nothing") \/ Answer("Storage"))
    <3>1. \A steps, batch, content, keep, fence, fresh :
              Transaction(steps, batch, content, keep, fence, fresh) => work = NoWork /\ Answer("nothing")
        BY DEF Transaction
    <3>2. /\ \A batch : BeginUpsert(batch) => work = NoWork /\ Answer("nothing")
          /\ \A batch, keep, fence :
                 BeginReconcile(batch, keep, fence) => work = NoWork /\ Answer("nothing")
        BY <3>1 DEF BeginUpsert, BeginReconcile
    <3>3. /\ \A envelope, body : BeginPut(envelope, body) => work = NoWork /\ Answer("nothing")
          /\ \A envelope, body, fence :
                 BeginCache(envelope, body, fence) => work = NoWork /\ Answer("nothing")
        BY <3>1 DEF BeginPut, BeginCache
    <3>4. /\ \A fresh, expected : BeginRecord(fresh, expected) => work = NoWork /\ Answer("nothing")
          /\ BeginPurge => work = NoWork /\ Answer("nothing")
          /\ RefuseReconcile => work = NoWork /\ Answer("Storage")
        BY <3>1 DEF BeginRecord, BeginPurge, RefuseReconcile, Refused
    <3> QED BY <1>2, <3>2, <3>3, <3>4 DEF Begins
  <2>2. Next /\ Goes
      BY <1>2, <2>1, BeginsStep
  <2>3. ReturnedOK'
      BY <1>k, <2>1, AnswerTyped
  <2> QED BY <2>2, <2>3, ContractTyped DEF Goes
<1>3. CASE Statement
  <2>1. work # NoWork
      BY <1>3 DEF Statement, Write, Update, Prune, Survivors, CheckFence, CheckExpected,
                  DeleteMessages, ClearFreshness, InsertIdentity, DeleteIdentity, ClearBinding,
                  Commit, At
  <2> QED BY <1>3, <2>1, RunningStep DEF Goes
<1>4. CASE Fault \/ Crash
  <2>1. /\ Answer("Storage") \/ Answer("Corrupted") \/ Answer("nothing")
        /\ UNCHANGED disk /\ work' = NoWork
      BY <1>4 DEF Fault, Crash, Rollback
  <2>2. ReturnedOK'
      BY <1>k, <2>1, AnswerTyped
  <2>3. Next
      BY <2>1 DEF Next, Fail, Die
  <2> QED BY <2>1, <2>2, <2>3
<1>5. CASE Busy
  <2>1. work # NoWork /\ Answer("Storage") /\ UNCHANGED <<disk, work>>
      BY <1>5 DEF Busy, Refused
  <2>2. ReturnedOK'
      BY <1>k, <2>1, AnswerTyped
  <2>3. Next
      BY <2>1 DEF Next, Fail
  <2>4. Holds' /\ Running'
      BY <2>1 DEF Holds, Running, Upserting, Writing, Reconciling, NamedAs, Kept,
                  Putting, Caching, CachedAs, WithBody, WithRows, Recording, Cleared, Purging, Empty
  <2> QED BY <2>1, <2>2, <2>3, <2>4
<1>6. CASE Singles
  <2>1. work = NoWork
      BY <1>6 DEF Singles, MarkMessageRead, MarkThreadRead, UpdateBinding, UpdateRecovery, Single,
                  RecordSuccessfulSync, InboxMetadata, ThreadMetadata, SearchCache, List,
                  GetCompleteMessage, LoadColumn, ReadIdentityHash, LoadBinding,
                  ReadLifecycleMetadata, OtherAccount
  <2> QED BY <1>6, <2>1, SinglesStep, ContractTyped
<1> QED BY <1>1, <1>2, <1>3, <1>4, <1>5, <1>6 DEF StoreNext

LEMMA StoreStarts == StoreInit => IInv
<1> SUFFICES ASSUME StoreInit
             PROVE  IInv
    OBVIOUS
<1>1. disk \in Tables
    BY DEF StoreInit, Init, Tables
<1>2. ReturnedOK
    BY DEF StoreInit, Init, ReturnedOK, AnswerKinds
<1>3. work = NoWork
    BY DEF StoreInit
<1> QED BY <1>1, <1>2, <1>3 DEF IInv

\* What a transaction has done so far is what its call promises so far.
THEOREM Invariance == StoreSpec => []IInv
<1>1. IInv /\ [StoreNext]_tables => IInv'
    BY StoreStep
<1> QED BY <1>1, StoreStarts, PTL DEF StoreSpec

\* The instance is the module that is extended, name by name.
LEMMA ContractSame ==
    /\ Contract!Init <=> Init
    /\ Contract!vars = vars
    /\ Contract!Next <=> Next
<1>1. Contract!Init <=> Init
    BY DEF Contract!Init, Init
<1>2. Contract!vars = vars
    BY DEF Contract!vars, vars
<1>c. \A S : Contract!Cardinality(S) = Cardinality(S)
    BY DEF Contract!Cardinality, Cardinality
<1>3. Contract!Next <=> Next
  <2>1. Contract!Fail <=> Fail
      BY DEF Contract!Fail, Fail, Contract!Answer, Answer
  <2>2. Contract!Die <=> Die
      BY DEF Contract!Die, Die, Contract!Answer, Answer
  <2>3. Contract!Purge <=> Purge
      BY DEF Contract!Purge, Purge, Contract!Answer, Answer
  <2>4. \A envelopes : Contract!Upsert(envelopes) <=> Upsert(envelopes)
      BY DEF Contract!Upsert, Upsert, Contract!Merged, Merged, Contract!Of, Of,
             Contract!Answer, Answer
  <2>5. \A envelopes, keep, fence : Contract!Reconcile(envelopes, keep, fence) <=> Reconcile(envelopes, keep, fence)
    <3>1. \A rows, i, j : Contract!Newer(rows, i, j) <=> Newer(rows, i, j)
        BY DEF Contract!Newer, Newer
    <3>2. \A rows : Contract!Present(rows) = Present(rows)
        BY DEF Contract!Present, Present
    <3>3. \A rows, batch : Contract!Merged(rows, batch) = Merged(rows, batch)
        BY DEF Contract!Merged, Merged, Contract!Of, Of
    <3>4. \A rows, n : Contract!Newest(rows, n) = Newest(rows, n)
        BY <1>c, <3>2 DEF Contract!Newest, Newest, Contract!Newer, Newer
    <3>5. \A ids, batch, rows : Contract!NamesSurvivors(ids, batch, rows) <=> NamesSurvivors(ids, batch, rows)
        BY <3>2 DEF Contract!NamesSurvivors, NamesSurvivors, Contract!Of, Of
    <3> QED BY <3>3, <3>4, <3>5 DEF Contract!Reconcile, Reconcile, Contract!Listing, Listing,
                                    Contract!Answer, Answer
  <2>6. \A envelope, body : Contract!Put(envelope, body) <=> Put(envelope, body)
      BY DEF Contract!Put, Put, Contract!Merged, Merged, Contract!Of, Of, Contract!Answer,
             Answer
  <2>7. \A envelope, body, fence : Contract!Cache(envelope, body, fence) <=> Cache(envelope, body, fence)
      BY DEF Contract!Cache, Cache, Contract!Merged, Merged, Contract!Of, Of,
             Contract!Answer, Answer
  <2>8. \A fresh, expected : Contract!RecordIdentity(fresh, expected) <=> RecordIdentity(fresh, expected)
      BY DEF Contract!RecordIdentity, RecordIdentity, Contract!Answer, Answer
  <2>9. \A which : Contract!MarkRead(which) <=> MarkRead(which)
      BY DEF Contract!MarkRead, MarkRead, Contract!Present, Present, Contract!Answer, Answer
  <2>10. \A i : Contract!GetMessage(i) <=> GetMessage(i)
      BY DEF Contract!GetMessage, GetMessage
  <2>11. \A thread, limit : Contract!Thread(thread, limit) <=> Thread(thread, limit)
      BY <1>c DEF Contract!Thread, Thread, Contract!Listing, Listing, Contract!Present, Present
  <2>12. \A limit : Contract!Inbox(limit) <=> Inbox(limit)
      BY <1>c DEF Contract!Inbox, Inbox, Contract!Listing, Listing, Contract!Present, Present,
             Contract!Lists, Lists, Contract!Newer, Newer
  <2>13. \A limit : Contract!Search(limit) <=> Search(limit)
      BY <1>c DEF Contract!Search, Search, Contract!Listing, Listing, Contract!Present, Present,
             Contract!Lists, Lists, Contract!Newer, Newer
  <2>14. \A field, value : Contract!Set(field, value) <=> Set(field, value)
      BY DEF Contract!Set, Set, Contract!Answer, Answer
  <2>15. \A field : Contract!Load(field) <=> Load(field)
      BY DEF Contract!Load, Load
  <2> QED BY <2>1, <2>2, <2>3, <2>4, <2>5, <2>6, <2>7, <2>8, <2>9, <2>10, <2>11, <2>12,
             <2>13, <2>14, <2>15
             DEF Contract!Next, Next, Contract!Batches, Batches, Contract!StoreLimit,
                 StoreLimit, Contract!Present, Present, Contract!Answer, Answer,
                 Contract!DisconnectRecoveryState, DisconnectRecoveryState
<1> QED BY <1>1, <1>2, <1>3

\* The store, statement by statement and with its failures and crashes, keeps
\* what the ports promise: each call takes effect whole or not at all, and its
\* answer is true of what is stored.
THEOREM StoreKeepsContract == StoreSpec => KeepsContract
<1>1. IInv /\ [StoreNext]_tables => [Contract!Next]_Contract!vars
  <2>1. IInv /\ [StoreNext]_tables => Next \/ vars' = vars
      BY StoreStep
  <2>2. vars' = vars => Contract!vars' = Contract!vars
      BY DEF Contract!vars, vars
  <2> QED BY <2>1, <2>2, ContractSame
<1>2. StoreInit => Contract!Init
    BY ContractSame DEF StoreInit
<1> QED BY <1>1, <1>2, Invariance, PTL DEF StoreSpec, KeepsContract, Contract!Spec

-----------------------------------------------------------------------------
(* The types.                                                               *)

\* What a transaction still has to run ends with its commit.
Ending(steps) ==
    /\ steps # <<>>
    /\ \A k \in DOMAIN steps : steps[k] \in StatementNames
    /\ Last(steps) = "commit"

StepsOK == Ending(work.steps)

LEMMA WritingEnds ==
    ASSUME Holds, NEW tail \in Seq(StatementNames), tail # <<>>, Last(tail) = "commit", Writing(tail)
    PROVE  StepsOK
<1> DEFINE left == work.left
           s == Writes(left) \o tail
<1>1. left \in Seq(Envelopes) /\ work.steps = s
    BY DEF Holds, WorkType, Writing
<1>2. Writes(left) \in Seq(StatementNames) /\ Len(Writes(left)) = Len(left)
    BY <1>1, WritesTyped
<1>3. tail[Len(tail)] = "commit" /\ Len(tail) \in Nat \ {0}
    BY DEF Last
<1>4. s \in Seq(StatementNames) /\ Len(s) = Len(left) + Len(tail)
      /\ s[Len(left) + Len(tail)] = tail[Len(tail)] /\ Len(left) \in Nat
  <2> DEFINE w == Writes(left)
  <2>1. w \in Seq(StatementNames) /\ Len(w) = Len(left) /\ Len(left) \in Nat
      BY <1>1, <1>2
  <2> HIDE DEF w, left
  <2>2. w \o tail \in Seq(StatementNames) /\ Len(w \o tail) = Len(w) + Len(tail)
      BY <2>1
  <2>3. (w \o tail)[Len(w) + Len(tail)] = tail[Len(tail)]
      BY <1>3, <2>1
  <2> QED BY <2>1, <2>2, <2>3 DEF w
<1> HIDE DEF left
<1>6. Last(s) = "commit"
    BY <1>3, <1>4 DEF Last
<1> HIDE DEF s
<1>7. s # <<>> /\ \A k \in DOMAIN s : s[k] \in StatementNames
    BY <1>3, <1>4
<1> QED BY <1>1, <1>6, <1>7 DEF StepsOK, Ending

LEMMA FewEnd ==
    /\ Ending(<<"commit">>)
    /\ Ending(<<"fence", "commit">>)
    /\ Ending(<<"survivors", "fence", "commit">>)
    /\ Ending(<<"update", "fence", "commit">>)
    /\ Ending(<<"write", "commit">>)
    /\ Ending(<<"insertIdentity", "commit">>)
    /\ Ending(<<"expected", "insertIdentity", "commit">>)
    /\ Ending(<<"clearFreshness", "insertIdentity", "commit">>)
    /\ Ending(<<"deleteMessages", "clearFreshness", "insertIdentity", "commit">>)
    /\ Ending(<<"expected", "deleteMessages", "clearFreshness", "insertIdentity", "commit">>)
    /\ Ending(<<"clearFreshness", "commit">>)
    /\ Ending(<<"clearBinding", "clearFreshness", "commit">>)
    /\ Ending(<<"deleteIdentity", "clearBinding", "clearFreshness", "commit">>)
    /\ Ending(<<"deleteMessages", "deleteIdentity", "clearBinding", "clearFreshness", "commit">>)
<1>1. Ending(<<"commit">>)
    BY DEF Ending, StatementNames, Last
<1>2. Ending(<<"fence", "commit">>)
    BY DEF Ending, StatementNames, Last
<1>3. Ending(<<"survivors", "fence", "commit">>)
    BY DEF Ending, StatementNames, Last
<1>4. Ending(<<"update", "fence", "commit">>)
    BY DEF Ending, StatementNames, Last
<1>5. Ending(<<"write", "commit">>)
    BY DEF Ending, StatementNames, Last
<1>6. Ending(<<"insertIdentity", "commit">>)
    BY DEF Ending, StatementNames, Last
<1>7. Ending(<<"expected", "insertIdentity", "commit">>)
    BY DEF Ending, StatementNames, Last
<1>8. Ending(<<"clearFreshness", "insertIdentity", "commit">>)
    BY DEF Ending, StatementNames, Last
<1>9. Ending(<<"deleteMessages", "clearFreshness", "insertIdentity", "commit">>)
    BY DEF Ending, StatementNames, Last
<1>10. Ending(<<"expected", "deleteMessages", "clearFreshness", "insertIdentity", "commit">>)
    BY DEF Ending, StatementNames, Last
<1>11. Ending(<<"clearFreshness", "commit">>)
    BY DEF Ending, StatementNames, Last
<1>12. Ending(<<"clearBinding", "clearFreshness", "commit">>)
    BY DEF Ending, StatementNames, Last
<1>13. Ending(<<"deleteIdentity", "clearBinding", "clearFreshness", "commit">>)
    BY DEF Ending, StatementNames, Last
<1>14. Ending(<<"deleteMessages", "deleteIdentity", "clearBinding", "clearFreshness", "commit">>)
    BY DEF Ending, StatementNames, Last
<1> QED BY <1>1, <1>2, <1>3, <1>4, <1>5, <1>6, <1>7, <1>8, <1>9, <1>10, <1>11, <1>12, <1>13, <1>14

LEMMA RunningEnds ==
    ASSUME Holds, Running
    PROVE  StepsOK
<1>1. CASE Upserting
  <2>1. <<"commit">> \in Seq(StatementNames) /\ <<"commit">> # <<>> /\ Last(<<"commit">>) = "commit"
      BY StepsTyped DEF Last
  <2> QED BY <1>1, <2>1, WritingEnds DEF Upserting
<1>2. CASE Reconciling
  <2> DEFINE tail == <<"prune", "survivors", "fence", "commit">>
  <2>1. tail \in Seq(StatementNames) /\ tail # <<>> /\ Last(tail) = "commit"
      BY StepsTyped DEF Last
  <2>2. CASE Writing(tail)
    <3> HIDE DEF tail
    <3> QED BY <2>1, <2>2, WritingEnds
  <2>3. CASE ~Writing(tail)
      BY <1>2, <2>3, FewEnd DEF Reconciling, StepsOK
  <2> QED BY <2>2, <2>3
<1>3. CASE Putting
    BY <1>3, FewEnd DEF Putting, StepsOK
<1>4. CASE Caching
    BY <1>4, FewEnd DEF Caching, StepsOK
<1>5. CASE Recording
    BY <1>5, FewEnd DEF Recording, StepsOK
<1>6. CASE Purging
    BY <1>6, FewEnd DEF Purging, StepsOK
<1> QED BY <1>1, <1>2, <1>3, <1>4, <1>5, <1>6 DEF Running

\* The tables, what is answered and what a running transaction holds are
\* always of their types; and no transaction is left without a commit to come.
THEOREM TypeCorrect == StoreSpec => []TypeOK
<1>1. IInv => TypeOK
  <2> SUFFICES ASSUME IInv
               PROVE  TypeOK
      OBVIOUS
  <2>1. disk \in Tables /\ ReturnedOK
      BY DEF IInv
  <2>2. ASSUME work # NoWork
        PROVE  StepsOK /\ work.image \in Tables /\ Len(work.left) <= Len(work.batch)
      BY <2>2, RunningEnds DEF IInv, Holds, WorkType
  <2> QED BY <2>1, <2>2 DEF TypeOK, ReturnedOK, AnswerKinds, StepsOK, Ending
<1> QED BY <1>1, Invariance, PTL
=============================================================================
