--------------------------- MODULE StackListProofs ---------------------------
(***************************************************************************)
(* Proofs about StackList: the linked list of core/mb-wm-stack.c is never  *)
(* torn, for any set of clients, and each of its operations does to the    *)
(* stacking order what StackOrder says.                                    *)
(*                                                                         *)
(* Everything rests on two lemmas: inserting a client above the k-th one   *)
(* (InsertRepresents) and unlinking the k-th one (UnlinkRepresents) turn a *)
(* list that stores a sequence into a list that stores the sequence with   *)
(* the client added or dropped.  The enumerations visit exactly that       *)
(* sequence (WalkUpIsOrder, WalkDownIsReverse), by a least-number argument. *)
(***************************************************************************)
EXTENDS StackList, WellFoundedInduction, TLAPS

\* s, of length n, with c put directly above its k-th client, and without it.
PutAt(s, n, k, c) ==
  [i \in 1..(n + 1) |->
     IF i <= k THEN s[i] ELSE IF i = k + 1 THEN c ELSE s[i - 1]]

\* The client_below argument that names the k-th client, NULL for k = 0.
BelowAt(s, k) == IF k = 0 THEN NULL ELSE s[k]

TakeOut(s, n, k) == [i \in 1..(n - 1) |-> IF i < k THEN s[i] ELSE s[i + 1]]

\* The list L stores the stacking order s.
Stores(L, s) ==
  /\ L \in Stacks
  /\ s \in [1..L.n -> Clients]
  /\ Represents(L, s)

-----------------------------------------------------------------------------
\* A nonempty set of natural numbers has a least element.
LEMMA LeastNumber ==
  ASSUME NEW T \in SUBSET Nat, T # {}
  PROVE  \E m \in T : \A k \in T : m <= k
<1> DEFINE R == OpToRel(<, Nat)
<1>1. PICK m \in T : \A k \in T : <<k, m>> \notin R
  BY WFMin, NatLessThanWellFounded, Zenon
<1>2. ASSUME NEW k \in Nat, NEW j \in Nat, k < j
      PROVE  <<k, j>> \in R
  BY <1>2 DEF OpToRel
<1> HIDE DEF R
<1>3. ASSUME NEW k \in T PROVE m <= k
  <2>1. k \in Nat /\ m \in Nat
    OBVIOUS
  <2>2. ~(k < m)
    BY <1>1, <1>2, <2>1, Zenon
  <2> QED
    BY <2>1, <2>2
<1> QED
  BY <1>3

\* M is the list L, which stores s, with c linked in above its k-th client.
InsertedLinks(L, s, c, k, M) ==
  /\ M \in Stacks
  /\ M.n = L.n + 1
  /\ M.bottom = IF k = 0 THEN c ELSE L.bottom
  /\ M.top = IF k = L.n THEN c ELSE L.top
  /\ \A x \in Clients :
       /\ M.above[x] = IF x = c THEN IF k < L.n THEN s[k + 1] ELSE NULL
                       ELSE IF k > 0 /\ x = s[k] THEN c ELSE L.above[x]
       /\ M.below[x] = IF x = c THEN IF k > 0 THEN s[k] ELSE NULL
                       ELSE IF k < L.n /\ x = s[k + 1] THEN c ELSE L.below[x]

\* The assignments of mb_wm_stack_insert_above_client link c in.
LEMMA InsertLinks ==
  ASSUME NEW L \in Stacks, NEW s \in [1..L.n -> Clients], Represents(L, s),
         NEW c \in Clients, \A i \in 1..L.n : s[i] # c,
         NEW k \in 0..L.n, NEW M,
         M = Insert(L, c, BelowAt(s, k))
  PROVE  InsertedLinks(L, s, c, k, M)
<1>1. /\ L.n \in Nat
      /\ L.above \in [Clients -> Pointers]
      /\ L.below \in [Clients -> Pointers]
      /\ L.top \in Pointers
      /\ L.bottom \in Pointers
  BY DEF Stacks
<1>2. CASE k = 0
  <2>1. M = InsertAtBottom(L, c)
    BY <1>2 DEF Insert, BelowAt
  <2>2. L.above[c] = NULL /\ L.below[c] = NULL
    BY DEF Represents
  <2>3. /\ L.bottom = IF L.n > 0 THEN s[1] ELSE NULL
        /\ (L.top = NULL) = (L.n = 0)
    BY <1>1, NullIsNoClient DEF Represents
  <2>4. /\ M.above = IF L.n > 0 THEN [L.above EXCEPT ![c] = s[1]] ELSE L.above
        /\ M.below = IF L.n > 0
                     THEN [L.below EXCEPT ![c] = NULL, ![s[1]] = c] ELSE L.below
    BY <1>1, <2>1, <2>3, NullIsNoClient, SMTT(60) DEF InsertAtBottom
  <2>5. M.above \in [Clients -> Pointers] /\ M.below \in [Clients -> Pointers]
    BY <1>1, <2>4 DEF Pointers
  <2> QED
    BY <1>1, <1>2, <2>1, <2>2, <2>3, <2>4, <2>5, NullIsNoClient
    DEF InsertedLinks, InsertAtBottom, Stacks, Pointers
<1>3. CASE k > 0
  <2> DEFINE b == s[k]
  <2>1. b \in Clients /\ b # NULL /\ b # c
    BY <1>1, <1>3, NullIsNoClient
  <2>2. M = InsertAbove(L, c, b)
    BY <1>3, <2>1 DEF Insert, BelowAt
  <2>3. L.above[b] = IF k < L.n THEN s[k + 1] ELSE NULL
    BY <1>1, <1>3 DEF Represents
  <2>4. (b = L.top) = (k = L.n)
    BY <1>1, <1>3 DEF Represents
  <2>5. L.above[b] # NULL => L.above[b] # c /\ L.above[b] # b
    BY <1>1, <1>3, <2>3 DEF Represents
  <2>6. M.above \in [Clients -> Pointers] /\ M.below \in [Clients -> Pointers]
    BY <1>1, <2>1, <2>2 DEF InsertAbove, Pointers
  <2> QED
    BY <1>1, <1>3, <2>1, <2>2, <2>3, <2>4, <2>5, <2>6, NullIsNoClient, SMTT(40)
    DEF InsertedLinks, InsertAbove, Stacks, Pointers
<1> QED
  BY <1>1, <1>2, <1>3

\* mb_wm_stack_insert_above_client puts a client that is off the list directly
\* above the k-th one, or at the bottom for k = 0.
LEMMA InsertRepresents ==
  ASSUME NEW L \in Stacks, NEW s \in [1..L.n -> Clients], Represents(L, s),
         NEW c \in Clients, \A i \in 1..L.n : s[i] # c,
         NEW k \in 0..L.n, NEW M,
         M = Insert(L, c, BelowAt(s, k))
  PROVE  Stores(M, PutAt(s, L.n, k, c))
<1> DEFINE n == L.n
           t == PutAt(s, n, k, c)
<1>1. n \in Nat
  BY DEF Stacks
<1>2. InsertedLinks(L, s, c, k, M)
  BY InsertLinks
<1>3. t \in [1..(n + 1) -> Clients]
  BY <1>1 DEF PutAt
<1>4. /\ \A i \in 1..k : t[i] = s[i]
      /\ t[k + 1] = c
      /\ \A i \in (k + 2)..(n + 1) : t[i] = s[i - 1]
  BY <1>1 DEF PutAt
<1>5. \A i, j \in 1..n : s[i] = s[j] => i = j
  BY DEF Represents
<1>6. \A i, j \in 1..(n + 1) : t[i] = t[j] => i = j
  BY <1>1, <1>5 DEF PutAt
<1>7. M.top = t[n + 1] /\ M.bottom = t[1]
  BY <1>1, <1>2 DEF InsertedLinks, PutAt, Represents
<1>8. ASSUME NEW i \in 1..(n + 1)
      PROVE  /\ M.above[t[i]] = IF i < n + 1 THEN t[i + 1] ELSE NULL
             /\ M.below[t[i]] = IF i > 1 THEN t[i - 1] ELSE NULL
  <2>1. \A j \in 1..n : /\ L.above[s[j]] = IF j < n THEN s[j + 1] ELSE NULL
                        /\ L.below[s[j]] = IF j > 1 THEN s[j - 1] ELSE NULL
    BY DEF Represents
  <2>2. t[i] \in Clients
    BY <1>3
  <2>3. \A x \in Clients :
          /\ M.above[x] = IF x = c THEN IF k < n THEN s[k + 1] ELSE NULL
                          ELSE IF k > 0 /\ x = s[k] THEN c ELSE L.above[x]
          /\ M.below[x] = IF x = c THEN IF k > 0 THEN s[k] ELSE NULL
                          ELSE IF k < n /\ x = s[k + 1] THEN c ELSE L.below[x]
    BY <1>2 DEF InsertedLinks
  <2>4. CASE i <= k
    <3>1. t[i] = s[i] /\ t[i + 1] = (IF i = k THEN c ELSE s[i + 1])
      BY <1>1, <2>4 DEF PutAt
    <3>2. i > 1 => t[i - 1] = s[i - 1]
      BY <1>1, <2>4 DEF PutAt
    <3>3. (s[i] = s[k]) = (i = k) /\ (k < n => s[i] # s[k + 1])
      BY <1>1, <1>5, <2>4
    <3> QED
      BY <1>1, <2>1, <2>2, <2>3, <2>4, <3>1, <3>2, <3>3
  <2>5. CASE i = k + 1
    BY <1>1, <2>3, <2>5 DEF PutAt
  <2>6. CASE i > k + 1
    <3>1. t[i] = s[i - 1] /\ t[i - 1] = (IF i = k + 2 THEN c ELSE s[i - 2])
      BY <1>1, <2>6 DEF PutAt
    <3>2. i < n + 1 => t[i + 1] = s[i]
      BY <1>1, <2>6 DEF PutAt
    <3>3. (s[i - 1] = s[k + 1]) = (i = k + 2) /\ (k > 0 => s[i - 1] # s[k])
      BY <1>1, <1>5, <2>6
    <3>4. /\ s[i - 1] # c
          /\ L.above[s[i - 1]] = IF i - 1 < n THEN s[i] ELSE NULL
          /\ L.below[s[i - 1]] = IF i - 1 > 1 THEN s[i - 2] ELSE NULL
      BY <1>1, <2>1, <2>6
    <3> QED
      BY <1>1, <2>2, <2>3, <2>6, <3>1, <3>2, <3>3, <3>4
  <2> QED
    BY <1>1, <2>4, <2>5, <2>6
<1>9. ASSUME NEW x \in Clients, \A i \in 1..(n + 1) : t[i] # x
      PROVE  M.above[x] = NULL /\ M.below[x] = NULL
  <2>1. x # c
    BY <1>1, <1>4, <1>9
  <2>2. ASSUME NEW i \in 1..n PROVE s[i] # x
    <3>1. CASE i <= k
      <4>1. t[i] = s[i] /\ i \in 1..(n + 1)
        BY <1>1, <3>1 DEF PutAt
      <4> QED
        BY <1>9, <4>1
    <3>2. CASE i > k
      <4>1. t[i + 1] = s[i] /\ i + 1 \in 1..(n + 1)
        BY <1>1, <3>2 DEF PutAt
      <4> QED
        BY <1>9, <4>1
    <3> QED
      BY <1>1, <3>1, <3>2
  <2>3. L.above[x] = NULL /\ L.below[x] = NULL
    BY <2>2 DEF Represents
  <2> QED
    BY <1>1, <2>1, <2>2, <2>3, <1>2 DEF InsertedLinks
<1>10. M \in Stacks /\ M.n = n + 1
  BY <1>2 DEF InsertedLinks
<1> HIDE DEF t
<1>11. Represents(M, t)
  <2>1. 1..M.n = 1..(n + 1) /\ M.n > 0
    BY <1>1, <1>10
  <2>2. \A i \in 1..M.n :
          /\ M.above[t[i]] = IF i < M.n THEN t[i + 1] ELSE NULL
          /\ M.below[t[i]] = IF i > 1 THEN t[i - 1] ELSE NULL
    BY <1>8, <1>10
  <2>3. \A x \in Clients :
          (\A i \in 1..M.n : t[i] # x) => M.above[x] = NULL /\ M.below[x] = NULL
    BY <1>9, <1>10
  <2> QED
    BY <1>6, <1>7, <1>10, <2>1, <2>2, <2>3 DEF Represents
<1> QED
  BY <1>3, <1>10, <1>11 DEF Stores, t

-----------------------------------------------------------------------------
\* M is the list L, which stores s, with its k-th client linked out.
UnlinkedLinks(L, s, k, M) ==
  /\ M \in Stacks
  /\ M.n = L.n - 1
  /\ M.bottom = IF k = 1 THEN IF L.n > 1 THEN s[2] ELSE NULL ELSE L.bottom
  /\ M.top = IF k = L.n THEN IF L.n > 1 THEN s[L.n - 1] ELSE NULL ELSE L.top
  /\ \A x \in Clients :
       /\ M.above[x] = IF x = s[k] THEN NULL
                       ELSE IF k > 1 /\ x = s[k - 1]
                       THEN IF k < L.n THEN s[k + 1] ELSE NULL
                       ELSE L.above[x]
       /\ M.below[x] = IF x = s[k] THEN NULL
                       ELSE IF k < L.n /\ x = s[k + 1]
                       THEN IF k > 1 THEN s[k - 1] ELSE NULL
                       ELSE L.below[x]

\* The assignments of mb_wm_stack_remove link the client out.
LEMMA UnlinkLinks ==
  ASSUME NEW L \in Stacks, NEW s \in [1..L.n -> Clients], Represents(L, s),
         NEW k \in 1..L.n, NEW M, M = Unlink(L, s[k])
  PROVE  UnlinkedLinks(L, s, k, M)
<1> DEFINE n == L.n
           c == s[k]
           up == IF k < n THEN s[k + 1] ELSE NULL
           down == IF k > 1 THEN s[k - 1] ELSE NULL
<1>1. /\ n \in Nat
      /\ n > 0
      /\ L.above \in [Clients -> Pointers]
      /\ L.below \in [Clients -> Pointers]
      /\ L.top \in Pointers
      /\ L.bottom \in Pointers
  BY DEF Stacks
<1>2. L.above[c] = up /\ L.below[c] = down
  BY <1>1 DEF Represents
<1>3. L.top = s[n] /\ L.bottom = s[1]
  BY <1>1 DEF Represents
<1>4. /\ (L.top = c) = (k = n)
      /\ (L.bottom = c) = (k = 1)
      /\ (L.top = L.bottom) = (n = 1)
  BY <1>1, <1>3 DEF Represents
<1>5. /\ c \in Clients
      /\ up \in Pointers /\ down \in Pointers
      /\ (up # NULL) = (k < n)
      /\ (down # NULL) = (k > 1)
  BY <1>1, NullIsNoClient DEF Pointers
<1>6. c # up /\ c # down
  BY <1>1, <1>5, NullIsNoClient DEF Represents
<1> HIDE DEF up, down, c
<1>7. M = [above  |-> [(IF n # 1 /\ k > 1 THEN [L.above EXCEPT ![down] = up]
                        ELSE L.above) EXCEPT ![c] = NULL],
           below  |-> [(IF n # 1 /\ k < n THEN [L.below EXCEPT ![up] = down]
                        ELSE L.below) EXCEPT ![c] = NULL],
           top    |-> IF k # n THEN L.top ELSE IF n = 1 THEN NULL ELSE down,
           bottom |-> IF k # 1 THEN L.bottom ELSE IF n = 1 THEN NULL ELSE up,
           n      |-> n - 1]
  BY <1>2, <1>4, <1>5 DEF Unlink, c
<1>8. M \in Stacks
  <2>1. NULL \in Pointers
    BY DEF Pointers
  <2>2. M.above \in [Clients -> Pointers]
    <3>1. [L.above EXCEPT ![down] = up] \in [Clients -> Pointers]
      BY <1>1, <1>5
    <3> QED
      BY <1>1, <1>5, <1>7, <2>1, <3>1
  <2>3. M.below \in [Clients -> Pointers]
    <3>1. [L.below EXCEPT ![up] = down] \in [Clients -> Pointers]
      BY <1>1, <1>5
    <3> QED
      BY <1>1, <1>5, <1>7, <2>1, <3>1
  <2>4. M.top \in Pointers /\ M.bottom \in Pointers /\ M.n \in Nat
    BY <1>1, <1>5, <1>7, <2>1
  <2> QED
    BY <1>7, <2>2, <2>3, <2>4 DEF Stacks
<1>9. ASSUME NEW x \in Clients
      PROVE  /\ M.above[x] = IF x = c THEN NULL
                             ELSE IF k > 1 /\ x = down THEN up ELSE L.above[x]
             /\ M.below[x] = IF x = c THEN NULL
                             ELSE IF k < n /\ x = up THEN down ELSE L.below[x]
  BY <1>1, <1>5, <1>7
<1>10. M.n = n - 1
  BY <1>7
<1>11. M.bottom = IF k = 1 THEN IF n > 1 THEN s[2] ELSE NULL ELSE L.bottom
  BY <1>1, <1>7 DEF up
<1>12. M.top = IF k = n THEN IF n > 1 THEN s[n - 1] ELSE NULL ELSE L.top
  BY <1>1, <1>7 DEF down
<1> QED
  BY <1>8, <1>9, <1>10, <1>11, <1>12 DEF UnlinkedLinks, up, down, c

\* mb_wm_stack_remove drops the k-th client and keeps the order of the others.
LEMMA UnlinkRepresents ==
  ASSUME NEW L \in Stacks, NEW s \in [1..L.n -> Clients], Represents(L, s),
         NEW k \in 1..L.n, NEW M, M = Unlink(L, s[k])
  PROVE  /\ M \in Stacks
         /\ M.n = L.n - 1
         /\ TakeOut(s, L.n, k) \in [1..M.n -> Clients]
         /\ \A i \in 1..M.n : TakeOut(s, L.n, k)[i] # s[k]
         /\ Represents(M, TakeOut(s, L.n, k))
<1> DEFINE n == L.n
           t == TakeOut(s, n, k)
<1>1. n \in Nat /\ n > 0
  BY DEF Stacks
<1>2. UnlinkedLinks(L, s, k, M)
  BY UnlinkLinks
<1>3. t \in [1..(n - 1) -> Clients]
  BY <1>1 DEF TakeOut
<1>4. \A i, j \in 1..n : s[i] = s[j] => i = j
  BY DEF Represents
<1>5. \A i \in 1..(n - 1) : t[i] = IF i < k THEN s[i] ELSE s[i + 1]
  BY <1>1 DEF TakeOut
<1>6. M \in Stacks /\ M.n = n - 1
  BY <1>2 DEF UnlinkedLinks
<1> HIDE DEF t
<1>7. \A i, j \in 1..(n - 1) : t[i] = t[j] => i = j
  BY <1>1, <1>4, <1>5
<1>8. \A i \in 1..(n - 1) : t[i] # s[k]
  BY <1>1, <1>4, <1>5
<1>9. /\ n - 1 = 0 => M.top = NULL /\ M.bottom = NULL
      /\ n - 1 > 0 => M.top = t[n - 1] /\ M.bottom = t[1]
  BY <1>1, <1>2, <1>5 DEF UnlinkedLinks, Represents
<1>10. ASSUME NEW i \in 1..(n - 1)
       PROVE  /\ M.above[t[i]] = IF i < n - 1 THEN t[i + 1] ELSE NULL
              /\ M.below[t[i]] = IF i > 1 THEN t[i - 1] ELSE NULL
  <2>1. \A j \in 1..n : /\ L.above[s[j]] = IF j < n THEN s[j + 1] ELSE NULL
                        /\ L.below[s[j]] = IF j > 1 THEN s[j - 1] ELSE NULL
    BY DEF Represents
  <2>2. /\ M.above[t[i]] = IF k > 1 /\ t[i] = s[k - 1]
                           THEN IF k < n THEN s[k + 1] ELSE NULL
                           ELSE L.above[t[i]]
        /\ M.below[t[i]] = IF k < n /\ t[i] = s[k + 1]
                           THEN IF k > 1 THEN s[k - 1] ELSE NULL
                           ELSE L.below[t[i]]
    BY <1>2, <1>3, <1>8 DEF UnlinkedLinks
  <2>3. CASE i < k
    <3>1. /\ t[i] = s[i]
          /\ i < n - 1 => t[i + 1] = IF i + 1 = k THEN s[k + 1] ELSE s[i + 1]
          /\ i > 1 => t[i - 1] = s[i - 1]
      BY <1>1, <1>5, <2>3
    <3>2. /\ k > 1 => (s[i] = s[k - 1]) = (i = k - 1)
          /\ k < n => s[i] # s[k + 1]
      BY <1>1, <1>4, <2>3
    <3> QED
      BY <1>1, <2>1, <2>2, <2>3, <3>1, <3>2
  <2>4. CASE i >= k
    <3>1. /\ t[i] = s[i + 1]
          /\ i < n - 1 => t[i + 1] = s[i + 2]
          /\ i > 1 => t[i - 1] = IF i = k THEN s[k - 1] ELSE s[i]
      BY <1>1, <1>5, <2>4
    <3>2. /\ k > 1 => s[i + 1] # s[k - 1]
          /\ k < n => (s[i + 1] = s[k + 1]) = (i = k)
      BY <1>1, <1>4, <2>4
    <3> QED
      BY <1>1, <2>1, <2>2, <2>4, <3>1, <3>2
  <2> QED
    BY <1>1, <2>3, <2>4
<1>11. ASSUME NEW x \in Clients, \A i \in 1..(n - 1) : t[i] # x
       PROVE  M.above[x] = NULL /\ M.below[x] = NULL
  <2>1. CASE x = s[k]
    BY <1>2, <2>1 DEF UnlinkedLinks
  <2>2. CASE x # s[k]
    <3>1. ASSUME NEW j \in 1..n PROVE s[j] # x
      <4>1. CASE j < k
        BY <1>1, <1>5, <1>11, <4>1
      <4>2. CASE j > k
        <5>1. t[j - 1] = s[j] /\ j - 1 \in 1..(n - 1)
          BY <1>1, <1>5, <4>2
        <5> QED
          BY <1>11, <5>1
      <4> QED
        BY <1>1, <2>2, <4>1, <4>2
    <3>2. L.above[x] = NULL /\ L.below[x] = NULL
      BY <3>1 DEF Represents
    <3>3. /\ k > 1 => x # s[k - 1]
          /\ k < n => x # s[k + 1]
      BY <1>1, <3>1
    <3> QED
      BY <1>2, <2>2, <3>2, <3>3 DEF UnlinkedLinks
  <2> QED
    BY <2>1, <2>2
<1>12. Represents(M, t)
  BY <1>1, <1>6, <1>7, <1>9, <1>10, <1>11 DEF Represents
<1> QED
  BY <1>3, <1>6, <1>8, <1>12 DEF t

-----------------------------------------------------------------------------
\* A function on 1..n is a sequence of length n.
LEMMA StoredLength ==
  ASSUME NEW L, NEW s, Stores(L, s)
  PROVE  L.n \in Nat /\ s \in Seq(Clients) /\ Len(s) = L.n
BY DEF Stores, Stacks

\* The positions of a stored order determine its clients.
LEMMA StoredPosition ==
  ASSUME NEW L, NEW s, Stores(L, s), NEW k \in 1..Len(s)
  PROVE  Order!Position(s, s[k]) = k
<1>1. L.n \in Nat /\ Len(s) = L.n
  BY StoredLength
<1>2. \A i \in 1..Len(s) : s[i] = s[k] => i = k
  BY <1>1 DEF Stores, Represents
<1> QED
  BY <1>2 DEF Order!Position

\* A client is linked into the list exactly when it is in the order.
LEMMA StoredClients ==
  ASSUME NEW L, NEW s, Stores(L, s), NEW c \in Clients
  PROVE  OnStack(L, c) <=> c \in Order!Stacked(s)
<1>1. L.n \in Nat /\ Len(s) = L.n
  BY StoredLength
<1>2. ASSUME NEW k \in 1..L.n, s[k] = c
      PROVE  OnStack(L, c)
  <2>1. CASE k = L.n
    BY <1>1, <1>2, <2>1 DEF Stores, Represents, OnStack
  <2>2. CASE k < L.n
    <3>1. L.above[c] = s[k + 1] /\ s[k + 1] \in Clients
      BY <1>1, <1>2, <2>2 DEF Stores, Represents
    <3> QED
      BY <3>1, NullIsNoClient DEF OnStack
  <2> QED
    BY <1>1, <2>1, <2>2
<1>3. ASSUME \A k \in 1..L.n : s[k] # c
      PROVE  ~OnStack(L, c)
  <2>1. L.above[c] = NULL
    BY <1>3 DEF Stores, Represents
  <2>2. L.top # c
    BY <1>1, <1>3, NullIsNoClient DEF Stores, Represents
  <2> QED
    BY <2>1, <2>2 DEF OnStack
<1> QED
  BY <1>1, <1>2, <1>3 DEF Order!Stacked

\* mb_wm_stack_insert_above_client as a function of the order.
LEMMA InsertStores ==
  ASSUME NEW L, NEW s, Stores(L, s),
         NEW c \in Clients, c \notin Order!Stacked(s), NEW k \in 0..Len(s)
  PROVE  Stores(Insert(L, c, BelowAt(s, k)),
                Order!PutAbove(s, k, c))
<1>1. L.n \in Nat /\ Len(s) = L.n
  BY StoredLength
<1>2. Order!PutAbove(s, k, c) = PutAt(s, L.n, k, c)
  BY <1>1 DEF Order!PutAbove, PutAt
<1>3. \A i \in 1..L.n : s[i] # c
  BY <1>1 DEF Order!Stacked
<1>4. /\ L \in Stacks
      /\ s \in [1..L.n -> Clients]
      /\ Represents(L, s)
      /\ k \in 0..L.n
  BY <1>1 DEF Stores
<1>5. ASSUME NEW N, N = Insert(L, c, BelowAt(s, k))
      PROVE  Stores(N, PutAt(s, L.n, k, c))
  BY <1>3, <1>4, <1>5, InsertRepresents
<1> QED
  BY <1>2, <1>5

\* mb_wm_stack_remove as a function of the order.
LEMMA UnlinkStores ==
  ASSUME NEW L, NEW s, Stores(L, s), NEW c \in Order!Stacked(s)
  PROVE  /\ Stores(Unlink(L, c), Order!Without(s, c))
         /\ Order!Stacked(Order!Without(s, c)) = Order!Stacked(s) \ {c}
         /\ Len(Order!Without(s, c)) = Len(s) - 1
<1>1. L.n \in Nat /\ Len(s) = L.n
  BY StoredLength
<1>2. PICK k \in 1..L.n : s[k] = c
  BY <1>1 DEF Order!Stacked
<1>3. Order!Without(s, c) = TakeOut(s, L.n, k)
  BY <1>1, <1>2, StoredPosition DEF Order!Without, Order!DropAt, TakeOut
<1> DEFINE M == Unlink(L, s[k])
           t == TakeOut(s, L.n, k)
<1>4. /\ L \in Stacks
      /\ s \in [1..L.n -> Clients]
      /\ Represents(L, s)
  BY DEF Stores
<1>5. /\ M \in Stacks
      /\ M.n = L.n - 1
      /\ t \in [1..M.n -> Clients]
      /\ \A i \in 1..M.n : t[i] # s[k]
      /\ Represents(M, t)
  BY <1>4, UnlinkRepresents
<1>6. Stores(M, t)
  BY <1>5 DEF Stores
<1>7. Len(t) = L.n - 1
  BY <1>5, <1>6, StoredLength
<1>8. \A i \in 1..(L.n - 1) : t[i] = IF i < k THEN s[i] ELSE s[i + 1]
  BY <1>1 DEF TakeOut
<1> HIDE DEF t, M
<1>9. Order!Stacked(t) = Order!Stacked(s) \ {c}
  <2>1. ASSUME NEW x \in Order!Stacked(t)
        PROVE  x \in Order!Stacked(s) \ {c}
    <3>1. PICK i \in 1..(L.n - 1) : x = t[i]
      BY <1>7, <2>1 DEF Order!Stacked
    <3>2. x = s[i] \/ x = s[i + 1]
      BY <1>8, <3>1
    <3> QED
      BY <1>1, <1>2, <1>5, <3>1, <3>2, SMTT(60) DEF Order!Stacked
  <2>2. ASSUME NEW x \in Order!Stacked(s), x # c
        PROVE  x \in Order!Stacked(t)
    <3>1. PICK i \in 1..L.n : x = s[i]
      BY <1>1 DEF Order!Stacked
    <3>2. i # k
      BY <1>2, <2>2, <3>1
    <3>3. CASE i < k
      <4>1. t[i] = s[i] /\ i \in 1..(L.n - 1)
        BY <1>1, <1>8, <3>3
      <4> QED
        BY <1>7, <3>1, <4>1 DEF Order!Stacked
    <3>4. CASE i > k
      <4>1. t[i - 1] = s[i] /\ i - 1 \in 1..(L.n - 1)
        BY <1>1, <1>8, <3>4
      <4> QED
        BY <1>7, <3>1, <4>1 DEF Order!Stacked
    <3> QED
      BY <1>1, <3>2, <3>3, <3>4
  <2> QED
    BY <2>1, <2>2
<1> QED
  BY <1>1, <1>2, <1>3, <1>6, <1>7, <1>9 DEF t, M

\* mb_wm_stack_move_above_client as a function of the order.
LEMMA MoveAboveStores ==
  ASSUME NEW L, NEW s, Stores(L, s),
         NEW c \in Order!Stacked(s), NEW b \in Order!Stacked(s)
  PROVE  Stores(MoveAbove(L, c, b), Order!MovedAbove(s, c, b))
<1>1. CASE c = b
  BY <1>1 DEF MoveAbove, Order!MovedAbove
<1>2. CASE c # b
  <2> DEFINE t == Order!Without(s, c)
             M == Unlink(L, c)
  <2>1. /\ Stores(M, t)
        /\ Order!Stacked(t) = Order!Stacked(s) \ {c}
    BY UnlinkStores
  <2> HIDE DEF t, M
  <2>2. PICK k \in 1..Len(t) : t[k] = b
    BY <1>2, <2>1 DEF Order!Stacked
  <2>3. Order!Position(t, b) = k
    BY <2>1, <2>2, StoredPosition
  <2>4. c \in Clients /\ c \notin Order!Stacked(t) /\ b \in Clients
    BY <2>1, StoredLength DEF Stores, Order!Stacked
  <2>5. Len(t) \in Nat
    BY <2>1, StoredLength
  <2>6. Stores(Insert(M, c, BelowAt(t, k)),
               Order!PutAbove(t, k, c))
    BY <2>1, <2>2, <2>4, <2>5, InsertStores
  <2>7. k # 0
    BY <2>5
  <2> QED
    BY <1>2, <2>2, <2>3, <2>6, <2>7
    DEF MoveAbove, BelowAt, Order!MovedAbove, Order!PutAboveClient, t, M
<1> QED
  BY <1>1, <1>2

-----------------------------------------------------------------------------
\* At most one sequence of a given length follows a link from a start: two of
\* them cannot differ for a first time.
LEMMA WalkUnique ==
  ASSUME NEW n \in Nat, NEW start, NEW link,
         NEW v \in [1..n -> Clients], NEW w \in [1..n -> Clients],
         IsWalk(v, n, start, link), IsWalk(w, n, start, link)
  PROVE  v = w
<1>1. SUFFICES ASSUME NEW i \in 1..n, v[i] # w[i] PROVE FALSE
  OBVIOUS
<1> DEFINE T == {j \in 1..n : v[j] # w[j]}
<1>2. T \in SUBSET Nat /\ T # {}
  BY <1>1
<1>3. PICK m \in T : \A k \in T : m <= k
  BY <1>2, LeastNumber
<1>4. m \in 1..n /\ v[m] # w[m]
  BY <1>3
<1>5. n > 0
  BY <1>4
<1>6. m # 1
  BY <1>4, <1>5 DEF IsWalk
<1>7. m - 1 \in 1..(n - 1) /\ m - 1 \notin T
  BY <1>3, <1>4, <1>6
<1>8. v[m - 1] = w[m - 1]
  BY <1>7
<1>9. v[(m - 1) + 1] = link[v[m - 1]] /\ w[(m - 1) + 1] = link[w[m - 1]]
  BY <1>5, <1>7 DEF IsWalk
<1> QED
  BY <1>4, <1>8, <1>9

\* mb_wm_stack_enumerate visits the stored order, from the bottom.
LEMMA WalkUpIsOrder ==
  ASSUME NEW L, NEW s, Stores(L, s)
  PROVE  WalkUp(L) = s
<1>1. L.n \in Nat /\ s \in [1..L.n -> Clients]
  BY StoredLength DEF Stores
<1>2. IsWalk(s, L.n, L.bottom, L.above)
  BY <1>1 DEF Stores, Represents, IsWalk
<1>3. ASSUME NEW w \in [1..L.n -> Clients], IsWalk(w, L.n, L.bottom, L.above)
      PROVE  w = s
  BY <1>1, <1>2, <1>3, WalkUnique
<1> QED
  BY <1>1, <1>2, <1>3, Zenon DEF WalkUp

\* mb_wm_stack_enumerate_reverse visits it from the top.
LEMMA WalkDownIsReverse ==
  ASSUME NEW L, NEW s, Stores(L, s)
  PROVE  WalkDown(L) = [i \in 1..L.n |-> s[L.n + 1 - i]]
<1> DEFINE r == [i \in 1..L.n |-> s[L.n + 1 - i]]
<1>1. L.n \in Nat /\ s \in [1..L.n -> Clients]
  BY StoredLength DEF Stores
<1>2. r \in [1..L.n -> Clients]
  BY <1>1
<1>3. IsWalk(r, L.n, L.top, L.below)
  <2>1. CASE L.n = 0
    BY <2>1 DEF Stores, Represents, IsWalk
  <2>2. CASE L.n > 0
    <3>1. r[1] = L.top
      BY <1>1, <2>2 DEF Stores, Represents
    <3>2. ASSUME NEW i \in 1..(L.n - 1)
          PROVE  r[i + 1] = L.below[r[i]]
      <4>1. r[i] = s[L.n + 1 - i] /\ r[i + 1] = s[L.n - i]
        BY <1>1
      <4>2. L.below[s[L.n + 1 - i]] = s[(L.n + 1 - i) - 1]
        BY <1>1, SMTT(60) DEF Stores, Represents
      <4> QED
        BY <1>1, <4>1, <4>2
    <3>3. L.below[r[L.n]] = NULL
      <4>1. r[L.n] = s[1]
        BY <1>1, <2>2
      <4> QED
        BY <1>1, <2>2, <4>1 DEF Stores, Represents
    <3> HIDE DEF r
    <3> QED
      BY <2>2, <3>1, <3>2, <3>3 DEF IsWalk
  <2> QED
    BY <1>1, <2>1, <2>2
<1> HIDE DEF r
<1>4. ASSUME NEW w \in [1..L.n -> Clients], IsWalk(w, L.n, L.top, L.below)
      PROVE  w = r
  BY <1>1, <1>2, <1>3, <1>4, WalkUnique
<1>5. WalkDown(L) = r
  BY <1>2, <1>3, <1>4, Zenon DEF WalkDown
<1> QED
  BY <1>5 DEF r

-----------------------------------------------------------------------------
\* The search up finds the lowest client of a type.
LEMMA LowestFound ==
  ASSUME NEW L, NEW s, Stores(L, s), NEW T
  PROVE  /\ LowestByType(L, T) = Order!LowestOf(s, T)
         /\ LowestByType(L, T) # NULL => LowestByType(L, T) \in Order!Stacked(s)
<1>1. L.n \in Nat /\ Len(s) = L.n /\ DOMAIN s = 1..L.n /\ s \in [1..L.n -> Clients]
  BY StoredLength DEF Stores
<1> DEFINE H == {i \in 1..L.n : ClientType[s[i]] \in T}
<1>2. Hits(s, T) = H /\ Order!PositionsOf(s, T) = H
  BY <1>1 DEF Hits, Order!PositionsOf
<1>3. LowestByType(L, T) = FirstOf(s, T)
  BY WalkUpIsOrder DEF LowestByType
<1>4. CASE H = {}
  BY <1>2, <1>3, <1>4 DEF FirstOf, Order!LowestOf
<1>5. CASE H # {}
  <2>1. H \in SUBSET Nat
    BY <1>1
  <2>2. PICK m \in H : \A j \in H : m <= j
    BY <1>5, <2>1, LeastNumber
  <2>3. \A i \in H : (\A j \in H : i <= j) => i = m
    BY <2>1, <2>2
  <2>4. (CHOOSE i \in H : i \in H /\ \A j \in H : i <= j) = m
    BY <2>2, <2>3, Zenon
  <2>5. (CHOOSE i \in H : \A j \in H : i <= j) = m
    BY <2>2, <2>3, Zenon
  <2> HIDE DEF H
  <2>6. FirstOf(s, T) = s[m] /\ Order!LowestOf(s, T) = s[m]
    BY <1>2, <1>5, <2>4, <2>5 DEF FirstOf, IsFirst, Order!LowestOf
  <2>7. s[m] \in Order!Stacked(s)
    BY <1>1, <2>2 DEF Order!Stacked, H
  <2> QED
    BY <1>3, <2>6, <2>7
<1> QED
  BY <1>4, <1>5

\* HighestOf is the client at the greatest position with a type in T.
LEMMA HighestAt ==
  ASSUME NEW n \in Nat, NEW s \in [1..n -> Clients], NEW T
  PROVE  /\ (\A i \in 1..n : ClientType[s[i]] \notin T)
              => Order!HighestOf(s, T) = NULL
         /\ \A p \in 1..n :
              /\ ClientType[s[p]] \in T
              /\ \A i \in 1..n : ClientType[s[i]] \in T => i <= p
              => Order!HighestOf(s, T) = s[p]
<1>1. s \in Seq(Clients) /\ Len(s) = n
  OBVIOUS
<1> DEFINE H == {i \in 1..n : ClientType[s[i]] \in T}
<1>2. Order!PositionsOf(s, T) = H
  BY <1>1 DEF Order!PositionsOf
<1>3. ASSUME \A i \in 1..n : ClientType[s[i]] \notin T
      PROVE  Order!HighestOf(s, T) = NULL
  BY <1>2, <1>3 DEF Order!HighestOf
<1>4. ASSUME NEW p \in 1..n, ClientType[s[p]] \in T,
             \A i \in 1..n : ClientType[s[i]] \in T => i <= p
      PROVE  Order!HighestOf(s, T) = s[p]
  <2>1. p \in H /\ \A j \in H : j <= p
    BY <1>4
  <2>2. \A i \in H : (\A j \in H : j <= i) => i = p
    BY <2>1
  <2>3. (CHOOSE i \in H : \A j \in H : j <= i) = p
    BY <2>1, <2>2, Zenon
  <2> HIDE DEF H
  <2> QED
    BY <1>2, <2>1, <2>3 DEF Order!HighestOf
<1> QED
  BY <1>3, <1>4

\* The search down finds the highest client of a type, and the continued
\* search the one below it.
LEMMA HighestFound ==
  ASSUME NEW L, NEW s, Stores(L, s), NEW T
  PROVE  /\ HighestByType(L, T) = Order!HighestOf(s, T)
         /\ HighestByType(L, T) = NULL => Order!PositionsOf(s, T) = {}
         /\ NextOf(WalkDown(L), T) = Order!SecondOf(s, T)
         /\ HighestByType(L, T) # NULL
              => HighestByType(L, T) \in Order!Stacked(s)
         /\ NextOf(WalkDown(L), T) # NULL
              => /\ NextOf(WalkDown(L), T) \in Order!Stacked(s)
                 /\ HighestByType(L, T) # NULL
<1> DEFINE n == L.n
           r == WalkDown(L)
           hit(i) == ClientType[s[i]] \in T
<1>1. n \in Nat /\ Len(s) = n /\ s \in [1..n -> Clients]
  BY StoredLength DEF Stores
<1>2. r = [i \in 1..n |-> s[n + 1 - i]]
  BY WalkDownIsReverse
<1>3. DOMAIN r = 1..n /\ \A i \in 1..n : r[i] = s[n + 1 - i]
  BY <1>2
<1> HIDE DEF r
<1>4. Hits(r, T) = {i \in 1..n : hit(n + 1 - i)}
  BY <1>3 DEF Hits
<1>mirror. ASSUME NEW i \in 1..n
      PROVE  /\ n + 1 - i \in 1..n
             /\ hit(i) <=> n + 1 - i \in Hits(r, T)
             /\ i \in Hits(r, T) <=> hit(n + 1 - i)
  <2>1. n + 1 - i \in 1..n /\ n + 1 - (n + 1 - i) = i
    BY <1>1
  <2> QED
    BY <1>4, <2>1
<1>5. HighestByType(L, T) = FirstOf(r, T)
  BY DEF HighestByType, r
<1>6. CASE \A i \in 1..n : ~hit(i)
  <2>1. Hits(r, T) = {}
    BY <1>1, <1>4, <1>6
  <2>2. FirstOf(r, T) = NULL /\ NextOf(r, T) = NULL
    BY <2>1 DEF FirstOf, NextOf
  <2>3. Order!HighestOf(s, T) = NULL
    BY <1>1, <1>6, HighestAt
  <2>4. Order!PositionsOf(s, T) = {}
    BY <1>1, <1>6 DEF Order!PositionsOf
  <2> QED
    BY <1>5, <2>2, <2>3, <2>4 DEF Order!SecondOf, r
<1>7. CASE \E i \in 1..n : hit(i)
  <2>1. PICK h \in 1..n : hit(h)
    BY <1>7
  <2>2. n + 1 - h \in Hits(r, T)
    BY <1>1, <1>4, <2>1
  <2>3. Hits(r, T) \in SUBSET Nat
    BY <1>4
  <2>4. PICK m \in Hits(r, T) : \A j \in Hits(r, T) : m <= j
    BY <2>2, <2>3, LeastNumber
  <2> DEFINE p == n + 1 - m
  <2>5. p \in 1..n /\ hit(p) /\ m \in 1..n /\ r[m] = s[p]
    BY <1>1, <1>3, <1>4, <2>4
  <2>6. ASSUME NEW i \in 1..n, hit(i) PROVE i <= p
    <3>1. n + 1 - i \in Hits(r, T)
      BY <1>1, <1>4, <2>6, SMTT(60)
    <3> QED
      BY <1>1, <2>4, <2>5, <3>1
  <2>7. Order!HighestOf(s, T) = s[p]
    BY <1>1, <2>5, <2>6, HighestAt
  <2>8. \A i \in Hits(r, T) : IsFirst(r, T, i) <=> i = m
    BY <1>4, <2>4, <2>5 DEF IsFirst
  <2>9. (CHOOSE i \in Hits(r, T) : IsFirst(r, T, i)) = m
    BY <2>4, <2>8, Zenon
  <2>10. FirstOf(r, T) = s[p]
    BY <2>2, <2>5, <2>9 DEF FirstOf
  <2>11. s[p] \in Order!Stacked(s) /\ s[p] # NULL
    BY <1>1, <2>5, NullIsNoClient DEF Order!Stacked
  <2> DEFINE q == [i \in 1..(p - 1) |-> s[i]]
  <2>12. Order!Position(s, s[p]) = p
    BY <1>1, <2>5, StoredPosition
  <2>13. Order!SecondOf(s, T) = Order!HighestOf(q, T)
    BY <2>7, <2>11, <2>12 DEF Order!SecondOf
  <2>14. p - 1 \in Nat /\ q \in [1..(p - 1) -> Clients]
    BY <1>1, <2>5
  <2>15. \A i \in 1..(p - 1) : q[i] = s[i]
    OBVIOUS
  <2> HIDE DEF q
  <2>16. CASE \A i \in 1..(p - 1) : ~hit(i)
    <3>1. Order!HighestOf(q, T) = NULL
      BY <2>14, <2>15, <2>16, HighestAt
    <3>2. ASSUME NEW i \in Hits(r, T) PROVE i = m
      BY <1>1, <1>4, <2>4, <2>5, <2>16, <3>2, SMTT(60)
    <3>3. NextOf(r, T) = NULL
      BY <2>8, <3>2 DEF NextOf, IsSecond
    <3> QED
      BY <1>5, <2>7, <2>10, <2>11, <2>13, <3>1, <3>3 DEF r
  <2>17. CASE \E i \in 1..(p - 1) : hit(i)
    <3> DEFINE R == {i \in Hits(r, T) : i # m}
    <3>1. PICK g \in 1..(p - 1) : hit(g)
      BY <2>17
    <3>2. R \in SUBSET Nat /\ R # {}
      <4>1. n + 1 - g \in Hits(r, T) /\ n + 1 - g # m
        <5>1. g \in 1..n /\ g # p
          BY <1>1, <2>5
        <5>2. n + 1 - g \in Hits(r, T)
          BY <1>mirror, <3>1, <5>1
        <5> QED
          BY <1>1, <2>5, <5>1, <5>2
      <4> QED
        BY <2>3, <4>1
    <3>3. PICK k \in R : \A j \in R : k <= j
      BY <3>2, LeastNumber
    <3> DEFINE o == n + 1 - k
    <3>4. k \in 1..n /\ o \in 1..(p - 1) /\ hit(o) /\ r[k] = s[o]
      <4>1. k \in Hits(r, T) /\ k # m
        BY <3>3
      <4>2. k \in 1..n /\ hit(o) /\ m < k
        <5>1. k \in 1..n /\ m \in 1..n /\ m <= k
          BY <1>4, <2>4, <4>1
        <5> QED
          BY <1>1, <1>mirror, <4>1, <5>1
      <4> QED
        BY <1>1, <1>3, <2>5, <4>2
    <3>5. ASSUME NEW i \in 1..(p - 1), hit(i) PROVE i <= o
      <4>1. n + 1 - i \in Hits(r, T) /\ n + 1 - i # m
        <5>1. i \in 1..n /\ i # p
          BY <1>1, <2>5
        <5>2. n + 1 - i \in Hits(r, T)
          BY <1>mirror, <3>5, <5>1
        <5> QED
          BY <1>1, <2>5, <5>1, <5>2
      <4>2. k <= n + 1 - i
        BY <3>3, <4>1
      <4> QED
        BY <1>1, <3>4, <4>2
    <3>6. Order!HighestOf(q, T) = s[o]
      BY <2>14, <2>15, <3>4, <3>5, HighestAt
    <3>7. ASSUME NEW i \in Hits(r, T)
          PROVE  IsSecond(r, T, i) <=> i = k
      <4>1. k \in Hits(r, T) /\ k # m
        BY <3>3
      <4>2. IsSecond(r, T, i) <=> i # m /\ \A j \in Hits(r, T) : j < i => j = m
        BY <2>8 DEF IsSecond
      <4>3. ASSUME i # m, \A j \in Hits(r, T) : j < i => j = m
            PROVE  i = k
        <5>1. i \in R /\ k <= i
          BY <3>3, <4>3
        <5>2. i \in Nat /\ k \in Nat
          BY <2>3, <4>1
        <5> QED
          BY <4>1, <4>3, <5>1, <5>2
      <4>4. ASSUME NEW j \in Hits(r, T), j < k PROVE j = m
        <5>1. j \in Nat /\ k \in Nat
          BY <2>3, <4>1
        <5> QED
          BY <3>3, <4>4, <5>1
      <4> QED
        BY <4>1, <4>2, <4>3, <4>4
    <3>8. k \in Hits(r, T)
      BY <3>3
    <3>9. (CHOOSE i \in Hits(r, T) : IsSecond(r, T, i)) = k
      BY <3>7, <3>8, Zenon
    <3>10. NextOf(r, T) = s[o]
      BY <3>4, <3>7, <3>8, <3>9 DEF NextOf
    <3>11. s[o] \in Order!Stacked(s)
      BY <1>1, <2>5, <3>4 DEF Order!Stacked
    <3> QED
      BY <1>5, <2>7, <2>10, <2>11, <2>13, <3>6, <3>10, <3>11 DEF r
  <2> QED
    BY <2>16, <2>17
<1> QED
  BY <1>6, <1>7

-----------------------------------------------------------------------------
\* The inductive invariant: some order is stored.  TypeOK alone is not
\* inductive: removing a client writes through the links of its neighbours.
IInv == \E s : Stores(stk, s)

\* Every operation on a list that stores s leaves a list that stores the order
\* the same operation of StackOrder makes of s.
LEMMA StepStores ==
  ASSUME NEW s, Stores(stk, s), Next
  PROVE  IInv' /\ Order!Next
<1>1. Len(s) \in Nat /\ stk.n = Len(s) /\ WalkUp(stk) = s
  BY StoredLength, WalkUpIsOrder
<1>2. ASSUME NEW t, Stores(stk', t)
      PROVE  IInv' /\ WalkUp(stk') = t
  BY <1>2, WalkUpIsOrder DEF IInv
<1>3. \A c \in Clients : OnStack(stk, c) <=> c \in Order!Stacked(s)
  BY StoredClients
<1>4. ASSUME NEW c \in Clients, AppendTop(c)
      PROVE  IInv' /\ Order!AppendTop(c)
  <2>1. stk.top = BelowAt(s, Len(s))
    BY <1>1 DEF Stores, Represents, BelowAt
  <2>2. c \notin Order!Stacked(s) /\ stk' = Insert(stk, c, BelowAt(s, Len(s)))
    BY <1>3, <1>4, <2>1 DEF AppendTop
  <2>3. Stores(stk', Order!PutAbove(s, Len(s), c))
    BY <1>1, <2>2, InsertStores
  <2> QED
    BY <1>1, <1>2, <2>2, <2>3 DEF Order!AppendTop
<1>5. ASSUME NEW c \in Clients, Remove(c)
      PROVE  IInv' /\ Order!Remove(c)
  <2>1. c \in Order!Stacked(s) /\ stk' = Unlink(stk, c)
    BY <1>3, <1>5 DEF Remove
  <2>2. Stores(stk', Order!Without(s, c))
    BY <2>1, UnlinkStores
  <2> QED
    BY <1>1, <1>2, <2>1, <2>2 DEF Order!Remove
<1>6. ASSUME NEW c \in Clients, Lower(c)
      PROVE  IInv' /\ Order!Lower(c)
  <2> DEFINE M == Unlink(stk, c)
             t == Order!Without(s, c)
  <2>1. c \in Order!Stacked(s) /\ stk' = InsertAtBottom(M, c)
    BY <1>3, <1>6 DEF Lower
  <2>2. Stores(M, t) /\ Order!Stacked(t) = Order!Stacked(s) \ {c}
    BY <2>1, UnlinkStores
  <2> HIDE DEF M, t
  <2>3. Len(t) \in Nat /\ c \notin Order!Stacked(t)
    BY <2>2, StoredLength
  <2>4. Stores(Insert(M, c, BelowAt(t, 0)), Order!PutAbove(t, 0, c))
    BY <2>2, <2>3, InsertStores
  <2>5. Stores(stk', Order!Lowered(s, c))
    BY <2>1, <2>4 DEF Insert, BelowAt, Order!Lowered, t
  <2> QED
    BY <1>1, <1>2, <2>1, <2>5 DEF Order!Lower
<1>7. ASSUME NEW c \in Clients, Raise(c)
      PROVE  IInv' /\ Order!Raise(c)
  <2>1. c \in Order!Stacked(s) /\ stk' = MoveAbove(stk, c, stk.top)
    BY <1>3, <1>7 DEF Raise
  <2>2. Len(s) > 0
    BY <1>1, <2>1 DEF Order!Stacked
  <2>3. stk.top = s[Len(s)] /\ stk.top \in Order!Stacked(s)
    BY <1>1, <2>2 DEF Stores, Represents, Order!Stacked
  <2>4. Stores(stk', Order!MovedAbove(s, c, s[Len(s)]))
    BY <2>1, <2>3, MoveAboveStores
  <2> QED
    BY <1>1, <1>2, <2>1, <2>4 DEF Order!Raise, Order!Raised
<1>8. ASSUME NEW c \in Clients, MoveAboveType(c)
      PROVE  IInv' /\ Order!MoveAboveType(c)
  <2> DEFINE h == HighestByType(stk, FollowedTypes)
  <2>1. /\ c \in Order!Stacked(s)
        /\ stk' = IF h = NULL THEN stk ELSE MoveAbove(stk, c, h)
    BY <1>3, <1>8 DEF MoveAboveType
  <2>2. /\ h = Order!HighestOf(s, FollowedTypes)
        /\ h # NULL => h \in Order!Stacked(s)
    BY HighestFound
  <2> HIDE DEF h
  <2>3. Stores(stk', Order!MovedAboveType(s, c, FollowedTypes))
    BY <2>1, <2>2, MoveAboveStores DEF Order!MovedAboveType
  <2> QED
    BY <1>1, <1>2, <2>1, <2>3 DEF Order!MoveAboveType
<1>9. ASSUME CycleForward
      PROVE  IInv' /\ Order!CycleForward
  <2> DEFINE h == HighestByType(stk, CycledTypes)
             l == LowestByType(stk, CycledTypes)
  <2>1. stk' = IF l = NULL THEN stk ELSE MoveAbove(stk, l, h)
    BY <1>9 DEF CycleForward, CycleUp
  <2>2. /\ h = Order!HighestOf(s, CycledTypes)
        /\ h # NULL => h \in Order!Stacked(s)
        /\ h = NULL => Order!PositionsOf(s, CycledTypes) = {}
    BY HighestFound
  <2>3. /\ l = Order!LowestOf(s, CycledTypes)
        /\ l # NULL => l \in Order!Stacked(s)
    BY LowestFound
  <2> HIDE DEF h, l
  <2>4. h = NULL => l = NULL
    BY <2>2, <2>3 DEF Order!LowestOf
  <2>5. Stores(stk', Order!CycledForward(s, CycledTypes))
    BY <2>1, <2>2, <2>3, <2>4, MoveAboveStores DEF Order!CycledForward
  <2> QED
    BY <1>1, <1>2, <2>5 DEF Order!CycleForward
<1>10. ASSUME CycleReverse
       PROVE  IInv' /\ Order!CycleReverse
  <2> DEFINE h == HighestByType(stk, CycledTypes)
             l == NextOf(WalkDown(stk), CycledTypes)
  <2>1. stk' = IF l = NULL THEN stk ELSE MoveAbove(stk, l, h)
    BY <1>10 DEF CycleReverse, CycleDown
  <2>2. /\ h = Order!HighestOf(s, CycledTypes)
        /\ l = Order!SecondOf(s, CycledTypes)
        /\ h # NULL => h \in Order!Stacked(s)
        /\ l # NULL => l \in Order!Stacked(s) /\ h # NULL
    BY HighestFound
  <2> HIDE DEF h, l
  <2>3. Stores(stk', Order!CycledReverse(s, CycledTypes))
    BY <2>1, <2>2, MoveAboveStores DEF Order!CycledReverse
  <2> QED
    BY <1>1, <1>2, <2>3 DEF Order!CycleReverse
<1> QED
  BY <1>4, <1>5, <1>6, <1>7, <1>8, <1>9, <1>10 DEF Next, Order!Next

\* The empty list stores the empty order.
LEMMA InitStores ==
  ASSUME Init
  PROVE  IInv /\ Order!Init
<1>1. Stores(stk, << >>)
  BY DEF Init, EmptyStack, Stores, Stacks, Pointers, Represents
<1> QED
  BY <1>1, WalkUpIsOrder DEF IInv, Order!Init

\* The invariant holds in every reachable state.
LEMMA Invariance == Spec => []IInv
<1>1. Init => IInv
  BY InitStores
<1>2. IInv /\ [Next]_stk => IInv'
  <2>1. ASSUME IInv, UNCHANGED stk PROVE IInv'
    BY <2>1 DEF IInv
  <2>2. ASSUME IInv, Next PROVE IInv'
    BY <2>2, StepStores DEF IInv
  <2> QED
    BY <2>1, <2>2
<1> QED
  BY <1>1, <1>2, PTL DEF Spec

\* For every set of clients, the pointers of the list are clients or NULL and
\* stack_n_clients is a natural number.
THEOREM TypeCorrect == Spec => []TypeOK
<1>1. IInv => TypeOK
  BY DEF IInv, Stores, TypeOK
<1> QED
  BY <1>1, Invariance, PTL

\* For every set of clients, the links, the end pointers and the count always
\* describe one stacking order.
THEOREM ListNeverTorn == Spec => []WellFormed
<1>1. IInv => WellFormed
  BY DEF IInv, Stores, WellFormed
<1> QED
  BY <1>1, Invariance, PTL

\* For every set of clients, the list implements the sequence of StackOrder:
\* each operation does to the order what StackOrder says, the searches by
\* type included.
THEOREM ListImplementsOrder == Spec => ImplementsOrder
<1>1. Init => Order!Init
  BY InitStores
<1>2. IInv /\ [Next]_stk => [Order!Next]_(WalkUp(stk))
  <2>1. ASSUME IInv, Next PROVE Order!Next
    BY <2>1, StepStores DEF IInv
  <2>2. ASSUME UNCHANGED stk PROVE UNCHANGED WalkUp(stk)
    BY <2>2
  <2> QED
    BY <2>1, <2>2
<1> QED
  BY <1>1, <1>2, Invariance, PTL DEF Spec, ImplementsOrder, Order!Spec
=============================================================================
