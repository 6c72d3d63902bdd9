-------------------------- MODULE WindowStackProofs --------------------------
(***************************************************************************)
(* Transiency and the stack (core/mb-wm-client.c, core/mb-wm-stack.c,      *)
(* client-types/), for every set of clients, of whatever types and naming  *)
(* whatever windows.                                                       *)
(***************************************************************************)
EXTENDS WindowStack, FiniteSetTheorems, WellFoundedInduction, TLAPS

-----------------------------------------------------------------------------
(* Orders of a set of clients, and what the operations of StackOps do to     *)
(* them.                                                                     *)

Orders(M) == {s \in Seq(Clients) : IsOrder(s) /\ Stacked(s) = M}

\* a lies below b in s.
Below(s, a, b) ==
  \E i \in 1..Len(s) : \E j \in 1..Len(s) : i < j /\ s[i] = a /\ s[j] = b

\* Clients other than c keep their order.
Moves(s, t, c) ==
  \A a, b \in Clients : a # c /\ b # c /\ Below(s, a, b) => Below(t, a, b)

\* A nonempty set of natural numbers has a least element.
LEMMA LeastNumber ==
  ASSUME NEW T \in SUBSET Nat, T # {}
  PROVE  \E m \in T : \A k \in T : m <= k
<1> DEFINE R == OpToRel(<, Nat)
<1>1. PICK m \in T : \A k \in T : <<k, m>> \notin R
  BY WFMin, NatLessThanWellFounded, Zenon
<1>2. ASSUME NEW k \in Nat, NEW j \in Nat, k < j
      PROVE  <<k, j>> \in R
  BY <1>2 DEF OpToRel
<1>3. \A k \in T : ~(k < m)
  BY <1>1, <1>2
<1>4. \A k \in T : m <= k
  BY <1>3
<1> QED BY <1>4

\* A bounded one has a greatest.
LEMMA GreatestNumber ==
  ASSUME NEW n \in Nat, NEW T \in SUBSET (0..n), T # {}
  PROVE  \E m \in T : \A k \in T : k <= m
<1> DEFINE B == {n - k : k \in T}
<1>1. B \in SUBSET Nat /\ B # {}
  <2>1. \A k \in T : n - k \in Nat
    OBVIOUS
  <2> QED BY <2>1
<1>2. PICK b \in B : \A k \in B : b <= k
  BY <1>1, LeastNumber
<1>3. PICK m \in T : b = n - m
  BY <1>2
<1>4. ASSUME NEW k \in T PROVE k <= m
  <2>1. n - k \in B
    OBVIOUS
  <2>2. n - m <= n - k
    BY <1>2, <1>3, <2>1
  <2> QED BY <1>3, <2>2
<1> QED BY <1>4

\* A client of an order has a place in it.
LEMMA PlaceOf ==
  ASSUME NEW M, NEW s \in Orders(M)
  PROVE  /\ s \in Seq(Clients) /\ Len(s) \in Nat /\ M \subseteq Clients
         /\ \A i \in 1..Len(s) : s[i] \in M
         /\ \A i, j \in 1..Len(s) : s[i] = s[j] => i = j
         /\ \A c \in M : /\ Position(s, c) \in 1..Len(s)
                         /\ s[Position(s, c)] = c
                         /\ \E i \in 1..Len(s) : s[i] = c
<1>1. s \in Seq(Clients) /\ Len(s) \in Nat /\ IsOrder(s) /\ Stacked(s) = M
  BY DEF Orders
<1>2. \A c \in M : \E i \in 1..Len(s) : s[i] = c
  BY <1>1 DEF Stacked
<1>3. \A c \in M : Position(s, c) \in 1..Len(s) /\ s[Position(s, c)] = c
  BY <1>2 DEF Position
<1> QED BY <1>1, <1>2, <1>3 DEF IsOrder, Stacked

\* An injective sequence is an order of its members.
LEMMA OrderIs ==
  ASSUME NEW n \in Nat, NEW s \in [1..n -> Clients], NEW M,
         \A i, j \in 1..n : s[i] = s[j] => i = j,
         \A i \in 1..n : s[i] \in M,
         \A c \in M : \E i \in 1..n : s[i] = c
  PROVE  s \in Orders(M) /\ Len(s) = n
<1>1. s \in Seq(Clients) /\ Len(s) = n /\ DOMAIN s = 1..n
  OBVIOUS
<1>2. IsOrder(s)
  BY <1>1 DEF IsOrder
<1>3. Stacked(s) = M
  BY <1>1 DEF Stacked
<1> QED BY <1>1, <1>2, <1>3 DEF Orders

\* mb_wm_stack_remove
LEMMA WithoutIs ==
  ASSUME NEW M, NEW s \in Orders(M), NEW c \in M
  PROVE  /\ Without(s, c) \in Orders(M \ {c})
         /\ Len(Without(s, c)) = Len(s) - 1
         /\ Moves(s, Without(s, c), c)
<1> DEFINE k == Position(s, c)
           t == Without(s, c)
           n == Len(s) - 1
<1>1. /\ s \in Seq(Clients) /\ Len(s) \in Nat /\ M \subseteq Clients
      /\ \A i \in 1..Len(s) : s[i] \in M
      /\ \A i, j \in 1..Len(s) : s[i] = s[j] => i = j
      /\ \A d \in M : \E i \in 1..Len(s) : s[i] = d
      /\ k \in 1..Len(s) /\ s[k] = c
  BY PlaceOf
<1>2. /\ n \in Nat
      /\ t = [i \in 1..n |-> IF i < k THEN s[i] ELSE s[i + 1]]
  BY <1>1 DEF Without, DropAt
<1> HIDE DEF k, t
<1>3. /\ t \in [1..n -> Clients]
      /\ \A i \in 1..n : t[i] = IF i < k THEN s[i] ELSE s[i + 1]
  BY <1>1, <1>2
<1>4. \A i, j \in 1..n : t[i] = t[j] => i = j
  BY <1>1, <1>2, <1>3
<1>5. \A i \in 1..n : t[i] \in M \ {c}
  BY <1>1, <1>2, <1>3
<1>6. ASSUME NEW i \in 1..Len(s), i # k
      PROVE  IF i < k THEN i \in 1..n /\ t[i] = s[i] ELSE i - 1 \in 1..n /\ t[i - 1] = s[i]
  BY <1>1, <1>2, <1>3, <1>6
<1>7. ASSUME NEW d \in M \ {c} PROVE \E i \in 1..n : t[i] = d
  <2>1. PICK i \in 1..Len(s) : s[i] = d
    BY <1>1
  <2>2. i # k
    BY <1>1, <2>1
  <2> QED BY <1>6, <2>1, <2>2
<1>8. t \in Orders(M \ {c}) /\ Len(t) = n
  BY <1>2, <1>3, <1>4, <1>5, <1>7, OrderIs
<1>9. ASSUME NEW a \in Clients, NEW b \in Clients, a # c, b # c, Below(s, a, b)
      PROVE  Below(t, a, b)
  <2>1. PICK i \in 1..Len(s), j \in 1..Len(s) : i < j /\ s[i] = a /\ s[j] = b
    BY <1>9 DEF Below
  <2>2. i # k /\ j # k
    BY <1>1, <1>9, <2>1
  <2> DEFINE g == IF i < k THEN i ELSE i - 1
             h == IF j < k THEN j ELSE j - 1
  <2>3. g \in 1..n /\ t[g] = a
    BY <1>6, <2>1, <2>2
  <2>4. h \in 1..n /\ t[h] = b
    BY <1>6, <2>1, <2>2
  <2>5. g < h
    BY <1>1, <2>1, <2>2
  <2> HIDE DEF g, h
  <2> QED BY <1>8, <2>3, <2>4, <2>5 DEF Below
<1>10. Moves(s, t, c)
  BY <1>9 DEF Moves
<1> QED BY <1>8, <1>10 DEF t

\* mb_wm_stack_insert_above_client and mb_wm_stack_prepend_bottom.
LEMMA PutAboveIs ==
  ASSUME NEW M, NEW s \in Orders(M), NEW c \in Clients, c \notin M, NEW k \in 0..Len(s)
  PROVE  /\ PutAbove(s, k, c) \in Orders(M \cup {c})
         /\ Len(PutAbove(s, k, c)) = Len(s) + 1
         /\ Moves(s, PutAbove(s, k, c), c)
         /\ \A i \in 1..k : Below(PutAbove(s, k, c), s[i], c)
<1> DEFINE t == PutAbove(s, k, c)
           n == Len(s) + 1
<1>1. /\ s \in Seq(Clients) /\ Len(s) \in Nat /\ M \subseteq Clients
      /\ \A i \in 1..Len(s) : s[i] \in M
      /\ \A i, j \in 1..Len(s) : s[i] = s[j] => i = j
      /\ \A d \in M : \E i \in 1..Len(s) : s[i] = d
  BY PlaceOf
<1>2. /\ n \in Nat
      /\ t = [i \in 1..n |-> IF i <= k THEN s[i] ELSE IF i = k + 1 THEN c ELSE s[i - 1]]
  BY <1>1 DEF PutAbove
<1> HIDE DEF t
<1>3. /\ t \in [1..n -> Clients]
      /\ \A i \in 1..n : t[i] = IF i <= k THEN s[i] ELSE IF i = k + 1 THEN c ELSE s[i - 1]
  BY <1>1, <1>2
<1>4. \A i, j \in 1..n : t[i] = t[j] => i = j
  BY <1>1, <1>2, <1>3
<1>5. \A i \in 1..n : t[i] \in M \cup {c}
  BY <1>1, <1>2, <1>3
<1>6. ASSUME NEW i \in 1..Len(s)
      PROVE  IF i <= k THEN i \in 1..n /\ t[i] = s[i] ELSE i + 1 \in 1..n /\ t[i + 1] = s[i]
  BY <1>1, <1>2, <1>3
<1>7. k + 1 \in 1..n /\ t[k + 1] = c
  BY <1>1, <1>2, <1>3
<1>8. ASSUME NEW d \in M \cup {c} PROVE \E i \in 1..n : t[i] = d
  <2>1. CASE d = c
    BY <1>7, <2>1
  <2>2. CASE d \in M
    <3>1. PICK i \in 1..Len(s) : s[i] = d
      BY <1>1, <2>2
    <3> QED BY <1>6, <3>1
  <2> QED BY <2>1, <2>2
<1>9. t \in Orders(M \cup {c}) /\ Len(t) = n
  <2> DEFINE N == M \cup {c}
  <2>1. \A i \in 1..n : t[i] \in N
    BY <1>5
  <2>2. \A d \in N : \E i \in 1..n : t[i] = d
    BY <1>8
  <2>3. n \in Nat /\ t \in [1..n -> Clients]
    BY <1>2, <1>3
  <2> HIDE DEF n, N
  <2>4. t \in Orders(N) /\ Len(t) = n
    BY <1>4, <2>1, <2>2, <2>3, OrderIs
  <2> QED BY <2>4 DEF N
<1>10. ASSUME NEW a \in Clients, NEW b \in Clients, a # c, b # c, Below(s, a, b)
       PROVE  Below(t, a, b)
  <2>1. PICK i \in 1..Len(s), j \in 1..Len(s) : i < j /\ s[i] = a /\ s[j] = b
    BY <1>10 DEF Below
  <2> DEFINE g == IF i <= k THEN i ELSE i + 1
             h == IF j <= k THEN j ELSE j + 1
  <2>2. g \in 1..n /\ t[g] = a
    BY <1>6, <2>1
  <2>3. h \in 1..n /\ t[h] = b
    BY <1>6, <2>1
  <2>4. g < h
    BY <1>1, <2>1
  <2> HIDE DEF g, h
  <2> QED BY <1>9, <2>2, <2>3, <2>4 DEF Below
<1>11. Moves(s, t, c)
  BY <1>10 DEF Moves
<1>12. ASSUME NEW i \in 1..k PROVE Below(t, s[i], c)
  <2>1. i \in 1..Len(s) /\ i < k + 1 /\ i <= k
    BY <1>1
  <2>2. i \in 1..n /\ t[i] = s[i]
    BY <1>6, <2>1
  <2> QED BY <1>7, <1>9, <2>1, <2>2 DEF Below
<1> QED BY <1>9, <1>11, <1>12 DEF t

\* A client that is taken out and put in again.
LEMMA PutBackIs ==
  ASSUME NEW M, NEW s \in Orders(M), NEW c \in M, NEW k \in 0..(Len(s) - 1)
  PROVE  /\ PutAbove(Without(s, c), k, c) \in Orders(M)
         /\ Moves(s, PutAbove(Without(s, c), k, c), c)
         /\ \A i \in 1..k : Below(PutAbove(Without(s, c), k, c), Without(s, c)[i], c)
<1> DEFINE t == Without(s, c)
           u == PutAbove(t, k, c)
<1>1. t \in Orders(M \ {c}) /\ Len(t) = Len(s) - 1 /\ Moves(s, t, c)
  BY WithoutIs
<1>2. M \subseteq Clients
  BY PlaceOf
<1> HIDE DEF t
<1>3. /\ u \in Orders((M \ {c}) \cup {c}) /\ Moves(t, u, c)
      /\ \A i \in 1..k : Below(u, t[i], c)
  BY <1>1, <1>2, PutAboveIs
<1>4. (M \ {c}) \cup {c} = M
  OBVIOUS
<1>5. Moves(s, u, c)
  BY <1>1, <1>3 DEF Moves
<1> QED BY <1>3, <1>4, <1>5 DEF t

\* mb_wm_stack_move_above_client
LEMMA MovedAboveIs ==
  ASSUME NEW M, NEW s \in Orders(M), NEW c \in M, NEW b \in M
  PROVE  MovedAbove(s, c, b) \in Orders(M) /\ Moves(s, MovedAbove(s, c, b), c)
<1>1. CASE c = b
  BY <1>1 DEF MovedAbove, Moves
<1>2. CASE c # b
  <2> DEFINE t == Without(s, c)
             k == Position(t, b)
  <2>1. t \in Orders(M \ {c}) /\ Len(t) = Len(s) - 1
    BY WithoutIs
  <2> HIDE DEF t
  <2>2. k \in 1..Len(t) /\ Len(t) \in Nat
    BY <1>2, <2>1, PlaceOf
  <2>3. MovedAbove(s, c, b) = PutAbove(Without(s, c), k, c)
    BY <1>2 DEF MovedAbove, PutAboveClient, t
  <2> HIDE DEF k
  <2>4. k \in 0..(Len(s) - 1)
    BY <2>1, <2>2
  <2> QED BY <2>3, <2>4, PutBackIs
<1> QED BY <1>1, <1>2

\* mb_wm_stack_move_top: all others are below then.
LEMMA RaisedIs ==
  ASSUME NEW M, NEW s \in Orders(M), NEW c \in M
  PROVE  /\ Raised(s, c) \in Orders(M)
         /\ Moves(s, Raised(s, c), c)
         /\ \A a \in M \ {c} : Below(Raised(s, c), a, c)
<1> DEFINE n == Len(s)
           top == s[n]
<1>1. /\ n \in Nat /\ M \subseteq Clients
      /\ \A i \in 1..n : s[i] \in M
      /\ \A i, j \in 1..n : s[i] = s[j] => i = j
      /\ \A d \in M : \E i \in 1..n : s[i] = d
  BY PlaceOf
<1>2. n \in 1..n /\ top \in M
  BY <1>1
<1>3. Raised(s, c) = MovedAbove(s, c, top)
  BY DEF Raised
<1>4. Raised(s, c) \in Orders(M) /\ Moves(s, Raised(s, c), c)
  BY <1>2, <1>3, MovedAboveIs
<1>5. ASSUME NEW a \in M \ {c} PROVE Below(Raised(s, c), a, c)
  <2>1. PICK i \in 1..n : s[i] = a
    BY <1>1
  <2>2. CASE c = top
    <3>1. Raised(s, c) = s
      BY <1>3, <2>2 DEF MovedAbove
    <3>2. i # n
      BY <2>1, <2>2
    <3>3. i < n
      BY <1>2, <2>1, <3>2
    <3> QED BY <1>2, <2>1, <2>2, <3>1, <3>3 DEF Below
  <2>3. CASE c # top
    <3> DEFINE t == Without(s, c)
               k == Position(t, top)
    <3>1. t \in Orders(M \ {c}) /\ Len(t) = n - 1 /\ Moves(s, t, c)
      BY WithoutIs
    <3>2. MovedAbove(s, c, top) = PutAbove(t, k, c)
      BY <2>3 DEF MovedAbove, PutAboveClient
    <3> HIDE DEF t
    <3>3. /\ Len(t) \in Nat
          /\ \A j, h \in 1..Len(t) : t[j] = t[h] => j = h
          /\ k \in 1..Len(t) /\ t[k] = top
          /\ \A d \in M \ {c} : \E j \in 1..Len(t) : t[j] = d
      <4>1. top \in M \ {c}
        BY <1>2, <2>3
      <4> HIDE DEF top
      <4> DEFINE N == M \ {c}
      <4>2. t \in Orders(N) /\ top \in N
        BY <3>1, <4>1
      <4> HIDE DEF N
      <4>3. /\ Len(t) \in Nat
            /\ \A j, h \in 1..Len(t) : t[j] = t[h] => j = h
            /\ \A d \in N : /\ Position(t, d) \in 1..Len(t)
                             /\ t[Position(t, d)] = d
                             /\ \E j \in 1..Len(t) : t[j] = d
        BY <4>2, PlaceOf
      <4> QED BY <4>2, <4>3 DEF N
    <3> HIDE DEF k
    <3>4. ASSUME NEW j \in 1..Len(t), j > k PROVE FALSE
      <4>1. t[j] \in M \ {c}
        BY <3>1, PlaceOf
      <4>2. t[j] # top
        BY <3>3, <3>4
      <4>3. PICK h \in 1..n : s[h] = t[j]
        BY <1>1, <4>1
      <4>4. h < n
        BY <1>2, <4>2, <4>3
      <4>5. Below(s, t[j], top)
        BY <1>2, <4>3, <4>4 DEF Below
      <4>6. Below(t, t[j], top)
        BY <1>1, <1>2, <2>3, <3>1, <4>1, <4>5 DEF Moves
      <4>7. PICK x \in 1..Len(t), y \in 1..Len(t) : x < y /\ t[x] = t[j] /\ t[y] = top
        BY <4>6 DEF Below
      <4>8. x = j /\ y = k
        BY <3>3, <4>7
      <4> QED BY <3>3, <3>4, <4>7, <4>8
    <3>5. PICK j \in 1..Len(t) : t[j] = a
      BY <3>3
    <3>6. j \in 1..k
      BY <3>3, <3>4, <3>5
    <3>7. k \in 0..(Len(s) - 1)
      BY <3>1, <3>3
    <3>8. Below(PutAbove(t, k, c), t[j], c)
      BY <3>6, <3>7, PutBackIs DEF t
    <3> QED BY <1>3, <3>2, <3>5, <3>8
  <2> QED BY <2>2, <2>3
<1> QED BY <1>4, <1>5

\* mb_wm_stack_move_client_above_type and the lowering to the bottom.
LEMMA LoweredIs ==
  ASSUME NEW M, NEW s \in Orders(M), NEW c \in M
  PROVE  Lowered(s, c) \in Orders(M) /\ Moves(s, Lowered(s, c), c)
<1>1. Len(s) \in Nat /\ Len(s) # 0
  BY PlaceOf
<1>2. 0 \in 0..(Len(s) - 1)
  BY <1>1
<1> QED BY <1>2, PutBackIs DEF Lowered

\* Searches by type find clients of the order.
LEMMA FoundIs ==
  ASSUME NEW n \in Nat, NEW s, Len(s) = n, NEW T
  PROVE  /\ HighestOf(s, T) # NULL => \E i \in 1..n : HighestOf(s, T) = s[i]
         /\ LowestOf(s, T) # NULL => \E i \in 1..n : LowestOf(s, T) = s[i]
         /\ HighestOf(s, T) # NULL => ClientType[HighestOf(s, T)] \in T
         /\ LowestOf(s, T) # NULL => ClientType[LowestOf(s, T)] \in T
<1> DEFINE P == PositionsOf(s, T)
<1>1. /\ P \in SUBSET (0..n) /\ P \subseteq 1..n /\ P \in SUBSET Nat
      /\ \A i \in P : ClientType[s[i]] \in T
  BY DEF PositionsOf
<1>2. ASSUME HighestOf(s, T) # NULL
      PROVE  /\ \E i \in 1..n : HighestOf(s, T) = s[i]
             /\ ClientType[HighestOf(s, T)] \in T
  <2>1. P # {}
    BY <1>2 DEF HighestOf
  <2> DEFINE h == CHOOSE i \in P : \A j \in P : j <= i
  <2>2. HighestOf(s, T) = s[h]
    BY <2>1 DEF HighestOf
  <2> HIDE DEF P
  <2>3. \E i \in P : \A j \in P : j <= i
    BY <1>1, <2>1, GreatestNumber
  <2>4. h \in P
    BY <2>3
  <2> QED BY <1>1, <2>2, <2>4
<1>3. ASSUME LowestOf(s, T) # NULL
      PROVE  /\ \E i \in 1..n : LowestOf(s, T) = s[i]
             /\ ClientType[LowestOf(s, T)] \in T
  <2>1. P # {}
    BY <1>3 DEF LowestOf
  <2> DEFINE h == CHOOSE i \in P : \A j \in P : i <= j
  <2>2. LowestOf(s, T) = s[h]
    BY <2>1 DEF LowestOf
  <2> HIDE DEF P
  <2>3. \E i \in P : \A j \in P : i <= j
    BY <1>1, <2>1, LeastNumber
  <2>4. h \in P
    BY <2>3
  <2> QED BY <1>1, <2>2, <2>4
<1> QED BY <1>2, <1>3

\* The same of the clients of an order, the second of a type included.
LEMMA SearchIs ==
  ASSUME NEW M, NEW s \in Orders(M), NEW T
  PROVE  /\ HighestOf(s, T) \in M \cup {NULL}
         /\ LowestOf(s, T) \in M \cup {NULL}
         /\ SecondOf(s, T) \in M \cup {NULL}
         /\ LowestOf(s, T) # NULL \/ SecondOf(s, T) # NULL => HighestOf(s, T) # NULL
         /\ LowestOf(s, T) # NULL => ClientType[LowestOf(s, T)] \in T
         /\ SecondOf(s, T) # NULL => ClientType[SecondOf(s, T)] \in T
<1>1. /\ Len(s) \in Nat /\ \A i \in 1..Len(s) : s[i] \in M
      /\ \A c \in M : Position(s, c) \in 1..Len(s)
  BY PlaceOf
<1>2. HighestOf(s, T) \in M \cup {NULL} /\ LowestOf(s, T) \in M \cup {NULL}
  BY <1>1, FoundIs
<1>3. LowestOf(s, T) # NULL => HighestOf(s, T) # NULL
  <2> SUFFICES ASSUME LowestOf(s, T) # NULL PROVE HighestOf(s, T) # NULL
    OBVIOUS
  <2> DEFINE P == PositionsOf(s, T)
  <2>1. P # {} /\ P \in SUBSET (0..Len(s)) /\ P \subseteq 1..Len(s)
    BY <1>1 DEF LowestOf, PositionsOf
  <2> DEFINE h == CHOOSE i \in P : \A j \in P : j <= i
  <2>2. HighestOf(s, T) = s[h]
    BY <2>1 DEF HighestOf
  <2> HIDE DEF P
  <2>3. \E i \in P : \A j \in P : j <= i
    BY <1>1, <2>1, GreatestNumber
  <2>4. h \in 1..Len(s)
    BY <2>1, <2>3
  <2>5. M \subseteq Clients
    BY PlaceOf
  <2> QED BY <1>1, <2>2, <2>4, <2>5, NullAssumption
<1>4. SecondOf(s, T) # NULL => HighestOf(s, T) # NULL
  BY DEF SecondOf
<1>5. ASSUME SecondOf(s, T) # NULL
      PROVE  SecondOf(s, T) \in M /\ ClientType[SecondOf(s, T)] \in T
  <2> DEFINE k == Position(s, HighestOf(s, T)) - 1
             r == [i \in 1..k |-> s[i]]
  <2>1. SecondOf(s, T) = HighestOf(r, T)
    BY <1>5 DEF SecondOf
  <2>2. k \in Nat /\ k <= Len(s)
    BY <1>1, <1>2, <1>4, <1>5
  <2> HIDE DEF k
  <2>3. Len(r) = k /\ \A i \in 1..k : r[i] = s[i]
    BY <1>1, <2>2
  <2> HIDE DEF r
  <2>4. (\E i \in 1..k : HighestOf(r, T) = r[i]) /\ ClientType[HighestOf(r, T)] \in T
    BY <1>5, <2>1, <2>2, <2>3, FoundIs
  <2> QED BY <1>1, <2>1, <2>2, <2>3, <2>4
<1>6. LowestOf(s, T) # NULL => ClientType[LowestOf(s, T)] \in T
  BY <1>1, FoundIs
<1> QED BY <1>2, <1>3, <1>4, <1>5, <1>6

-----------------------------------------------------------------------------
(* Recursive definitions have the values they ask for.                       *)

SameOn(f, g, D) == \A e \in D : f[e] = g[e]

\* G[d] looks at the values in dep[d] only.
Respects(G, dep, W, V) ==
  \A d \in W : \A f, g \in [W -> V] : SameOn(f, g, dep[d]) => G[d][f] = G[d][g]

\* No set of places waits for itself, nor a place outside S for any.
Grounded(dep, W, S) ==
  /\ \A d \in W \ S : dep[d] = {}
  /\ \A B \in SUBSET S : B # {} => \E e \in B : dep[e] \cap B = {}

Solved(f, W, G) == f = [d \in W |-> G[d][f]]

\* A function whose value at d is made of its values at dep[d] exists if no set
\* of places waits for itself.
LEMMA Recursion ==
  ASSUME NEW W, NEW S \in SUBSET W, IsFiniteSet(S), NEW V, NEW v \in V,
         NEW G \in [W -> [[W -> V] -> V]], NEW dep \in [W -> SUBSET W],
         Respects(G, dep, W, V), Grounded(dep, W, S)
  PROVE  \E f \in [W -> V] : Solved(f, W, G)
<1>20. \A d \in W \ S : dep[d] = {}
  BY DEF Grounded
<1>21. \A B \in SUBSET S : B # {} => \E e \in B : dep[e] \cap B = {}
  BY DEF Grounded
<1> DEFINE Closed(B) == \A d \in W \ B : dep[d] \cap B = {}
           Solves(f, B) == \A d \in W \ B : f[d] = G[d][f]
           Left == {B \in SUBSET S : Closed(B) /\ \E f \in [W -> V] : Solves(f, B)}
           T == {Cardinality(B) : B \in Left}
<1>1. S \in Left
  <2> DEFINE f0 == [d \in W |-> v]
             f == [d \in W |-> G[d][f0]]
  <2>1. f0 \in [W -> V] /\ f \in [W -> V]
    OBVIOUS
  <2> HIDE DEF f0
  <2>2. ASSUME NEW d \in W \ S PROVE f[d] = G[d][f]
    <3>1. f[d] = G[d][f0]
      OBVIOUS
    <3> HIDE DEF f
    <3>2. SameOn(f, f0, dep[d])
      BY <1>20 DEF SameOn
    <3> QED BY <2>1, <3>1, <3>2 DEF Respects
  <2> HIDE DEF f
  <2>3. Solves(f, S)
    BY <2>2
  <2>4. Closed(S)
    BY <1>20
  <2> HIDE DEF Solves, Closed
  <2> QED BY <2>1, <2>3, <2>4
<1>2. \A B \in Left : B \in SUBSET S /\ IsFiniteSet(B) /\ Cardinality(B) \in Nat
  <2> SUFFICES ASSUME NEW B \in Left PROVE IsFiniteSet(B) /\ Cardinality(B) \in Nat
    OBVIOUS
  <2>1. B \in SUBSET S
    OBVIOUS
  <2> QED BY <2>1, FS_Subset, FS_CardinalityType
<1> HIDE DEF Left
<1>3. T \in SUBSET Nat /\ T # {}
  BY <1>1, <1>2
<1>4. PICK n \in T : \A k \in T : n <= k
  BY <1>3, LeastNumber
<1>5. PICK B \in Left : n = Cardinality(B)
  BY <1>4
<1> HIDE DEF T
<1>6. B \in SUBSET S /\ Closed(B) /\ \E f \in [W -> V] : Solves(f, B)
  BY <1>5 DEF Left
<1>7. PICK f \in [W -> V] : Solves(f, B)
  BY <1>6
<1>8. CASE B = {}
  <2>1. \A d \in W : f[d] = G[d][f]
    BY <1>7, <1>8
  <2>2. f = [d \in W |-> G[d][f]]
    BY <2>1
  <2> QED BY <2>2 DEF Solved
<1>9. CASE B # {}
  <2>1. PICK e \in B : dep[e] \cap B = {}
    BY <1>6, <1>9, <1>21
  <2> DEFINE C == B \ {e}
             g == [f EXCEPT ![e] = G[e][f]]
  <2>2. e \in W /\ G[e][f] \in V
    BY <1>6
  <2>3. /\ g \in [W -> V] /\ g[e] = G[e][f]
        /\ \A d \in W : d # e => g[d] = f[d]
    BY <2>2
  <2> HIDE DEF g
  <2>4. Closed(C)
    BY <1>6, <2>1, <2>2
  <2>5. ASSUME NEW d \in W \ C PROVE g[d] = G[d][g]
    <3>1. dep[d] \cap B = {} /\ dep[d] \subseteq W
      BY <1>6, <2>1, <2>5
    <3>2. \A x \in dep[d] : g[x] = f[x]
      BY <2>1, <2>3, <3>1
    <3>3. G[d][g] = G[d][f]
      <4>1. d \in W /\ g \in [W -> V] /\ f \in [W -> V]
        BY <2>3, <2>5
      <4>2. SameOn(g, f, dep[d])
        BY <3>2 DEF SameOn
      <4> QED BY <4>1, <4>2 DEF Respects
    <3>4. CASE d = e
      BY <2>3, <3>3, <3>4
    <3>5. CASE d # e
      <4>1. d \in W \ B
        BY <2>5, <3>5
      <4>2. f[d] = G[d][f]
        BY <1>7, <4>1
      <4> QED BY <2>3, <3>3, <3>5, <4>1, <4>2
    <3> QED BY <3>4, <3>5
  <2>6. Solves(g, C)
    BY <2>5
  <2>7. C \in Left
    <3>1. C \in SUBSET S
      BY <1>6
    <3> HIDE DEF Solves, Closed, C
    <3> QED BY <2>3, <2>4, <2>6, <3>1 DEF Left
  <2>8. Cardinality(C) = Cardinality(B) - 1
    BY <1>2, <1>5, <2>1, FS_RemoveElement
  <2>9. Cardinality(C) \in T
    BY <2>7 DEF T
  <2>10. n <= Cardinality(B) - 1
    BY <1>4, <2>8, <2>9
  <2>11. Cardinality(B) \in Nat
    BY <1>2, <1>5
  <2> QED BY <1>5, <2>10, <2>11
<1> QED BY <1>8, <1>9

Repeats(f, n, b, step) == f = [i \in 0..n |-> IF i = 0 THEN b ELSE step[i][f[i - 1]]]

\* Repeated steps.
LEMMA Repeated ==
  ASSUME NEW n \in Nat, NEW V, NEW b \in V, NEW step \in [1..n -> [V -> V]]
  PROVE  \E f \in [0..n -> V] : Repeats(f, n, b, step)
<1> DEFINE Runs(m) == {f \in [0..n -> V] : f[0] = b /\ \A i \in 1..m : f[i] = step[i][f[i - 1]]}
           T == {m \in 0..n : Runs(n - m) # {}}
<1>1. n \in T
  <2> DEFINE f == [i \in 0..n |-> b]
  <2>1. f \in [0..n -> V] /\ f[0] = b
    OBVIOUS
  <2>2. \A i \in 1..(n - n) : FALSE
    OBVIOUS
  <2> HIDE DEF f
  <2>3. f \in Runs(n - n)
    BY <2>1, <2>2
  <2> HIDE DEF Runs
  <2> QED BY <2>3
<1>2. T \in SUBSET Nat /\ T # {}
  <2> HIDE DEF Runs
  <2>1. T \in SUBSET Nat
    OBVIOUS
  <2> QED BY <1>1, <2>1
<1>3. PICK m \in T : \A k \in T : m <= k
  BY <1>2, LeastNumber
<1> HIDE DEF Runs
<1>4. m \in 0..n /\ Runs(n - m) # {}
  BY <1>3
<1>5. PICK f \in Runs(n - m) : TRUE
  BY <1>4
<1>6. /\ f \in [0..n -> V] /\ f[0] = b
      /\ \A i \in 1..(n - m) : f[i] = step[i][f[i - 1]]
  BY <1>5 DEF Runs
<1>7. CASE m = 0
  <2>1. \A i \in 0..n : f[i] = IF i = 0 THEN b ELSE step[i][f[i - 1]]
    BY <1>6, <1>7
  <2>2. f = [i \in 0..n |-> IF i = 0 THEN b ELSE step[i][f[i - 1]]]
    BY <1>6, <2>1
  <2> QED BY <1>6, <2>2 DEF Repeats
<1>8. CASE m # 0
  <2> DEFINE j == n - m + 1
             g == [f EXCEPT ![j] = step[j][f[j - 1]]]
  <2>1. j \in 1..n /\ j - 1 \in 0..n /\ j # 0 /\ j - 1 # j /\ m - 1 \in 0..n /\ n - (m - 1) = j
    BY <1>4, <1>8
  <2> HIDE DEF j
  <2>2. step[j][f[j - 1]] \in V
    <3>1. f[j - 1] \in V
      BY <1>6, <2>1
    <3> QED BY <2>1, <3>1
  <2>3. /\ g \in [0..n -> V] /\ g[j] = step[j][f[j - 1]]
        /\ \A i \in 0..n : i # j => g[i] = f[i]
    BY <1>6, <2>1, <2>2
  <2> HIDE DEF g
  <2>4. g[0] = b
    BY <1>6, <2>1, <2>3
  <2>5. ASSUME NEW i \in 1..j PROVE g[i] = step[i][g[i - 1]]
    <3>1. i - 1 \in 0..n /\ i - 1 # j /\ i \in 0..n
      BY <2>1
    <3>2. g[i - 1] = f[i - 1]
      BY <2>3, <3>1
    <3>3. CASE i = j
      BY <2>3, <3>2, <3>3
    <3>4. CASE i # j
      <4>1. i \in 1..(n - m)
        BY <1>4, <2>1, <3>4 DEF j
      <4> QED BY <1>6, <2>3, <3>1, <3>2, <3>4, <4>1
    <3> QED BY <3>3, <3>4
  <2>6. g \in Runs(j)
    BY <2>3, <2>4, <2>5 DEF Runs
  <2>7. m - 1 \in T
    BY <2>1, <2>6
  <2>8. m <= m - 1
    BY <1>3, <2>7
  <2> QED BY <1>4, <2>8
<1> QED BY <1>7, <1>8

\* What holds at the start and is kept by every step holds all along.
LEMMA Along ==
  ASSUME NEW n \in Nat, NEW P, 0 \in P,
         \A i \in 1..n : i - 1 \in P => i \in P
  PROVE  \A i \in 0..n : i \in P
<1> SUFFICES ASSUME NEW i \in 0..n, i \notin P PROVE FALSE
  OBVIOUS
<1> DEFINE T == {k \in 0..n : k \notin P}
<1>1. T \in SUBSET Nat /\ T # {}
  OBVIOUS
<1>2. PICK k \in T : \A j \in T : k <= j
  BY <1>1, LeastNumber
<1>3. k \in 0..n /\ k \notin P /\ k # 0
  BY <1>2
<1>4. k \in 1..n /\ k - 1 \in 0..n
  BY <1>3
<1>5. k - 1 \in P
  <2> SUFFICES ASSUME k - 1 \notin P PROVE FALSE
    OBVIOUS
  <2>1. k - 1 \in T
    BY <1>4
  <2> QED BY <1>2, <1>4, <2>1
<1> QED BY <1>3, <1>4, <1>5

\* The stages r of Headed(c, f, cs).
Stages(r, V, c, f, cs) ==
  /\ r \in [0..Len(cs) -> Seq(V)]
  /\ r[0] = <<c>>
  /\ \A i \in 1..Len(cs) : r[i] = r[i - 1] \o f[cs[i]]
  /\ Headed(c, f, cs) = r[Len(cs)]

\* A client, followed by what f has for others.
LEMMA HeadedIs ==
  ASSUME NEW V, NEW c \in V, NEW f, NEW cs, Len(cs) \in Nat,
         \A i \in 1..Len(cs) : f[cs[i]] \in Seq(V)
  PROVE  \E r : Stages(r, V, c, f, cs)
<1> DEFINE n == Len(cs)
           Q == Seq(V)
           b == <<c>>
           More(s, i) == s \o f[cs[i]]
           step == [i \in 1..n |-> [s \in Q |-> More(s, i)]]
           Run(r) == r = [i \in 0..n |-> IF i = 0 THEN b ELSE More(r[i - 1], i)]
<1>1. n \in Nat /\ b \in Q
  OBVIOUS
<1>2. \A s \in Q, i \in 1..n : More(s, i) \in Q
  OBVIOUS
<1> DEFINE after == CHOOSE t : Run(t)
<1>10. Headed(c, f, cs) = after[n]
  BY DEF Headed, Through
<1> HIDE DEF Q, n, b, More
<1>3. step \in [1..n -> [Q -> Q]]
  BY <1>2
<1>4. \A i \in 1..n : \A s \in Q : step[i][s] = More(s, i)
  OBVIOUS
<1> HIDE DEF step
<1>5. \E r \in [0..n -> Q] : Repeats(r, n, b, step)
  BY <1>1, <1>3, Repeated
<1>6. PICK r \in [0..n -> Q] : Repeats(r, n, b, step)
  BY <1>5
<1>7. \A i \in 1..n : i - 1 \in 0..n /\ r[i - 1] \in Q /\ step[i][r[i - 1]] = More(r[i - 1], i)
  <2>1. \A i \in 1..n : i - 1 \in 0..n
    BY <1>1
  <2> QED BY <1>4, <2>1
<1>8. Run(r)
  <2>1. \A i \in 0..n : r[i] = IF i = 0 THEN b ELSE More(r[i - 1], i)
    <3> SUFFICES ASSUME NEW i \in 0..n PROVE r[i] = IF i = 0 THEN b ELSE More(r[i - 1], i)
      OBVIOUS
    <3>1. r[i] = IF i = 0 THEN b ELSE step[i][r[i - 1]]
      BY <1>6 DEF Repeats
    <3>2. i # 0 => i \in 1..n
      BY <1>1
    <3> QED BY <1>7, <3>1, <3>2
  <2>2. r = [i \in 0..n |-> r[i]]
    OBVIOUS
  <2> QED BY <2>1, <2>2
<1>9. Run(after)
  <2> HIDE DEF Run
  <2> QED BY <1>8
<1> HIDE DEF after
<1>11. /\ after = [i \in 0..n |-> after[i]]
       /\ after[0] = b /\ \A i \in 1..n : after[i] = More(after[i - 1], i)
  <2>1. after = [i \in 0..n |-> IF i = 0 THEN b ELSE More(after[i - 1], i)]
    BY <1>9
  <2>2. \A i \in 0..n : after[i] = IF i = 0 THEN b ELSE More(after[i - 1], i)
    BY <2>1
  <2>3. 0 \in 0..n /\ \A i \in 1..n : i \in 0..n /\ i # 0
    BY <1>1
  <2> QED BY <2>1, <2>2, <2>3
<1> DEFINE P == {i \in 0..n : after[i] \in Q}
<1>12. \A i \in 0..n : i \in P
  <2>1. 0 \in P
    BY <1>1, <1>11
  <2>2. ASSUME NEW i \in 1..n, i - 1 \in P PROVE i \in P
    <3>1. after[i - 1] \in Q /\ i \in 0..n
      BY <1>1, <2>2
    <3>2. More(after[i - 1], i) \in Q
      BY <1>2, <3>1
    <3> QED BY <1>11, <3>1, <3>2
  <2> HIDE DEF P
  <2> QED BY <1>1, <2>1, <2>2, Along
<1>13. after \in [0..n -> Q]
  <2>1. \A i \in 0..n : after[i] \in Q
    BY <1>12
  <2> QED BY <1>11, <2>1
<1>14. Stages(after, V, c, f, cs)
  BY <1>10, <1>11, <1>13 DEF Stages, n, Q, b, More
<1> QED BY <1>14

\* It only depends on what f has for them.
LEMMA HeadedSame ==
  ASSUME NEW V, NEW c \in V, NEW f, NEW g, NEW cs, Len(cs) \in Nat,
         \A i \in 1..Len(cs) : f[cs[i]] \in Seq(V) /\ g[cs[i]] = f[cs[i]]
  PROVE  Headed(c, g, cs) = Headed(c, f, cs) /\ Headed(c, f, cs) \in Seq(V)
<1> DEFINE n == Len(cs)
<1>1. PICK r : Stages(r, V, c, f, cs)
  BY HeadedIs
<1>2. \A i \in 1..n : g[cs[i]] \in Seq(V)
  OBVIOUS
<1>3. PICK t : Stages(t, V, c, g, cs)
  BY <1>2, HeadedIs
<1>4. /\ n \in Nat /\ r[0] = <<c>> /\ t[0] = <<c>> /\ r \in [0..n -> Seq(V)]
      /\ \A i \in 1..n : r[i] = r[i - 1] \o f[cs[i]]
      /\ \A i \in 1..n : t[i] = t[i - 1] \o g[cs[i]]
      /\ \A i \in 1..n : g[cs[i]] = f[cs[i]]
      /\ Headed(c, f, cs) = r[n] /\ Headed(c, g, cs) = t[n]
  BY <1>1, <1>3 DEF Stages
<1> HIDE DEF n
<1> DEFINE P == {i \in 0..n : t[i] = r[i]}
<1>5. \A i \in 0..n : i \in P
  <2>1. 0 \in P
    <3>1. 0 \in 0..n
      BY <1>4
    <3> QED BY <1>4, <3>1
  <2>2. ASSUME NEW i \in 1..n, i - 1 \in P PROVE i \in P
    <3>1. t[i] = t[i - 1] \o f[cs[i]] /\ r[i] = r[i - 1] \o f[cs[i]]
      BY <1>4
    <3>2. t[i - 1] = r[i - 1] /\ i \in 0..n
      BY <1>4, <2>2
    <3> QED BY <3>1, <3>2
  <2> HIDE DEF P
  <2> QED BY <1>4, <2>1, <2>2, Along
<1>6. n \in 0..n /\ r[n] \in Seq(V)
  BY <1>4
<1> QED BY <1>4, <1>5, <1>6

-----------------------------------------------------------------------------
(* The links of a set M of managed clients.                                  *)

KidsOf(l, p) == {c \in Clients : l.parent[c] = p}

\* No client of M waits for itself up its chain.
Rooted(l, M) == \A B \in SUBSET M : B # {} => \E c \in B : l.parent[c] \notin B

Linked(l, M) ==
  /\ l.parent \in [Clients -> Clients \cup {NULL}]
  /\ l.kids \in [Clients -> Seq(Clients)]
  /\ \A p \in Clients : l.kids[p] \in Orders(KidsOf(l, p))
  /\ \A c \in Clients : l.parent[c] # NULL => c \in M /\ l.parent[c] \in M
  /\ Rooted(l, M)

\* NULL is no client.
LEMMA NullIsNoClient == NULL \notin Clients
BY NullAssumption

\* An empty list, and one with a client more at its end.
LEMMA AppendIs ==
  /\ << >> \in Orders({})
  /\ \A M : \A s \in Orders(M) : \A c \in Clients :
       c \notin M => Append(s, c) \in Orders(M \cup {c})
<1>1. << >> \in Orders({})
  BY DEF Orders, IsOrder, Stacked
<1>2. ASSUME NEW M, NEW s \in Orders(M), NEW c \in Clients, c \notin M
      PROVE  Append(s, c) \in Orders(M \cup {c})
  <2> DEFINE n == Len(s) + 1
             t == Append(s, c)
             N == M \cup {c}
  <2>1. /\ s \in Seq(Clients) /\ Len(s) \in Nat /\ M \subseteq Clients
        /\ \A i \in 1..Len(s) : s[i] \in M
        /\ \A i, j \in 1..Len(s) : s[i] = s[j] => i = j
        /\ \A d \in M : \E i \in 1..Len(s) : s[i] = d
    BY PlaceOf
  <2>2. /\ n \in Nat /\ t \in Seq(Clients) /\ Len(t) = n
        /\ \A i \in 1..Len(s) : t[i] = s[i] /\ i \in 1..n
        /\ t[n] = c /\ n \in 1..n
        /\ \A i \in 1..n : i # n => i \in 1..Len(s)
    BY <2>1
  <2> HIDE DEF t, n
  <2>3. t \in [1..n -> Clients]
    <3>1. t \in [1..Len(t) -> Clients]
      BY <2>2
    <3> QED BY <2>2, <3>1
  <2>4. \A i, j \in 1..n : t[i] = t[j] => i = j
    BY <1>2, <2>1, <2>2
  <2>5. \A i \in 1..n : t[i] \in N
    BY <2>1, <2>2
  <2>6. \A d \in N : \E i \in 1..n : t[i] = d
    BY <2>1, <2>2
  <2> HIDE DEF N
  <2>7. t \in Orders(N)
    BY <2>2, <2>3, <2>4, <2>5, <2>6, OrderIs
  <2> QED BY <2>7 DEF t, N
<1> QED BY <1>1, <1>2

\* mb_wm_client_detransitise
LEMMA DetransitiseIs ==
  ASSUME NEW M \in SUBSET Clients, NEW l, Linked(l, M), NEW t \in Clients
  PROVE  LET d == Detransitise(l, t)
         IN  /\ Linked(d, M)
             /\ d.parent = [l.parent EXCEPT ![t] = NULL]
             /\ \A p \in Clients : l.kids[p] = << >> => d.kids[p] = << >>
<1>1. CASE l.parent[t] = NULL
  <2>1. [l.parent EXCEPT ![t] = NULL] = l.parent
    BY <1>1 DEF Linked
  <2> QED BY <1>1, <2>1 DEF Detransitise
<1>2. CASE l.parent[t] # NULL
  <2> DEFINE p == l.parent[t]
             d == RemoveTransient(l, p, t)
  <2>1. /\ l.parent \in [Clients -> Clients \cup {NULL}]
        /\ l.kids \in [Clients -> Seq(Clients)]
        /\ \A q \in Clients : l.kids[q] \in Orders(KidsOf(l, q))
        /\ \A c \in Clients : l.parent[c] # NULL => c \in M /\ l.parent[c] \in M
        /\ Rooted(l, M)
    BY DEF Linked
  <2>2. p \in Clients /\ p \in M /\ t \in KidsOf(l, p)
    BY <1>2, <2>1 DEF KidsOf
  <2>3. /\ d.parent = [l.parent EXCEPT ![t] = NULL]
        /\ d.kids = [l.kids EXCEPT ![p] = Without(@, t)]
    BY DEF RemoveTransient
  <2>4. Detransitise(l, t) = d
    BY <1>2 DEF Detransitise
  <2> HIDE DEF d
  <2>5. d.parent \in [Clients -> Clients \cup {NULL}]
    BY <2>1, <2>3
  <2>6. Without(l.kids[p], t) \in Orders(KidsOf(l, p) \ {t})
    BY <2>1, <2>2, WithoutIs
  <2>7. d.kids \in [Clients -> Seq(Clients)]
    <3> DEFINE w == Without(l.kids[p], t)
    <3>1. w \in Seq(Clients)
      BY <2>6 DEF Orders
    <3>2. d.kids = [l.kids EXCEPT ![p] = w]
      BY <2>3
    <3> HIDE DEF w, p
    <3> QED BY <2>1, <3>1, <3>2
  <2>8. ASSUME NEW q \in Clients PROVE d.kids[q] \in Orders(KidsOf(d, q))
    <3>1. CASE q = p
      <4>1. KidsOf(d, p) = KidsOf(l, p) \ {t}
        BY <2>1, <2>2, <2>3, NullIsNoClient DEF KidsOf
      <4>2. d.kids[p] = Without(l.kids[p], t)
        BY <2>1, <2>2, <2>3
      <4> QED BY <2>6, <3>1, <4>1, <4>2
    <3>2. CASE q # p
      <4>1. KidsOf(d, q) = KidsOf(l, q)
        BY <2>1, <2>2, <2>3, <3>2, NullIsNoClient DEF KidsOf
      <4>2. d.kids[q] = l.kids[q]
        BY <2>1, <2>2, <2>3, <3>2
      <4> QED BY <2>1, <4>1, <4>2
    <3> QED BY <3>1, <3>2
  <2>9. \A c \in Clients : d.parent[c] # NULL => c \in M /\ d.parent[c] \in M
    BY <2>1, <2>3
  <2>10. ASSUME NEW B \in SUBSET M, B # {} PROVE \E c \in B : d.parent[c] \notin B
    <3>1. PICK c \in B : l.parent[c] \notin B
      BY <2>1, <2>10 DEF Rooted
    <3>2. c \in Clients /\ NULL \notin B
      BY NullIsNoClient
    <3>3. d.parent[c] = l.parent[c] \/ d.parent[c] = NULL
      BY <2>1, <2>3, <3>2
    <3> QED BY <3>1, <3>2, <3>3
  <2>11. Linked(d, M)
    BY <2>5, <2>7, <2>8, <2>9, <2>10 DEF Linked, Rooted
  <2>12. ASSUME NEW q \in Clients, l.kids[q] = << >> PROVE d.kids[q] = << >>
    <3>1. q # p
      <4>1. Stacked(l.kids[p]) = KidsOf(l, p)
        BY <2>1, <2>2 DEF Orders
      <4>2. Stacked(<< >>) = {}
        BY DEF Stacked
      <4> QED BY <2>2, <2>12, <4>1, <4>2
    <3> QED BY <2>1, <2>3, <2>12, <3>1
  <2> QED BY <2>3, <2>4, <2>11, <2>12
<1> QED BY <1>1, <1>2

\* mb_wm_client_add_transient; either client may be new to its part.
LEMMA AddedIs ==
  ASSUME NEW M \in SUBSET Clients, NEW l, Linked(l, M), NEW p \in M, NEW t \in M, p # t,
         l.parent[p] = NULL \/ \A c \in Clients : l.parent[c] # t
  PROVE  LET a == AddTransient(l, p, t)
         IN  /\ Linked(a, M)
             /\ a.parent = [l.parent EXCEPT ![t] = p]
<1> DEFINE d == Detransitise(l, t)
           a == AddTransient(l, p, t)
<1>1. p \in Clients /\ t \in Clients /\ p # NULL /\ l.parent \in [Clients -> Clients \cup {NULL}]
  BY NullIsNoClient DEF Linked
<1>2. Linked(d, M) /\ d.parent = [l.parent EXCEPT ![t] = NULL]
  BY <1>1, DetransitiseIs
<1>3. /\ a.parent = [l.parent EXCEPT ![t] = p]
      /\ a.kids = [d.kids EXCEPT ![p] = Append(@, t)]
  BY <1>1 DEF AddTransient
<1> HIDE DEF a, d
<1>4. /\ d.parent \in [Clients -> Clients \cup {NULL}]
      /\ d.kids \in [Clients -> Seq(Clients)]
      /\ \A q \in Clients : d.kids[q] \in Orders(KidsOf(d, q))
      /\ \A c \in Clients : d.parent[c] # NULL => c \in M /\ d.parent[c] \in M
      /\ Rooted(d, M)
  BY <1>2 DEF Linked
<1>5. a.parent \in [Clients -> Clients \cup {NULL}]
  BY <1>1, <1>3
<1>6. t \notin KidsOf(d, p)
  BY <1>1, <1>2 DEF KidsOf
<1>7. Append(d.kids[p], t) \in Orders(KidsOf(d, p) \cup {t})
  BY <1>1, <1>4, <1>6, AppendIs
<1>8. a.kids \in [Clients -> Seq(Clients)]
  <2>1. Append(d.kids[p], t) \in Seq(Clients)
    BY <1>7 DEF Orders
  <2> QED BY <1>3, <1>4, <2>1
<1>9. ASSUME NEW q \in Clients PROVE a.kids[q] \in Orders(KidsOf(a, q))
  <2>1. CASE q = p
    <3>1. KidsOf(a, p) = KidsOf(d, p) \cup {t}
      BY <1>1, <1>2, <1>3 DEF KidsOf
    <3>2. a.kids[p] = Append(d.kids[p], t)
      BY <1>1, <1>3, <1>4
    <3> QED BY <1>7, <2>1, <3>1, <3>2
  <2>2. CASE q # p
    <3>1. KidsOf(a, q) = KidsOf(d, q)
      BY <1>1, <1>2, <1>3, <2>2, NullIsNoClient DEF KidsOf
    <3>2. a.kids[q] = d.kids[q]
      BY <1>1, <1>3, <1>4, <2>2
    <3> QED BY <1>4, <3>1, <3>2
  <2> QED BY <2>1, <2>2
<1>10. \A c \in Clients : a.parent[c] # NULL => c \in M /\ a.parent[c] \in M
  <2>1. \A c \in Clients : c # t => a.parent[c] = d.parent[c]
    BY <1>1, <1>2, <1>3
  <2>2. a.parent[t] = p
    BY <1>1, <1>3
  <2> QED BY <1>4, <2>1, <2>2
<1>11. ASSUME NEW B \in SUBSET M, B # {}, \A c \in B : a.parent[c] \in B PROVE FALSE
  <2>1. \A c \in B : c \in Clients /\ (c # t => a.parent[c] = l.parent[c] /\ d.parent[c] = l.parent[c])
    BY <1>1, <1>2, <1>3
  <2>2. \A C \in SUBSET M : C # {} => \E c \in C : d.parent[c] \notin C
    BY <1>4 DEF Rooted
  <2>3. NULL \notin B
    BY NullIsNoClient
  <2>4. CASE t \notin B
    <3>1. \A c \in B : d.parent[c] \in B
      BY <1>11, <2>1, <2>4
    <3> QED BY <1>11, <2>2, <3>1
  <2>5. CASE t \in B
    <3>1. p \in B
      BY <1>1, <1>3, <1>11, <2>5
    <3>2. l.parent[p] # NULL
      BY <1>11, <2>1, <2>3, <3>1
    <3>3. \A c \in Clients : l.parent[c] # t
      BY <3>2
    <3> DEFINE C == B \ {t}
    <3>4. C \in SUBSET M /\ C # {}
      BY <3>1
    <3>5. \A c \in C : d.parent[c] \in C
      BY <1>11, <2>1, <3>3
    <3> HIDE DEF C
    <3> QED BY <2>2, <3>4, <3>5
  <2> QED BY <2>4, <2>5
<1>12. Rooted(a, M)
  BY <1>11 DEF Rooted
<1>13. Linked(a, M)
  BY <1>5, <1>8, <1>9, <1>10, <1>12 DEF Linked
<1> QED BY <1>3, <1>13 DEF a

\* mb_wm_client_remove_all_transients
LEMMA OrphanIs ==
  ASSUME NEW M \in SUBSET Clients, NEW l, Linked(l, M), NEW p \in Clients
  PROVE  LET o == Orphan(l, p)
         IN  /\ Linked(o, M)
             /\ \A c \in Clients : /\ o.parent[c] = l.parent[c] \/ o.parent[c] = NULL
                                   /\ o.parent[c] # p
<1> DEFINE o == Orphan(l, p)
<1>1. /\ l.parent \in [Clients -> Clients \cup {NULL}]
      /\ l.kids \in [Clients -> Seq(Clients)]
      /\ \A q \in Clients : l.kids[q] \in Orders(KidsOf(l, q))
      /\ \A c \in Clients : l.parent[c] # NULL => c \in M /\ l.parent[c] \in M
      /\ Rooted(l, M)
  BY DEF Linked
<1>2. /\ o.parent = [c \in Clients |-> IF l.parent[c] = p THEN NULL ELSE l.parent[c]]
      /\ o.kids = [l.kids EXCEPT ![p] = << >>]
  BY DEF Orphan
<1> HIDE DEF o
<1>3. \A c \in Clients : /\ o.parent[c] = l.parent[c] \/ o.parent[c] = NULL
                         /\ o.parent[c] # p
                         /\ l.parent[c] # p => o.parent[c] = l.parent[c]
  BY <1>2, NullIsNoClient
<1>4. o.parent \in [Clients -> Clients \cup {NULL}] /\ o.kids \in [Clients -> Seq(Clients)]
  BY <1>1, <1>2
<1>5. ASSUME NEW q \in Clients PROVE o.kids[q] \in Orders(KidsOf(o, q))
  <2>1. CASE q = p
    <3>1. KidsOf(o, p) = {}
      BY <1>3 DEF KidsOf
    <3>2. o.kids[p] = << >>
      BY <1>1, <1>2
    <3> QED BY <2>1, <3>1, <3>2, AppendIs
  <2>2. CASE q # p
    <3>1. KidsOf(o, q) = KidsOf(l, q)
      BY <1>3, <2>2, NullIsNoClient DEF KidsOf
    <3>2. o.kids[q] = l.kids[q]
      BY <1>1, <1>2, <2>2
    <3> QED BY <1>1, <3>1, <3>2
  <2> QED BY <2>1, <2>2
<1>6. \A c \in Clients : o.parent[c] # NULL => c \in M /\ o.parent[c] \in M
  BY <1>1, <1>3
<1>7. ASSUME NEW B \in SUBSET M, B # {} PROVE \E c \in B : o.parent[c] \notin B
  <2>1. PICK c \in B : l.parent[c] \notin B
    BY <1>1, <1>7 DEF Rooted
  <2>2. c \in Clients /\ NULL \notin B
    BY NullIsNoClient
  <2> QED BY <1>3, <2>1, <2>2
<1>8. Linked(o, M)
  BY <1>4, <1>5, <1>6, <1>7 DEF Linked, Rooted
<1> QED BY <1>3, <1>8 DEF o

\* A client with neither parent nor transients comes or goes.
LEMMA LinkedStays ==
  ASSUME NEW M \in SUBSET Clients, NEW l, Linked(l, M), NEW c \in Clients,
         NEW N \in SUBSET Clients, N \ {c} = M \ {c},
         l.parent[c] = NULL, \A k \in Clients : l.parent[k] # c
  PROVE  Linked(l, N)
<1>1. /\ l.parent \in [Clients -> Clients \cup {NULL}]
      /\ \A k \in Clients : l.parent[k] # NULL => k \in M /\ l.parent[k] \in M
      /\ Rooted(l, M)
  BY DEF Linked
<1>2. \A k \in Clients : l.parent[k] # NULL => k \in N /\ l.parent[k] \in N
  BY <1>1
<1>3. ASSUME NEW B \in SUBSET N, B # {} PROVE \E k \in B : l.parent[k] \notin B
  <2>1. CASE c \in B
    <3>1. NULL \notin B
      BY NullIsNoClient
    <3> QED BY <2>1, <3>1
  <2>2. CASE c \notin B
    <3>1. B \in SUBSET M
      BY <2>2
    <3> QED BY <1>1, <1>3, <3>1 DEF Rooted
  <2> QED BY <2>1, <2>2
<1> QED BY <1>2, <1>3 DEF Linked, Rooted

\* Nor down it.
LEMMA KidsEnd ==
  ASSUME NEW M \in SUBSET Clients, IsFiniteSet(M), NEW l, Linked(l, M),
         NEW B \in SUBSET M, B # {}
  PROVE  \E e \in B : \A c \in B : l.parent[c] # e
<1> SUFFICES ASSUME \A e \in B : \E c \in B : l.parent[c] = e PROVE FALSE
  OBVIOUS
<1>1. PICK r \in B : l.parent[r] \notin B
  BY DEF Linked, Rooted
<1> DEFINE C == B \ {r}
           g == [e \in B |-> CHOOSE c \in B : l.parent[c] = e]
<1>2. \A e \in B : g[e] \in B /\ l.parent[g[e]] = e
  OBVIOUS
<1>3. g \in [B -> C]
  <2>1. \A e \in B : g[e] \in C
    BY <1>1, <1>2
  <2> QED BY <2>1
<1>4. IsFiniteSet(B) /\ Cardinality(B) \in Nat
  BY FS_Subset, FS_CardinalityType
<1>5. IsFiniteSet(C) /\ Cardinality(C) = Cardinality(B) - 1
  BY <1>1, <1>4, FS_RemoveElement
<1>6. Cardinality(C) < Cardinality(B)
  BY <1>4, <1>5
<1> HIDE DEF C, g
<1>7. PICK x \in B, y \in B : x # y /\ g[x] = g[y]
  BY <1>3, <1>4, <1>5, <1>6, FS_PigeonHole
<1> QED BY <1>2, <1>7

-----------------------------------------------------------------------------
(* The clients that a chain of transients makes be stacked together.         *)

\* d comes in q after the i-th.
Later(q, i, d) == \E j \in 1..Len(q) : i < j /\ q[j] = d

\* Each of q is followed by those that ks has for it.
Followed(q, ks) ==
  \A i \in 1..Len(q) : \A k \in 1..Len(ks[q[i]]) : Later(q, i, ks[q[i]][k])

Listed(q, c, M, ks) == q \in Seq(M) /\ Len(q) >= 1 /\ q[1] = c /\ Followed(q, ks)

\* Two sequences end to end.
LEMMA JoinedIs ==
  ASSUME NEW M, NEW a \in Seq(M), NEW b \in Seq(M)
  PROVE  LET t == a \o b
         IN  /\ t \in Seq(M) /\ Len(t) = Len(a) + Len(b)
             /\ \A i \in 1..Len(a) : t[i] = a[i]
             /\ \A i \in 1..Len(b) : t[Len(a) + i] = b[i]
OBVIOUS

\* Another list is added.
LEMMA JoinedFollowed ==
  ASSUME NEW M, NEW a \in Seq(M), NEW b \in Seq(M), NEW ks, Len(a) >= 1, Followed(b, ks),
         \A i \in 2..Len(a) : \A k \in 1..Len(ks[a[i]]) : Later(a, i, ks[a[i]][k])
  PROVE  LET t == a \o b
         IN  /\ \A i \in 2..Len(t) : \A k \in 1..Len(ks[t[i]]) : Later(t, i, ks[t[i]][k])
             /\ \A d : Later(a, 1, d) => Later(t, 1, d)
             /\ \A j \in 1..Len(b) : Later(t, 1, b[j])
<1> DEFINE t == a \o b
<1>1. /\ t \in Seq(M) /\ Len(t) = Len(a) + Len(b)
      /\ \A i \in 1..Len(a) : t[i] = a[i]
      /\ \A i \in 1..Len(b) : t[Len(a) + i] = b[i]
      /\ Len(a) \in Nat /\ Len(b) \in Nat
  BY JoinedIs
<1> HIDE DEF t
<1>2. ASSUME NEW i \in 1..Len(a), NEW d, Later(a, i, d) PROVE Later(t, i, d)
  <2>1. PICK j \in 1..Len(a) : i < j /\ a[j] = d
    BY <1>2 DEF Later
  <2>2. j \in 1..Len(t) /\ t[j] = d
    BY <1>1, <2>1
  <2> QED BY <2>1, <2>2 DEF Later
<1>3. ASSUME NEW i \in 1..Len(b), NEW d, Later(b, i, d) PROVE Later(t, Len(a) + i, d)
  <2>1. PICK j \in 1..Len(b) : i < j /\ b[j] = d
    BY <1>3 DEF Later
  <2>2. Len(a) + j \in 1..Len(t) /\ t[Len(a) + j] = d /\ Len(a) + i < Len(a) + j
    BY <1>1, <2>1
  <2> QED BY <2>2 DEF Later
<1>4. ASSUME NEW i \in 2..Len(t), NEW k \in 1..Len(ks[t[i]]) PROVE Later(t, i, ks[t[i]][k])
  <2>1. CASE i <= Len(a)
    <3>1. i \in 2..Len(a) /\ i \in 1..Len(a) /\ t[i] = a[i]
      BY <1>1, <2>1
    <3>2. Later(a, i, ks[a[i]][k])
      BY <3>1
    <3> QED BY <1>2, <3>1, <3>2
  <2>2. CASE i > Len(a)
    <3> DEFINE h == i - Len(a)
    <3>1. h \in 1..Len(b) /\ i = Len(a) + h
      BY <1>1, <2>2
    <3> HIDE DEF h
    <3>2. t[i] = b[h]
      BY <1>1, <3>1
    <3>3. Later(b, h, ks[b[h]][k])
      BY <3>1, <3>2 DEF Followed
    <3> QED BY <1>3, <3>1, <3>2, <3>3
  <2> QED BY <1>1, <2>1, <2>2
<1>5. \A d : Later(a, 1, d) => Later(t, 1, d)
  <2>1. 1 \in 1..Len(a)
    BY <1>1
  <2> QED BY <1>2, <2>1
<1>6. ASSUME NEW j \in 1..Len(b) PROVE Later(t, 1, b[j])
  <2>1. Len(a) + j \in 1..Len(t) /\ t[Len(a) + j] = b[j] /\ 1 < Len(a) + j
    BY <1>1
  <2> QED BY <2>1 DEF Later
<1> QED BY <1>4, <1>5, <1>6 DEF t

\* A client at the head of the lists of others.
LEMMA HeadedListed ==
  ASSUME NEW M, NEW c \in M, NEW ks, NEW f, Len(ks[c]) \in Nat,
         \A i \in 1..Len(ks[c]) : Listed(f[ks[c][i]], ks[c][i], M, ks)
  PROVE  Listed(Headed(c, f, ks[c]), c, M, ks)
<1> DEFINE cs == ks[c]
           n == Len(cs)
<1>1. \A i \in 1..n : Listed(f[cs[i]], cs[i], M, ks)
  OBVIOUS
<1>2. \A i \in 1..n : f[cs[i]] \in Seq(M)
  BY DEF Listed
<1>3. PICK r : Stages(r, M, c, f, cs)
  BY <1>2, HeadedIs
<1>4. /\ n \in Nat /\ r \in [0..n -> Seq(M)] /\ r[0] = <<c>>
      /\ \A i \in 1..n : r[i] = r[i - 1] \o f[cs[i]]
      /\ Headed(c, f, cs) = r[n]
  BY <1>3 DEF Stages
<1> DEFINE Fine(i) == /\ Len(r[i]) >= 1 /\ r[i][1] = c
                      /\ \A x \in 2..Len(r[i]) : \A k \in 1..Len(ks[r[i][x]]) :
                           Later(r[i], x, ks[r[i][x]][k])
                      /\ \A k \in 1..i : Later(r[i], 1, cs[k])
           P == {i \in 0..n : Fine(i)}
<1> HIDE DEF n, cs
<1>5. Fine(0)
  <2>1. Len(r[0]) = 1 /\ r[0][1] = c
    BY <1>4
  <2> QED BY <2>1
<1>6. ASSUME NEW i \in 1..n, Fine(i - 1) PROVE Fine(i)
  <2> DEFINE a == r[i - 1]
             b == f[cs[i]]
             t == r[i]
  <2>11. i \in 0..n /\ i - 1 \in 0..n
    BY <1>4
  <2>1. a \in Seq(M) /\ b \in Seq(M) /\ t = a \o b
    BY <1>2, <1>4, <2>11
  <2>2. Listed(b, cs[i], M, ks)
    BY <1>1
  <2>3. /\ Len(a) >= 1 /\ a[1] = c
        /\ \A x \in 2..Len(a) : \A k \in 1..Len(ks[a[x]]) : Later(a, x, ks[a[x]][k])
        /\ \A k \in 1..(i - 1) : Later(a, 1, cs[k])
    BY <1>6
  <2> HIDE DEF a, b, t
  <2>4. Len(b) >= 1 /\ b[1] = cs[i] /\ Followed(b, ks) /\ Len(a) \in Nat /\ Len(b) \in Nat
    BY <2>1, <2>2 DEF Listed
  <2>5. /\ \A x \in 2..Len(t) : \A k \in 1..Len(ks[t[x]]) : Later(t, x, ks[t[x]][k])
        /\ \A d : Later(a, 1, d) => Later(t, 1, d)
        /\ \A j \in 1..Len(b) : Later(t, 1, b[j])
    BY <2>1, <2>3, <2>4, JoinedFollowed
  <2>6. Len(t) >= 1 /\ t[1] = c
    <3>1. Len(t) = Len(a) + Len(b) /\ \A x \in 1..Len(a) : t[x] = a[x]
      BY <2>1, JoinedIs
    <3> QED BY <2>3, <2>4, <3>1
  <2>7. Later(t, 1, cs[i])
    <3>1. 1 \in 1..Len(b)
      BY <2>4
    <3> QED BY <2>4, <2>5, <3>1
  <2>8. \A k \in 1..i : Later(t, 1, cs[k])
    <3> SUFFICES ASSUME NEW k \in 1..i PROVE Later(t, 1, cs[k])
      OBVIOUS
    <3>1. k = i \/ k \in 1..(i - 1)
      BY <1>4
    <3> QED BY <2>3, <2>5, <2>7, <3>1
  <2> QED BY <2>5, <2>6, <2>8 DEF t
<1> HIDE DEF Fine
<1>7. \A i \in 0..n : i \in P
  <2>1. 0 \in P
    BY <1>4, <1>5
  <2>2. \A i \in 1..n : i - 1 \in P => i \in P
    BY <1>4, <1>6
  <2> HIDE DEF P
  <2> QED BY <1>4, <2>1, <2>2, Along
<1>8. n \in 0..n /\ Fine(n) /\ r[n] \in Seq(M)
  <2>1. n \in 0..n
    BY <1>4
  <2> QED BY <1>4, <1>7, <2>1
<1> DEFINE t == r[n]
<1>9. /\ t \in Seq(M) /\ Len(t) >= 1 /\ t[1] = c
      /\ \A x \in 2..Len(t) : \A k \in 1..Len(ks[t[x]]) : Later(t, x, ks[t[x]][k])
      /\ \A k \in 1..n : Later(t, 1, cs[k])
  BY <1>8 DEF Fine
<1> HIDE DEF t
<1>10. Followed(t, ks)
  <2> SUFFICES ASSUME NEW x \in 1..Len(t), NEW k \in 1..Len(ks[t[x]])
               PROVE  Later(t, x, ks[t[x]][k])
    BY DEF Followed
  <2>1. CASE x = 1
    BY <1>9, <2>1 DEF n, cs
  <2>2. CASE x # 1
    <3>1. x \in 2..Len(t)
      BY <2>2
    <3> QED BY <1>9, <3>1
  <2> QED BY <2>1, <2>2
<1>11. Listed(t, c, M, ks)
  BY <1>9, <1>10 DEF Listed
<1> QED BY <1>4, <1>11 DEF t, cs

\* Lists of transients: ks has those of a client, or none.
Chains(ks, l) ==
  /\ ks \in [Clients -> Seq(Clients)]
  /\ \A d \in Clients : ks[d] = l.kids[d] \/ ks[d] = << >>

Listing(f, ks) == f = [d \in Clients |-> Headed(d, f, ks[d])]

\* Whom ks has for d waits for it.
Waiting(ks, l, M, d) ==
  /\ ks[d] \in Seq(Clients) /\ Len(ks[d]) \in Nat
  /\ \A i \in 1..Len(ks[d]) : /\ ks[d][i] \in M /\ l.parent[ks[d][i]] = d
                              /\ ks[d] = l.kids[d] /\ d \in M

\* Such lists are lists of clients that wait.
LEMMA ChainsAre ==
  ASSUME NEW M \in SUBSET Clients, NEW l, Linked(l, M), NEW ks, Chains(ks, l), NEW d \in Clients
  PROVE  Waiting(ks, l, M, d)
<1>1. ks[d] \in Seq(Clients) /\ Len(ks[d]) \in Nat
  BY DEF Chains
<1>2. ASSUME NEW i \in 1..Len(ks[d])
      PROVE  ks[d][i] \in M /\ l.parent[ks[d][i]] = d /\ ks[d] = l.kids[d] /\ d \in M
  <2>1. ks[d] = l.kids[d]
    <3>1. ks[d] # << >>
      OBVIOUS
    <3> QED BY <3>1 DEF Chains
  <2>2. l.kids[d] \in Orders(KidsOf(l, d))
    BY DEF Linked
  <2>3. ks[d][i] \in KidsOf(l, d)
    BY <2>1, <2>2, PlaceOf
  <2>4. ks[d][i] \in Clients /\ l.parent[ks[d][i]] = d
    BY <2>3 DEF KidsOf
  <2>5. ks[d][i] \in M /\ d \in M
    BY <2>4, NullIsNoClient DEF Linked
  <2> QED BY <2>1, <2>4, <2>5
<1> QED BY <1>1, <1>2 DEF Waiting

\* Such lists can be made.
LEMMA ListingExists ==
  ASSUME NEW M \in SUBSET Clients, IsFiniteSet(M), NEW l, Linked(l, M), NEW ks, Chains(ks, l)
  PROVE  \E f : Listing(f, ks)
<1> DEFINE V == Seq(Clients)
           F == [Clients -> V]
           H(d, f) == Headed(d, f, ks[d])
           G == [d \in Clients |-> [f \in F |-> H(d, f)]]
           dep == [d \in Clients |-> {ks[d][i] : i \in 1..Len(ks[d])}]
<1>1. \A d \in Clients : /\ Len(ks[d]) \in Nat
                         /\ \A i \in 1..Len(ks[d]) : ks[d][i] \in M /\ l.parent[ks[d][i]] = d /\ d \in M
  <2> SUFFICES ASSUME NEW d \in Clients
               PROVE  /\ Len(ks[d]) \in Nat
                      /\ \A i \in 1..Len(ks[d]) : ks[d][i] \in M /\ l.parent[ks[d][i]] = d /\ d \in M
    OBVIOUS
  <2> HIDE DEF V, F, H, G, dep
  <2>1. Waiting(ks, l, M, d)
    BY ChainsAre
  <2> QED BY <2>1 DEF Waiting
<1>2. ASSUME NEW d \in Clients, NEW f \in F, NEW g \in F, SameOn(f, g, dep[d])
      PROVE  H(d, f) \in V /\ H(d, g) = H(d, f)
  <2>1. \A i \in 1..Len(ks[d]) : ks[d][i] \in Clients /\ f[ks[d][i]] \in V /\ g[ks[d][i]] = f[ks[d][i]]
    BY <1>1, <1>2 DEF SameOn
  <2>2. Len(ks[d]) \in Nat
    BY <1>1
  <2> DEFINE cs == ks[d]
  <2>3. \A i \in 1..Len(cs) : f[cs[i]] \in Seq(Clients) /\ g[cs[i]] = f[cs[i]]
    BY <2>1
  <2>4. Len(cs) \in Nat
    BY <2>2
  <2> HIDE DEF cs, G, dep, F, V, H
  <2>5. Headed(d, g, cs) = Headed(d, f, cs) /\ Headed(d, f, cs) \in Seq(Clients)
    BY <2>3, <2>4, HeadedSame
  <2> QED BY <2>5 DEF cs, V, H
<1> HIDE DEF H, V
<1>3. \A d \in Clients : \A f \in F : H(d, f) \in V
  BY <1>2 DEF SameOn
<1>4. G \in [Clients -> [[Clients -> V] -> V]]
  BY <1>3
<1>5. \A d \in Clients : \A f \in F : G[d][f] = H(d, f)
  OBVIOUS
<1>6. dep \in [Clients -> SUBSET Clients]
  BY <1>1
<1>7. \A d \in Clients \ M : dep[d] = {}
  BY <1>1
<1>8. \A B \in SUBSET M : B # {} => \E e \in B : dep[e] \cap B = {}
  <2> SUFFICES ASSUME NEW B \in SUBSET M, B # {} PROVE \E e \in B : dep[e] \cap B = {}
    OBVIOUS
  <2>1. PICK e \in B : \A c \in B : l.parent[c] # e
    BY KidsEnd
  <2>2. e \in Clients
    OBVIOUS
  <2>3. dep[e] \cap B = {}
    BY <1>1, <2>1, <2>2
  <2> QED BY <2>3
<1> HIDE DEF G, dep
<1>9. \A d \in Clients : \A f, g \in [Clients -> V] :
        SameOn(f, g, dep[d]) => G[d][f] = G[d][g]
  <2> SUFFICES ASSUME NEW d \in Clients, NEW f \in F, NEW g \in F, SameOn(f, g, dep[d])
               PROVE  G[d][f] = G[d][g]
    OBVIOUS
  <2>1. H(d, g) = H(d, f)
    BY <1>2
  <2> QED BY <1>5, <2>1
<1>10. << >> \in V
  BY DEF V
<1>11. \E f \in [Clients -> V] : Solved(f, Clients, G)
  <2>1. Respects(G, dep, Clients, V)
    BY <1>9 DEF Respects
  <2>2. Grounded(dep, Clients, M)
    BY <1>7, <1>8 DEF Grounded
  <2> HIDE DEF F
  <2> QED BY <1>4, <1>6, <1>10, <2>1, <2>2, Recursion
<1>12. PICK f \in F : f = [d \in Clients |-> G[d][f]]
  BY <1>11 DEF Solved
<1>13. \A d \in Clients : f[d] = H(d, f)
  BY <1>5, <1>12
<1>14. f = [d \in Clients |-> H(d, f)]
  BY <1>13
<1> QED BY <1>14 DEF Listing, H

\* A list begins with its client, and whom it has is followed by those of theirs.
LEMMA ListingIs ==
  ASSUME NEW M \in SUBSET Clients, IsFiniteSet(M), NEW l, Linked(l, M), NEW ks, Chains(ks, l),
         NEW f, Listing(f, ks)
  PROVE  \A c \in M : Listed(f[c], c, M, ks)
<1> DEFINE B == {c \in M : ~Listed(f[c], c, M, ks)}
<1> SUFFICES ASSUME B # {} PROVE FALSE
  OBVIOUS
<1>10. B \in SUBSET M /\ B # {}
  OBVIOUS
<1>1. PICK e \in B : \A c \in B : l.parent[c] # e
  <2> HIDE DEF B
  <2> QED BY <1>10, KidsEnd
<1>2. e \in M /\ ~Listed(f[e], e, M, ks)
  OBVIOUS
<1>3. /\ Len(ks[e]) \in Nat
      /\ \A i \in 1..Len(ks[e]) : ks[e][i] \in M /\ l.parent[ks[e][i]] = e
  <2>1. e \in Clients
    BY <1>2
  <2> HIDE DEF B
  <2>2. Waiting(ks, l, M, e)
    BY <2>1, ChainsAre
  <2> QED BY <2>2 DEF Waiting
<1>4. \A i \in 1..Len(ks[e]) : Listed(f[ks[e][i]], ks[e][i], M, ks)
  BY <1>1, <1>3
<1> HIDE DEF B
<1>5. Listed(Headed(e, f, ks[e]), e, M, ks)
  BY <1>2, <1>3, <1>4, HeadedListed
<1>6. f[e] = Headed(e, f, ks[e])
  BY <1>2 DEF Listing
<1> QED BY <1>2, <1>5, <1>6

\* mb_wm_client_move_to_top_recursive
LEMMA FamilyIs ==
  ASSUME NEW M \in SUBSET Clients, IsFiniteSet(M), NEW l, Linked(l, M), NEW c \in M
  PROVE  Listed(Family(l, c), c, M, l.kids)
<1> DEFINE down == CHOOSE f : Listing(f, l.kids)
<1>1. Chains(l.kids, l)
  BY DEF Chains, Linked
<1>2. Listing(down, l.kids)
  BY <1>1, ListingExists
<1>3. Family(l, c) = down[c]
  BY DEF Family, Listing
<1> HIDE DEF down
<1> QED BY <1>1, <1>2, <1>3, ListingIs

IsOverride(d) == ClientType[d] = "Override" /\ d \notin LiveBackgrounds

OverrideKids(l) == [d \in Clients |-> IF IsOverride(d) THEN l.kids[d] ELSE << >>]

\* mb_wm_client_override_stack
LEMMA OverrideCallsAre ==
  ASSUME NEW M \in SUBSET Clients, IsFiniteSet(M), NEW l, Linked(l, M), NEW c \in M
  PROVE  Listed(OverrideCalls(l, c), c, M, OverrideKids(l))
<1> DEFINE ks == OverrideKids(l)
           Is(f) == f = [d \in Clients |-> Headed(d, f, IF IsOverride(d) THEN l.kids[d] ELSE << >>)]
           calls == CHOOSE f : Is(f)
<1>1. Chains(ks, l)
  <2>1. l.kids \in [Clients -> Seq(Clients)]
    BY DEF Linked
  <2> QED BY <2>1 DEF Chains, OverrideKids
<1>2. \A f : Is(f) <=> Listing(f, ks)
  <2> SUFFICES ASSUME NEW f PROVE Is(f) <=> Listing(f, ks)
    OBVIOUS
  <2>1. \A d \in Clients : ks[d] = IF IsOverride(d) THEN l.kids[d] ELSE << >>
    BY DEF OverrideKids
  <2> HIDE DEF ks
  <2>2. \A d \in Clients : Headed(d, f, ks[d]) = Headed(d, f, IF IsOverride(d) THEN l.kids[d] ELSE << >>)
    BY <2>1
  <2> QED BY <2>2 DEF Listing
<1>3. Is(calls)
  <2>1. \E f : Is(f)
    <3> HIDE DEF Is, ks
    <3> QED BY <1>1, <1>2, ListingExists
  <2> HIDE DEF Is
  <2> QED BY <2>1
<1>4. OverrideCalls(l, c) = calls[c]
  BY DEF OverrideCalls, IsOverride
<1> HIDE DEF calls
<1>5. Listing(calls, ks)
  <2> HIDE DEF Is, ks
  <2> QED BY <1>2, <1>3
<1> HIDE DEF ks
<1>6. Listed(calls[c], c, M, ks)
  BY <1>1, <1>5, ListingIs
<1> QED BY <1>4, <1>6 DEF ks

Climbing(up, l) == up = [d \in Clients |-> IF l.parent[d] = NULL THEN d ELSE up[l.parent[d]]]

\* The walk up a chain has an end.
LEMMA ClimbingExists ==
  ASSUME NEW M \in SUBSET Clients, IsFiniteSet(M), NEW l, Linked(l, M)
  PROVE  \E f : Climbing(f, l)
<1> DEFINE V == Clients
           H(d, f) == IF l.parent[d] = NULL THEN d ELSE f[l.parent[d]]
           G == [d \in Clients |-> [f \in [Clients -> V] |-> H(d, f)]]
           dep == [d \in Clients |-> {l.parent[d]} \cap Clients]
<1>1. /\ l.parent \in [Clients -> Clients \cup {NULL}]
      /\ \A c \in Clients : l.parent[c] # NULL => c \in M /\ l.parent[c] \in M
      /\ Rooted(l, M)
  BY DEF Linked
<1>2. CASE Clients = {}
  <2> DEFINE f == [d \in Clients |-> d]
  <2>1. Climbing(f, l)
    BY <1>2 DEF Climbing
  <2> QED BY <2>1
<1>3. CASE Clients # {}
  <2>1. PICK v : v \in V
    BY <1>3
  <2>2. \A d \in Clients : \A f \in [Clients -> V] : H(d, f) \in V
    BY <1>1
  <2>3. ASSUME NEW d \in Clients, NEW f, NEW g, SameOn(f, g, dep[d])
        PROVE  H(d, f) = H(d, g)
    BY <1>1, <2>3 DEF SameOn
  <2>4. \A d \in Clients \ M : dep[d] = {}
    BY <1>1, NullIsNoClient
  <2>5. \A B \in SUBSET M : B # {} => \E e \in B : dep[e] \cap B = {}
    <3> SUFFICES ASSUME NEW B \in SUBSET M, B # {} PROVE \E e \in B : dep[e] \cap B = {}
      OBVIOUS
    <3>1. PICK e \in B : l.parent[e] \notin B
      BY <1>1 DEF Rooted
    <3>2. dep[e] \cap B = {}
      BY <3>1
    <3> QED BY <3>2
  <2> HIDE DEF H, V
  <2>6. G \in [Clients -> [[Clients -> V] -> V]]
    BY <2>2
  <2>7. \A d \in Clients : \A f \in [Clients -> V] : G[d][f] = H(d, f)
    OBVIOUS
  <2>8. dep \in [Clients -> SUBSET Clients]
    OBVIOUS
  <2> HIDE DEF G, dep
  <2>9. \A d \in Clients : \A f, g \in [Clients -> V] :
          SameOn(f, g, dep[d]) => G[d][f] = G[d][g]
    BY <2>3, <2>7
  <2>10. \E f \in [Clients -> V] : Solved(f, Clients, G)
    <3>1. Respects(G, dep, Clients, V)
      BY <2>9 DEF Respects
    <3>2. Grounded(dep, Clients, M)
      BY <2>4, <2>5 DEF Grounded
    <3> QED BY <2>1, <2>6, <2>8, <3>1, <3>2, Recursion
  <2>11. PICK f \in [Clients -> V] : f = [d \in Clients |-> G[d][f]]
    BY <2>10 DEF Solved
  <2>12. \A d \in Clients : f[d] = H(d, f)
    BY <2>7, <2>11
  <2>13. f = [d \in Clients |-> H(d, f)]
    BY <2>12
  <2> QED BY <2>13 DEF Climbing, H
<1> QED BY <1>2, <1>3

\* A client is in the family of the first of its chain.
LEMMA RootIs ==
  ASSUME NEW M \in SUBSET Clients, IsFiniteSet(M), NEW l, Linked(l, M)
  PROVE  \A c \in M : /\ Root(l, c) \in M
                      /\ \E i \in 1..Len(Family(l, Root(l, c))) : Family(l, Root(l, c))[i] = c
<1> DEFINE up == CHOOSE f : Climbing(f, l)
           In(c) == \E i \in 1..Len(Family(l, up[c])) : Family(l, up[c])[i] = c
           B == {c \in M : up[c] \notin M \/ ~In(c)}
<1>1. Climbing(up, l)
  BY ClimbingExists
<1>2. \A c : Root(l, c) = up[c]
  BY DEF Root, Climbing
<1> HIDE DEF up
<1> SUFFICES ASSUME B # {} PROVE FALSE
  BY <1>2
<1>3. PICK e \in B : l.parent[e] \notin B
  BY DEF Linked, Rooted
<1>4. e \in M /\ e \in Clients /\ (up[e] \notin M \/ ~In(e))
  OBVIOUS
<1>5. up[e] = IF l.parent[e] = NULL THEN e ELSE up[l.parent[e]]
  BY <1>1, <1>4 DEF Climbing
<1>6. CASE l.parent[e] = NULL
  <2> DEFINE q == Family(l, e)
  <2>1. Listed(q, e, M, l.kids)
    BY <1>4, FamilyIs
  <2> HIDE DEF q
  <2>2. 1 \in 1..Len(q) /\ q[1] = e
    BY <2>1 DEF Listed
  <2> QED BY <1>4, <1>5, <1>6, <2>2 DEF q
<1>7. CASE l.parent[e] # NULL
  <2> DEFINE p == l.parent[e]
             q == Family(l, up[p])
  <2>1. p \in M /\ p \in Clients
    BY <1>4, <1>7 DEF Linked
  <2>2. up[p] \in M /\ In(p) /\ up[e] = up[p]
    BY <1>3, <1>5, <1>7, <2>1
  <2>3. Listed(q, up[p], M, l.kids)
    BY <2>2, FamilyIs
  <2>4. PICK i \in 1..Len(q) : q[i] = p
    BY <2>2
  <2>5. l.kids[p] \in Orders(KidsOf(l, p)) /\ e \in KidsOf(l, p)
    BY <1>4, <2>1 DEF Linked, KidsOf
  <2>6. PICK k \in 1..Len(l.kids[p]) : l.kids[p][k] = e
    BY <2>5, PlaceOf
  <2> HIDE DEF q, p
  <2>7. Later(q, i, e)
    BY <2>3, <2>4, <2>6 DEF Listed, Followed
  <2>8. \E j \in 1..Len(q) : q[j] = e
    BY <2>7 DEF Later
  <2>9. In(e)
    BY <2>2, <2>8 DEF q
  <2> QED BY <1>4, <2>2, <2>9
<1> QED BY <1>6, <1>7


-----------------------------------------------------------------------------
(* Which transients a change of the stack leaves below their parent.         *)

\* The transients that do not lie above their parent, though neither moves
\* alone.
Fallen(s, l) ==
  {c \in Clients : /\ l.parent[c] # NULL
                   /\ ~MovesAlone(c) /\ ~MovesAlone(l.parent[c])
                   /\ ~Below(s, l.parent[c], c)}

\* A move of c can only make c and its transients fall.
LEMMA MovedFallen ==
  ASSUME NEW M, NEW l, Linked(l, M), NEW s, NEW t, NEW c \in Clients, Moves(s, t, c)
  PROVE  \A e \in Fallen(t, l) : /\ e \in Fallen(s, l) \/ e = c \/ l.parent[e] = c
                                 /\ MovesAlone(c) => e \in Fallen(s, l)
<1> SUFFICES ASSUME NEW e \in Fallen(t, l)
             PROVE  /\ e \in Fallen(s, l) \/ e = c \/ l.parent[e] = c
                    /\ MovesAlone(c) => e \in Fallen(s, l)
  OBVIOUS
<1> DEFINE p == l.parent[e]
<1>1. e \in Clients /\ p # NULL /\ ~MovesAlone(e) /\ ~MovesAlone(p) /\ ~Below(t, p, e)
  BY DEF Fallen
<1>2. p \in Clients
  BY <1>1 DEF Linked
<1> HIDE DEF p
<1>3. e # c /\ p # c => ~Below(s, p, e)
  BY <1>1, <1>2 DEF Moves
<1>4. MovesAlone(c) => e # c /\ p # c
  BY <1>1
<1>5. e # c /\ p # c => e \in Fallen(s, l)
  BY <1>1, <1>3 DEF Fallen, p
<1> QED BY <1>4, <1>5 DEF p

\* No client is its own parent.
LEMMA NotOwnParent ==
  ASSUME NEW M, NEW l, Linked(l, M), NEW c \in Clients
  PROVE  l.parent[c] # c
<1> SUFFICES ASSUME l.parent[c] = c PROVE FALSE
  OBVIOUS
<1>1. c \in M
  BY NullIsNoClient DEF Linked
<1> DEFINE B == {c}
<1>2. B \in SUBSET M /\ B # {}
  BY <1>1
<1>3. \E e \in B : l.parent[e] \notin B
  <2> HIDE DEF B
  <2> QED BY <1>2 DEF Linked, Rooted
<1> QED BY <1>3

\* A client on top has not fallen.
LEMMA RaisedFallen ==
  ASSUME NEW M, NEW l, Linked(l, M), NEW s \in Orders(M), NEW c \in M
  PROVE  \A e \in Fallen(Raised(s, c), l) : /\ e # c
                                            /\ e \in Fallen(s, l) \/ l.parent[e] = c
<1> DEFINE t == Raised(s, c)
<1>1. c \in Clients /\ Moves(s, t, c) /\ \A a \in M \ {c} : Below(t, a, c)
  BY RaisedIs, PlaceOf
<1> HIDE DEF t
<1>2. \A e \in Fallen(t, l) : e \in Fallen(s, l) \/ e = c \/ l.parent[e] = c
  BY <1>1, MovedFallen
<1>3. c \notin Fallen(t, l)
  <2> SUFFICES ASSUME c \in Fallen(t, l) PROVE FALSE
    OBVIOUS
  <2>1. l.parent[c] # NULL /\ ~Below(t, l.parent[c], c)
    BY DEF Fallen
  <2>2. l.parent[c] \in M
    BY <1>1, <2>1 DEF Linked
  <2>3. l.parent[c] # c
    BY <1>1, NotOwnParent
  <2> QED BY <1>1, <2>1, <2>2, <2>3
<1> QED BY <1>2, <1>3 DEF t

Ranged(after, n) == after = [i \in 0..n |-> after[i]]

\* Values that repeated steps lead through, if each goes from V to V.
LEMMA Kept ==
  ASSUME NEW n \in Nat, NEW V, NEW b \in V, NEW step \in [1..n -> [V -> V]], NEW after,
         Ranged(after, n), after[0] = b,
         \A i \in 1..n : after[i - 1] \in V => after[i] = step[i][after[i - 1]]
  PROVE  /\ after \in [0..n -> V] /\ after[0] = b
         /\ \A i \in 1..n : after[i] = step[i][after[i - 1]]
<1> DEFINE P == {i \in 0..n : after[i] \in V}
<1>1. 0 \in P
  OBVIOUS
<1>2. ASSUME NEW i \in 1..n, i - 1 \in P PROVE i \in P
  <2>1. after[i] = step[i][after[i - 1]] /\ after[i - 1] \in V /\ i \in 0..n
    BY <1>2
  <2>2. step[i][after[i - 1]] \in V
    BY <2>1
  <2> QED BY <2>1, <2>2
<1> HIDE DEF P
<1>3. \A i \in 0..n : i \in P
  BY <1>1, <1>2, Along
<1>4. \A i \in 0..n : after[i] \in V
  BY <1>3 DEF P
<1>5. \A i \in 1..n : i - 1 \in 0..n
  OBVIOUS
<1> QED BY <1>4, <1>5 DEF Ranged

\* The stages r of a walk.
Walk(r, n, V, b) == r \in [0..n -> V] /\ r[0] = b

\* Clients of an order are raised one after another.
LEMMA RaisedStages ==
  ASSUME NEW M, NEW s \in Orders(M), NEW q \in Seq(M)
  PROVE  \E r : /\ Walk(r, Len(q), Orders(M), s)
                /\ \A i \in 1..Len(q) : r[i] = Raised(r[i - 1], q[i])
                /\ Through(Raised, s, q) = r[Len(q)]
<1> DEFINE n == Len(q)
           V == Orders(M)
           More(t, i) == Raised(t, q[i])
           step == [i \in 1..n |-> [t \in V |-> More(t, i)]]
           Run(r) == r = [i \in 0..n |-> IF i = 0 THEN s ELSE More(r[i - 1], i)]
           after == CHOOSE r : Run(r)
<1>1. n \in Nat /\ s \in V
  OBVIOUS
<1>2. \A t \in V, i \in 1..n : More(t, i) \in V
  BY RaisedIs
<1>3. Through(Raised, s, q) = after[n]
  BY DEF Through
<1> HIDE DEF n, V, More
<1>4. /\ step \in [1..n -> [V -> V]]
      /\ \A i \in 1..n : \A t \in V : step[i][t] = More(t, i)
  BY <1>2
<1> HIDE DEF step
<1>5. PICK r \in [0..n -> V] : Repeats(r, n, s, step)
  BY <1>1, <1>4, Repeated
<1>6. \A i \in 1..n : i - 1 \in 0..n /\ i \in 0..n /\ i # 0
  BY <1>1
<1>7. \A i \in 0..n : i = 0 \/ i \in 1..n
  BY <1>1
<1>8. Run(r)
  <2>1. \A i \in 1..n : step[i][r[i - 1]] = More(r[i - 1], i)
    BY <1>4, <1>6
  <2>2. r = [i \in 0..n |-> IF i = 0 THEN s ELSE step[i][r[i - 1]]]
    BY <1>5 DEF Repeats
  <2> QED BY <1>7, <2>1, <2>2
<1>9. Run(after)
  <2> HIDE DEF Run
  <2> QED BY <1>8
<1> HIDE DEF after
<1>10. /\ after = [i \in 0..n |-> after[i]] /\ after[0] = s
       /\ \A i \in 1..n : after[i] = More(after[i - 1], i)
  <2>1. \A i \in 0..n : after[i] = IF i = 0 THEN s ELSE More(after[i - 1], i)
    BY <1>9
  <2>2. 0 \in 0..n
    BY <1>1
  <2> QED BY <1>6, <1>9, <2>1, <2>2
<1>11. after \in [0..n -> V]
  <2>1. \A i \in 1..n : after[i - 1] \in V => after[i] = step[i][after[i - 1]]
    BY <1>4, <1>10
  <2>2. Ranged(after, n)
    BY <1>10 DEF Ranged
  <2>3. after[0] = s
    BY <1>10
  <2> HIDE DEF Run
  <2> QED BY <1>1, <1>4, <2>1, <2>2, <2>3, Kept
<1> QED BY <1>3, <1>10, <1>11 DEF n, V, More, Walk

-----------------------------------------------------------------------------
(* The stack methods leave no transient of what they move fallen.            *)

\* A client of M is in the list of its parent.
LEMMA KidHasPlace ==
  ASSUME NEW M, NEW l, Linked(l, M), NEW c \in Clients, NEW e \in Clients, l.parent[e] = c
  PROVE  \E k \in 1..Len(l.kids[c]) : l.kids[c][k] = e
<1>1. l.kids[c] \in Orders(KidsOf(l, c)) /\ e \in KidsOf(l, c)
  BY DEF Linked, KidsOf
<1> QED BY <1>1, PlaceOf

\* Clients raised in an order in which transients follow their parents.
LEMMA RaisedInTurn ==
  ASSUME NEW M, NEW l, Linked(l, M), NEW s \in Orders(M), NEW q \in Seq(M), Followed(q, l.kids)
  PROVE  LET t == Through(Raised, s, q)
         IN  /\ t \in Orders(M)
             /\ \A e \in Fallen(t, l) : e \in Fallen(s, l) /\ \A j \in 1..Len(q) : q[j] # e
<1> DEFINE n == Len(q)
<1>1. PICK r : /\ Walk(r, n, Orders(M), s)
               /\ \A i \in 1..n : r[i] = Raised(r[i - 1], q[i])
               /\ Through(Raised, s, q) = r[n]
  BY RaisedStages
<1>2. /\ n \in Nat /\ r \in [0..n -> Orders(M)] /\ r[0] = s
      /\ \A j \in 1..n : q[j] \in M
      /\ M \subseteq Clients
  BY <1>1, PlaceOf DEF Walk
<1> HIDE DEF n
<1> DEFINE Old(e, i) == e \in Fallen(s, l) /\ \A j \in 1..i : q[j] # e
           Fine(i) == \A e \in Fallen(r[i], l) : Old(e, i) \/ Later(q, i, e)
           P == {i \in 0..n : Fine(i)}
<1>3. Fine(0)
  BY <1>2
<1>4. ASSUME NEW i \in 1..n, Fine(i - 1) PROVE Fine(i)
  <2> SUFFICES ASSUME NEW e \in Fallen(r[i], l) PROVE Old(e, i) \/ Later(q, i, e)
    OBVIOUS
  <2> DEFINE c == q[i]
  <2>1. i - 1 \in 0..n /\ i \in Nat
    BY <1>2
  <2>2. r[i - 1] \in Orders(M) /\ c \in M /\ c \in Clients /\ r[i] = Raised(r[i - 1], c)
    BY <1>1, <1>2, <2>1
  <2>3. e # c /\ (e \in Fallen(r[i - 1], l) \/ l.parent[e] = c) /\ e \in Clients
    <3> HIDE DEF c
    <3>1. e \in Clients
      BY DEF Fallen
    <3>2. \A x \in Fallen(Raised(r[i - 1], c), l) : x # c /\ (x \in Fallen(r[i - 1], l) \/ l.parent[x] = c)
      BY <2>2, RaisedFallen
    <3> QED BY <2>2, <3>1, <3>2
  <2>4. CASE l.parent[e] = c
    <3>1. PICK k \in 1..Len(l.kids[c]) : l.kids[c][k] = e
      BY <2>2, <2>3, <2>4, KidHasPlace
    <3>2. Later(q, i, e)
      BY <3>1 DEF Followed, n
    <3> QED BY <3>2
  <2>5. CASE e \in Fallen(r[i - 1], l)
    <3>1. Old(e, i - 1) \/ Later(q, i - 1, e)
      BY <1>4, <2>5
    <3>2. CASE Old(e, i - 1)
      <4>1. \A j \in 1..i : j = i \/ j \in 1..(i - 1)
        BY <2>1
      <4> QED BY <2>3, <3>2, <4>1
    <3>3. CASE Later(q, i - 1, e)
      <4>1. PICK j \in 1..n : i - 1 < j /\ q[j] = e
        BY <3>3 DEF Later, n
      <4>2. i < j
        BY <1>2, <2>1, <2>3, <4>1
      <4> QED BY <4>1, <4>2 DEF Later, n
    <3> QED BY <3>1, <3>2, <3>3
  <2> QED BY <2>3, <2>4, <2>5
<1> HIDE DEF Fine
<1>5. \A i \in 0..n : i \in P
  <2>1. 0 \in P
    BY <1>2, <1>3
  <2>2. \A i \in 1..n : i - 1 \in P => i \in P
    BY <1>2, <1>4
  <2> HIDE DEF P
  <2> QED BY <1>2, <2>1, <2>2, Along
<1>6. n \in 0..n
  BY <1>2
<1>7. r[n] \in Orders(M)
  BY <1>2, <1>6
<1>8. \A e \in Fallen(r[n], l) : Old(e, n)
  <2>1. Fine(n)
    BY <1>5, <1>6
  <2>2. \A e : ~Later(q, n, e)
    BY <1>2 DEF Later, n
  <2> QED BY <2>1, <2>2 DEF Fine
<1> QED BY <1>1, <1>7, <1>8 DEF n

\* t is an order of M in which only transients are fallen that were so in s,
\* and neither c nor its transients.
Mended(t, s, l, c, M) ==
  /\ t \in Orders(M)
  /\ \A e \in Fallen(t, l) : e \in Fallen(s, l) /\ e # c /\ l.parent[e] # c

\* What moves alone leaves no other fallen.
LEMMA AloneMends ==
  ASSUME NEW M, NEW l, Linked(l, M), NEW s, NEW t \in Orders(M), NEW c \in Clients,
         Moves(s, t, c), MovesAlone(c)
  PROVE  Mended(t, s, l, c, M)
<1>1. \A e \in Fallen(t, l) : e \in Fallen(s, l)
  BY MovedFallen
<1>2. \A e \in Fallen(t, l) : e # c /\ l.parent[e] # c
  BY DEF Fallen
<1> QED BY <1>1, <1>2 DEF Mended

\* mb_wm_client_stack for a client that is no override window.
LEMMA StackedAloneIs ==
  ASSUME NEW M, IsFiniteSet(M), NEW l, Linked(l, M), NEW s \in Orders(M), NEW c \in M
  PROVE  Mended(StackedAlone(s, l, c), s, l, c, M)
<1>1. M \in SUBSET Clients /\ c \in Clients
  BY PlaceOf
<1>2. CASE c \in LiveBackgrounds
  <2>1. Lowered(s, c) \in Orders(M) /\ Moves(s, Lowered(s, c), c)
    BY LoweredIs
  <2>2. Mended(Lowered(s, c), s, l, c, M)
    BY <1>1, <1>2, <2>1, AloneMends DEF MovesAlone
  <2> QED BY <1>2, <2>2 DEF StackedAlone
<1>3. CASE c \notin LiveBackgrounds /\ Follows(c)
  <2> DEFINE h == HighestOf(s, FollowedTypes)
             t == MovedAboveType(s, c, FollowedTypes)
  <2>1. h \in M \cup {NULL}
    BY SearchIs
  <2>2. t = IF h = NULL THEN s ELSE MovedAbove(s, c, h)
    BY DEF MovedAboveType
  <2> HIDE DEF h, t
  <2>3. t \in Orders(M) /\ Moves(s, t, c)
    <3>1. CASE h = NULL
      BY <2>2, <3>1 DEF Moves
    <3>2. CASE h # NULL
      BY <2>1, <2>2, <3>2, MovedAboveIs
    <3> QED BY <3>1, <3>2
  <2>4. Mended(t, s, l, c, M)
    BY <1>1, <1>3, <2>3, AloneMends DEF MovesAlone
  <2> QED BY <1>3, <2>4 DEF StackedAlone, t
<1>4. CASE c \notin LiveBackgrounds /\ ClientType[c] = "Panel" /\ ~Follows(c)
  <2>1. Raised(s, c) \in Orders(M) /\ Moves(s, Raised(s, c), c)
    BY RaisedIs
  <2>2. Mended(Raised(s, c), s, l, c, M)
    BY <1>1, <1>4, <2>1, AloneMends DEF MovesAlone
  <2> QED BY <1>4, <2>2 DEF StackedAlone
<1>5. CASE c \notin LiveBackgrounds /\ ~Follows(c) /\ ClientType[c] # "Panel"
  <2> DEFINE a == Root(l, c)
             q == Family(l, a)
             t == Through(Raised, s, q)
  <2>1. a \in M /\ \E i \in 1..Len(q) : q[i] = c
    BY <1>1, RootIs
  <2>2. StackedAlone(s, l, c) = t
    BY <1>5 DEF StackedAlone, RaisedFamily
  <2> HIDE DEF a
  <2>3. Listed(q, a, M, l.kids)
    BY <1>1, <2>1, FamilyIs
  <2> HIDE DEF q
  <2>4. q \in Seq(M) /\ Followed(q, l.kids)
    BY <2>3 DEF Listed
  <2>5. /\ t \in Orders(M)
        /\ \A e \in Fallen(t, l) : e \in Fallen(s, l) /\ \A j \in 1..Len(q) : q[j] # e
    BY <2>4, RaisedInTurn
  <2> HIDE DEF t
  <2>6. ASSUME NEW e \in Fallen(t, l) PROVE e # c /\ l.parent[e] # c
    <3>1. PICK i \in 1..Len(q) : q[i] = c
      BY <2>1
    <3>2. e # c
      BY <2>5, <3>1
    <3>3. ASSUME l.parent[e] = c PROVE FALSE
      <4>1. e \in Clients
        BY DEF Fallen
      <4>2. PICK k \in 1..Len(l.kids[c]) : l.kids[c][k] = e
        BY <1>1, <3>3, <4>1, KidHasPlace
      <4>3. Later(q, i, e)
        BY <2>4, <3>1, <4>2 DEF Followed
      <4> QED BY <2>5, <4>3 DEF Later
    <3> QED BY <3>2, <3>3
  <2> QED BY <2>2, <2>5, <2>6 DEF Mended
<1> QED BY <1>2, <1>3, <1>4, <1>5

\* What the stack method does for a client of the calls.
Called(r, l, d) == IF IsOverride(d) THEN Raised(r, d) ELSE StackedAlone(r, l, d)

\* The calls of a stack method, one after another.
LEMMA ClientStackStages ==
  ASSUME NEW M, IsFiniteSet(M), NEW l, Linked(l, M), NEW s \in Orders(M), NEW c,
         OverrideCalls(l, c) \in Seq(M)
  PROVE  LET q == OverrideCalls(l, c)
         IN  \E r : /\ Walk(r, Len(q), Orders(M), s)
                    /\ \A i \in 1..Len(q) : r[i] = Called(r[i - 1], l, q[i])
                    /\ ClientStack(s, l, c) = r[Len(q)]
<1> DEFINE q == OverrideCalls(l, c)
           n == Len(q)
           V == Orders(M)
           More(t, i) == Called(t, l, q[i])
           step == [i \in 1..n |-> [t \in V |-> More(t, i)]]
           Run(r) == r = [i \in 0..n |-> IF i = 0 THEN s ELSE More(r[i - 1], i)]
           after == CHOOSE r : Run(r)
<1>1. n \in Nat /\ s \in V /\ q \in Seq(M)
  OBVIOUS
<1>2. \A t \in V, i \in 1..n : More(t, i) \in V
  <2> SUFFICES ASSUME NEW t \in V, NEW i \in 1..n PROVE More(t, i) \in V
    OBVIOUS
  <2>1. q[i] \in M
    BY <1>1
  <2>2. Raised(t, q[i]) \in V
    BY <2>1, RaisedIs
  <2>3. StackedAlone(t, l, q[i]) \in V
    <3>1. Mended(StackedAlone(t, l, q[i]), t, l, q[i], M)
      BY <2>1, StackedAloneIs
    <3> QED BY <3>1 DEF Mended
  <2> QED BY <2>2, <2>3 DEF Called
<1>3. ClientStack(s, l, c) = after[n]
  BY DEF ClientStack, Through, Called, IsOverride
<1> HIDE DEF n, V, More
<1>4. /\ step \in [1..n -> [V -> V]]
      /\ \A i \in 1..n : \A t \in V : step[i][t] = More(t, i)
  BY <1>2
<1> HIDE DEF step
<1>5. PICK r \in [0..n -> V] : Repeats(r, n, s, step)
  BY <1>1, <1>4, Repeated
<1>6. \A i \in 1..n : i - 1 \in 0..n /\ i \in 0..n /\ i # 0
  BY <1>1
<1>7. \A i \in 0..n : i = 0 \/ i \in 1..n
  BY <1>1
<1>8. Run(r)
  <2>1. \A i \in 1..n : step[i][r[i - 1]] = More(r[i - 1], i)
    BY <1>4, <1>6
  <2>2. r = [i \in 0..n |-> IF i = 0 THEN s ELSE step[i][r[i - 1]]]
    BY <1>5 DEF Repeats
  <2> QED BY <1>7, <2>1, <2>2
<1>9. Run(after)
  <2> HIDE DEF Run
  <2> QED BY <1>8
<1> HIDE DEF after, q
<1>10. /\ after = [i \in 0..n |-> after[i]] /\ after[0] = s
       /\ \A i \in 1..n : after[i] = More(after[i - 1], i)
  <2>1. \A i \in 0..n : after[i] = IF i = 0 THEN s ELSE More(after[i - 1], i)
    BY <1>9
  <2>2. 0 \in 0..n
    BY <1>1
  <2> QED BY <1>6, <1>9, <2>1, <2>2
<1>11. after \in [0..n -> V]
  <2>1. \A i \in 1..n : after[i - 1] \in V => after[i] = step[i][after[i - 1]]
    BY <1>4, <1>10
  <2>2. Ranged(after, n)
    BY <1>10 DEF Ranged
  <2>3. after[0] = s
    BY <1>10
  <2> HIDE DEF Run
  <2> QED BY <1>1, <1>4, <2>1, <2>2, <2>3, Kept
<1> QED BY <1>3, <1>10, <1>11 DEF n, V, More, Walk, q

\* mb_wm_client_stack
LEMMA ClientStackIs ==
  ASSUME NEW M, IsFiniteSet(M), NEW l, Linked(l, M), NEW s \in Orders(M), NEW c \in M
  PROVE  Mended(ClientStack(s, l, c), s, l, c, M)
<1> DEFINE q == OverrideCalls(l, c)
           n == Len(q)
           ks == OverrideKids(l)
<1>1. M \in SUBSET Clients
  BY PlaceOf
<1>2. Listed(q, c, M, ks)
  BY <1>1, OverrideCallsAre
<1>3. q \in Seq(M)
  BY <1>2 DEF Listed
<1>4. PICK r : /\ Walk(r, n, Orders(M), s)
               /\ \A i \in 1..n : r[i] = Called(r[i - 1], l, q[i])
               /\ ClientStack(s, l, c) = r[n]
  BY <1>3, ClientStackStages
<1> HIDE DEF q, n, ks
<1>5. /\ n \in Nat /\ n >= 1 /\ q[1] = c /\ r \in [0..n -> Orders(M)] /\ r[0] = s
      /\ \A j \in 1..n : q[j] \in M
      /\ Followed(q, ks)
  BY <1>2, <1>4 DEF Listed, Walk, n
<1> DEFINE Old(e, i) == e \in Fallen(s, l) /\ \A j \in 1..i : q[j] # e /\ l.parent[e] # q[j]
           Fine(i) == \A e \in Fallen(r[i], l) : Old(e, i) \/ Later(q, i, e)
           P == {i \in 0..n : Fine(i)}
<1>6. Fine(0)
  BY <1>5
<1>7. ASSUME NEW i \in 1..n, Fine(i - 1) PROVE Fine(i)
  <2> SUFFICES ASSUME NEW e \in Fallen(r[i], l) PROVE Old(e, i) \/ Later(q, i, e)
    OBVIOUS
  <2> DEFINE d == q[i]
             t == r[i - 1]
  <2>1. i - 1 \in 0..n /\ i \in Nat
    BY <1>5
  <2>2. /\ t \in Orders(M) /\ d \in M /\ d \in Clients /\ e \in Clients
        /\ r[i] = Called(t, l, d)
    <3>1. e \in Clients
      BY DEF Fallen
    <3> QED BY <1>1, <1>4, <1>5, <2>1, <3>1
  <2> HIDE DEF d, t
  <2>3. e # d /\ (e \in Fallen(t, l) \/ (IsOverride(d) /\ l.parent[e] = d))
    <3>1. CASE IsOverride(d)
      <4>1. \A x \in Fallen(Raised(t, d), l) : x # d /\ (x \in Fallen(t, l) \/ l.parent[x] = d)
        BY <2>2, RaisedFallen
      <4>2. r[i] = Raised(t, d)
        BY <2>2, <3>1 DEF Called
      <4> QED BY <3>1, <4>1, <4>2
    <3>2. CASE ~IsOverride(d)
      <4>1. Mended(r[i], t, l, d, M)
        BY <2>2, <3>2, StackedAloneIs DEF Called
      <4> QED BY <4>1 DEF Mended
    <3> QED BY <3>1, <3>2
  <2>4. ~IsOverride(d) => l.parent[e] # d
    <3> SUFFICES ASSUME ~IsOverride(d) PROVE l.parent[e] # d
      OBVIOUS
    <3>1. Mended(r[i], t, l, d, M)
      BY <2>2, StackedAloneIs DEF Called
    <3> QED BY <3>1 DEF Mended
  <2>5. CASE l.parent[e] = d
    <3>1. PICK k \in 1..Len(l.kids[d]) : l.kids[d][k] = e
      BY <2>2, <2>5, KidHasPlace
    <3>2. ks[d] = l.kids[d]
      BY <2>2, <2>4, <2>5 DEF ks, OverrideKids
    <3>3. i \in 1..Len(q) /\ q[i] = d
      BY DEF n, d
    <3>4. Later(q, i, e)
      BY <1>5, <3>1, <3>2, <3>3 DEF Followed
    <3> QED BY <3>4
  <2>6. CASE l.parent[e] # d /\ e \in Fallen(t, l)
    <3>1. Old(e, i - 1) \/ Later(q, i - 1, e)
      BY <1>7, <2>6 DEF t
    <3>2. CASE Old(e, i - 1)
      <4>1. \A j \in 1..i : j = i \/ j \in 1..(i - 1)
        BY <2>1
      <4>2. q[i] = d
        BY DEF d
      <4> QED BY <2>3, <2>6, <3>2, <4>1, <4>2
    <3>3. CASE Later(q, i - 1, e)
      <4>1. PICK j \in 1..n : i - 1 < j /\ q[j] = e
        BY <3>3 DEF Later, n
      <4>2. i < j
        BY <1>5, <2>1, <2>3, <4>1 DEF d
      <4> QED BY <4>1, <4>2 DEF Later, n
    <3> QED BY <3>1, <3>2, <3>3
  <2> QED BY <2>3, <2>5, <2>6
<1> HIDE DEF Fine
<1>8. \A i \in 0..n : i \in P
  <2>1. 0 \in P
    BY <1>5, <1>6
  <2>2. \A i \in 1..n : i - 1 \in P => i \in P
    BY <1>5, <1>7
  <2> HIDE DEF P
  <2> QED BY <1>5, <2>1, <2>2, Along
<1>9. n \in 0..n /\ 1 \in 1..n
  BY <1>5
<1>10. r[n] \in Orders(M)
  BY <1>5, <1>9
<1>11. \A e \in Fallen(r[n], l) : e \in Fallen(s, l) /\ e # c /\ l.parent[e] # c
  <2>1. Fine(n)
    BY <1>8, <1>9
  <2>2. \A e : ~Later(q, n, e)
    BY <1>5 DEF Later, n
  <2> QED BY <1>5, <1>9, <2>1, <2>2 DEF Fine
<1> QED BY <1>4, <1>10, <1>11 DEF Mended, n

-----------------------------------------------------------------------------
(* mb_wm_stack_ensure                                                        *)

\* The orders of M that leave no transient fallen.
Upright(M) == {s \in Orders(M) : Fallen(s, links) = {}}

\* The loop's next client is one of the stack.
LEMMA NextValidIs ==
  ASSUME NEW M, NEW s \in Orders(M), NEW c
  PROVE  NextValid(s, c) \in M \cup {NULL}
<1> DEFINE A == {i \in 1..Len(s) : i > Position(s, c) /\ links.parent[s[i]] = NULL}
           m == CHOOSE i \in A : \A j \in A : i <= j
<1>1. CASE A = {}
  BY <1>1 DEF NextValid
<1>2. CASE A # {}
  <2>1. NextValid(s, c) = s[m]
    BY <1>2 DEF NextValid
  <2>2. A \in SUBSET Nat /\ A \subseteq 1..Len(s)
    BY PlaceOf
  <2> HIDE DEF A
  <2>3. \E i \in A : \A j \in A : i <= j
    BY <1>2, <2>2, LeastNumber
  <2>4. m \in 1..Len(s)
    BY <2>2, <2>3
  <2>5. s[m] \in M
    BY <2>4, PlaceOf
  <2> QED BY <2>1, <2>5
<1> QED BY <1>1, <1>2

\* A stack method leaves an upright order upright.
LEMMA ClientStackUpright ==
  ASSUME NEW M, IsFiniteSet(M), Linked(links, M), NEW s \in Upright(M), NEW c \in M
  PROVE  ClientStack(s, links, c) \in Upright(M)
<1>1. s \in Orders(M) /\ Fallen(s, links) = {}
  BY DEF Upright
<1>2. Mended(ClientStack(s, links, c), s, links, c, M)
  BY <1>1, ClientStackIs
<1> QED BY <1>1, <1>2 DEF Mended, Upright

\* The states of the inner loop.
Rounds(M) == [order : Upright(M), client : M \cup {NULL}, seen : M \cup {NULL}]

\* A round of it.
LEMMA RoundIs ==
  ASSUME NEW M, IsFiniteSet(M), Linked(links, M), NEW w \in Rounds(M), NEW k
  PROVE  Round(w, k) \in Rounds(M)
<1>1. w.order \in Upright(M) /\ w.client \in M \cup {NULL} /\ w.seen \in M \cup {NULL}
  BY DEF Rounds
<1>2. CASE w.client \in {w.seen, NULL}
  BY <1>2 DEF Round
<1>3. CASE w.client \notin {w.seen, NULL}
  <2> DEFINE c == w.client
             hit == StackingLayer(c) = k /\ links.parent[c] = NULL
             t == IF hit THEN ClientStack(w.order, links, c) ELSE w.order
             d == NextValid(w.order, c)
             e == IF hit /\ w.seen = NULL THEN c ELSE w.seen
  <2>1. Round(w, k) = [order |-> t, client |-> d, seen |-> e]
    BY <1>3 DEF Round
  <2>2. c \in M
    BY <1>1, <1>3
  <2> HIDE DEF c, hit
  <2>3. t \in Upright(M)
    BY <1>1, <2>2, ClientStackUpright
  <2>4. d \in M \cup {NULL}
    BY <1>1, NextValidIs DEF Upright
  <2>5. e \in M \cup {NULL}
    BY <1>1, <2>2
  <2> HIDE DEF t, d, e
  <2> QED BY <2>1, <2>3, <2>4, <2>5 DEF Rounds
<1> QED BY <1>2, <1>3

\* The inner loop.
LEMMA LayerLoopIs ==
  ASSUME NEW M, IsFiniteSet(M), Linked(links, M), NEW s \in Upright(M), Len(s) >= 1, NEW k
  PROVE  LayerLoop(s, k).order \in Upright(M)
<1> DEFINE n == Len(s) + 1
           is == [i \in 1..n |-> i]
           b == [order |-> s, client |-> s[1], seen |-> NULL]
           V == Rounds(M)
           More(w) == Round(w, k)
           step == [i \in 1..n |-> [w \in V |-> More(w)]]
           Run(r) == r = [i \in 0..n |-> IF i = 0 THEN b ELSE More(r[i - 1])]
           after == CHOOSE r : Run(r)
<1>1. n \in Nat /\ Len(is) = n /\ b \in V
  <2>1. s \in Orders(M)
    BY DEF Upright
  <2>2. Len(s) \in Nat /\ s[1] \in M
    BY <2>1, PlaceOf
  <2> QED BY <2>2 DEF Rounds
<1>2. \A w \in V : More(w) \in V
  BY RoundIs
<1>3. LayerLoop(s, k) = after[n]
  BY <1>1 DEF LayerLoop, Through
<1> HIDE DEF n, V, More, b
<1>4. /\ step \in [1..n -> [V -> V]]
      /\ \A i \in 1..n : \A w \in V : step[i][w] = More(w)
  BY <1>2
<1> HIDE DEF step
<1>5. PICK r \in [0..n -> V] : Repeats(r, n, b, step)
  BY <1>1, <1>4, Repeated
<1>6. \A i \in 1..n : i - 1 \in 0..n /\ i \in 0..n /\ i # 0
  BY <1>1
<1>7. \A i \in 0..n : i = 0 \/ i \in 1..n
  BY <1>1
<1>8. Run(r)
  <2>1. \A i \in 1..n : step[i][r[i - 1]] = More(r[i - 1])
    BY <1>4, <1>6
  <2>2. r = [i \in 0..n |-> IF i = 0 THEN b ELSE step[i][r[i - 1]]]
    BY <1>5 DEF Repeats
  <2> QED BY <1>7, <2>1, <2>2
<1>9. Run(after)
  <2> HIDE DEF Run
  <2> QED BY <1>8
<1> HIDE DEF after
<1>10. /\ after = [i \in 0..n |-> after[i]] /\ after[0] = b
       /\ \A i \in 1..n : after[i] = More(after[i - 1])
  <2>1. \A i \in 0..n : after[i] = IF i = 0 THEN b ELSE More(after[i - 1])
    BY <1>9
  <2>2. 0 \in 0..n
    BY <1>1
  <2> QED BY <1>6, <1>9, <2>1, <2>2
<1>11. after \in [0..n -> V]
  <2>1. \A i \in 1..n : after[i - 1] \in V => after[i] = step[i][after[i - 1]]
    BY <1>4, <1>10
  <2>2. Ranged(after, n)
    BY <1>10 DEF Ranged
  <2>3. after[0] = b
    BY <1>10
  <2> HIDE DEF Run
  <2> QED BY <1>1, <1>4, <2>1, <2>2, <2>3, Kept
<1>12. after[n] \in V
  <2>1. n \in 0..n
    BY <1>1
  <2> QED BY <1>11, <2>1
<1> QED BY <1>3, <1>12 DEF V, Rounds

\* The pass for a layer.
LEMMA LayerPushedIs ==
  ASSUME NEW M, IsFiniteSet(M), Linked(links, M), NEW s \in Upright(M), NEW k
  PROVE  LayerPushed(s, k) \in Upright(M)
<1>1. CASE \A i \in 1..Len(s) : StackingLayer(s[i]) # k
  BY <1>1 DEF LayerPushed
<1>2. CASE ~(\A i \in 1..Len(s) : StackingLayer(s[i]) # k)
  <2>1. s \in Orders(M)
    BY DEF Upright
  <2>2. Len(s) \in Nat /\ 1..Len(s) # {}
    BY <1>2, <2>1, PlaceOf
  <2>3. Len(s) >= 1
    BY <2>2
  <2>4. LayerPushed(s, k) = LayerLoop(s, k).order
    BY <1>2 DEF LayerPushed
  <2> QED BY <2>3, <2>4, LayerLoopIs
<1> QED BY <1>1, <1>2

\* mb_wm_stack_ensure
LEMMA EnsuredIs ==
  ASSUME NEW M, IsFiniteSet(M), Linked(links, M), NEW s \in Upright(M)
  PROVE  Ensured(s) \in Upright(M)
<1> DEFINE n == LayerCount - 1
           is == [i \in 1..n |-> i]
           V == Upright(M)
           More(t, i) == LayerPushed(t, i)
           step == [i \in 1..n |-> [t \in V |-> More(t, i)]]
           Run(r) == r = [i \in 0..n |-> IF i = 0 THEN s ELSE More(r[i - 1], i)]
           after == CHOOSE r : Run(r)
<1>1. n \in Nat /\ Len(is) = n /\ s \in V
  BY DEF LayerCount
<1>2. \A t \in V, i \in 1..n : More(t, i) \in V
  BY LayerPushedIs
<1>3. Through(LayerPushed, s, is) = after[n]
  <2>1. \A i \in 1..n : is[i] = i
    OBVIOUS
  <2>2. \A r : Run(r) <=> r = [i \in 0..n |-> IF i = 0 THEN s ELSE LayerPushed(r[i - 1], is[i])]
    <3> SUFFICES ASSUME NEW r
                 PROVE  Run(r) <=> r = [i \in 0..n |-> IF i = 0 THEN s ELSE LayerPushed(r[i - 1], is[i])]
      OBVIOUS
    <3> HIDE DEF n, is
    <3>1. \A i \in 0..n : (IF i = 0 THEN s ELSE More(r[i - 1], i))
                          = (IF i = 0 THEN s ELSE LayerPushed(r[i - 1], is[i]))
      <4>1. \A i \in 0..n : i = 0 \/ i \in 1..n
        BY <1>1
      <4> QED BY <2>1, <4>1
    <3>2. [i \in 0..n |-> IF i = 0 THEN s ELSE More(r[i - 1], i)]
          = [i \in 0..n |-> IF i = 0 THEN s ELSE LayerPushed(r[i - 1], is[i])]
      BY <3>1
    <3> QED BY <3>2
  <2> HIDE DEF Run, n, is
  <2>3. after = CHOOSE r : r = [i \in 0..n |-> IF i = 0 THEN s ELSE LayerPushed(r[i - 1], is[i])]
    BY <2>2
  <2> QED BY <1>1, <2>3 DEF Through
<1>4. /\ step \in [1..n -> [V -> V]]
      /\ \A i \in 1..n : \A t \in V : step[i][t] = More(t, i)
  <2> HIDE DEF n, V, More
  <2> QED BY <1>2
<1>14. Ensured(s) = s \/ Ensured(s) = after[n]
  BY <1>3 DEF Ensured
<1> HIDE DEF n, V, More, step
<1>5. PICK r \in [0..n -> V] : Repeats(r, n, s, step)
  BY <1>1, <1>4, Repeated
<1>6. \A i \in 1..n : i - 1 \in 0..n /\ i \in 0..n /\ i # 0
  BY <1>1
<1>7. \A i \in 0..n : i = 0 \/ i \in 1..n
  BY <1>1
<1>8. Run(r)
  <2>1. \A i \in 1..n : step[i][r[i - 1]] = More(r[i - 1], i)
    BY <1>4, <1>6
  <2>2. r = [i \in 0..n |-> IF i = 0 THEN s ELSE step[i][r[i - 1]]]
    BY <1>5 DEF Repeats
  <2> QED BY <1>7, <2>1, <2>2
<1>9. Run(after)
  <2> HIDE DEF Run
  <2> QED BY <1>8
<1> HIDE DEF after
<1>10. /\ after = [i \in 0..n |-> after[i]] /\ after[0] = s
       /\ \A i \in 1..n : after[i] = More(after[i - 1], i)
  <2>1. \A i \in 0..n : after[i] = IF i = 0 THEN s ELSE More(after[i - 1], i)
    BY <1>9
  <2>2. 0 \in 0..n
    BY <1>1
  <2> QED BY <1>6, <1>9, <2>1, <2>2
<1>11. after \in [0..n -> V]
  <2>1. \A i \in 1..n : after[i - 1] \in V => after[i] = step[i][after[i - 1]]
    BY <1>4, <1>10
  <2>2. Ranged(after, n)
    BY <1>10 DEF Ranged
  <2>3. after[0] = s
    BY <1>10
  <2> HIDE DEF Run
  <2> QED BY <1>1, <1>4, <2>1, <2>2, <2>3, Kept
<1>12. after[n] \in V
  <2>1. n \in 0..n
    BY <1>1
  <2> QED BY <1>11, <2>1
<1> QED BY <1>1, <1>12, <1>14 DEF V

-----------------------------------------------------------------------------
(* Managing and unmanaging a client.                                         *)

LinkSet == [parent : [Clients -> Clients \cup {NULL}], kids : [Clients -> Seq(Clients)]]

\* The links of N after c has come with the parent p, while it takes over the clients
\* whose windows name it.
Adopting(N, c, p) ==
  {l \in LinkSet : /\ Linked(l, N)
                   /\ \A e \in Clients :
                        e # c => l.parent[e] = links.parent[e] \/ (l.parent[e] = c /\ xfor[e] = c)
                   /\ l.parent[c] = p
                   /\ ClientType[c] = "App" => p = NULL}

\* mb_wm_client_set_transient_for_in_list
LEMMA AdoptedIs ==
  ASSUME NEW N \in SUBSET Clients, NEW c \in N, NEW p, NEW l \in Adopting(N, c, p), NEW k \in N,
         k # c
  PROVE  (IF Adopts(c, k) THEN AddTransient(l, c, k) ELSE l) \in Adopting(N, c, p)
<1>1. CASE ~Adopts(c, k)
  BY <1>1
<1>2. CASE Adopts(c, k)
  <2> DEFINE a == AddTransient(l, c, k)
  <2>1. /\ l \in LinkSet /\ Linked(l, N) /\ l.parent[c] = p /\ p = NULL
        /\ ClientType[c] = "App" /\ xfor[k] = c
        /\ \A e \in Clients :
             e # c => l.parent[e] = links.parent[e] \/ (l.parent[e] = c /\ xfor[e] = c)
    BY <1>2 DEF Adopting, Adopts
  <2>2. Linked(a, N) /\ a.parent = [l.parent EXCEPT ![k] = c]
    BY <2>1, AddedIs
  <2>3. a = [parent |-> a.parent, kids |-> a.kids]
    <3>1. c # NULL
      BY NullIsNoClient
    <3> QED BY <3>1 DEF AddTransient
  <2> HIDE DEF a
  <2>4. a \in LinkSet
    <3>1. a.parent \in [Clients -> Clients \cup {NULL}] /\ a.kids \in [Clients -> Seq(Clients)]
      BY <2>2 DEF Linked
    <3> QED BY <2>3, <3>1 DEF LinkSet
  <2>5. l.parent \in [Clients -> Clients \cup {NULL}]
    BY <2>1 DEF Linked
  <2>6. \A e \in Clients :
          e # c => a.parent[e] = links.parent[e] \/ (a.parent[e] = c /\ xfor[e] = c)
    BY <2>1, <2>2, <2>5
  <2>7. a.parent[c] = p
    BY <2>1, <2>2, <2>5
  <2>8. a \in Adopting(N, c, p)
    BY <2>1, <2>2, <2>4, <2>6, <2>7 DEF Adopting
  <2> QED BY <1>2, <2>8 DEF a
<1> QED BY <1>1, <1>2

\* Clients are taken over one after another.
LEMMA AdoptedInTurn ==
  ASSUME NEW N \in SUBSET Clients, NEW c \in N, NEW p, NEW b \in Adopting(N, c, p),
         NEW q \in Seq(N \ {c})
  PROVE  Through(LAMBDA l, k : IF Adopts(c, k) THEN AddTransient(l, c, k) ELSE l, b, q)
           \in Adopting(N, c, p)
<1> DEFINE n == Len(q)
           V == Adopting(N, c, p)
           More(l, i) == IF Adopts(c, q[i]) THEN AddTransient(l, c, q[i]) ELSE l
           step == [i \in 1..n |-> [l \in V |-> More(l, i)]]
           Run(r) == r = [i \in 0..n |-> IF i = 0 THEN b ELSE More(r[i - 1], i)]
           after == CHOOSE r : Run(r)
<1>1. n \in Nat /\ b \in V
  OBVIOUS
<1>2. \A l \in V, i \in 1..n : More(l, i) \in V
  <2> SUFFICES ASSUME NEW l \in V, NEW i \in 1..n PROVE More(l, i) \in V
    OBVIOUS
  <2>1. q[i] \in N /\ q[i] # c
    OBVIOUS
  <2> QED BY <2>1, AdoptedIs
<1>3. Through(LAMBDA l, k : IF Adopts(c, k) THEN AddTransient(l, c, k) ELSE l, b, q) = after[n]
  BY DEF Through
<1> HIDE DEF n, V, More
<1>4. /\ step \in [1..n -> [V -> V]]
      /\ \A i \in 1..n : \A l \in V : step[i][l] = More(l, i)
  BY <1>2
<1> HIDE DEF step
<1>5. PICK r \in [0..n -> V] : Repeats(r, n, b, step)
  BY <1>1, <1>4, Repeated
<1>6. \A i \in 1..n : i - 1 \in 0..n /\ i \in 0..n /\ i # 0
  BY <1>1
<1>7. \A i \in 0..n : i = 0 \/ i \in 1..n
  BY <1>1
<1>8. Run(r)
  <2>1. \A i \in 1..n : step[i][r[i - 1]] = More(r[i - 1], i)
    BY <1>4, <1>6
  <2>2. r = [i \in 0..n |-> IF i = 0 THEN b ELSE step[i][r[i - 1]]]
    BY <1>5 DEF Repeats
  <2> QED BY <1>7, <2>1, <2>2
<1>9. Run(after)
  <2> HIDE DEF Run
  <2> QED BY <1>8
<1> HIDE DEF after
<1>10. /\ after = [i \in 0..n |-> after[i]] /\ after[0] = b
       /\ \A i \in 1..n : after[i] = More(after[i - 1], i)
  <2>1. \A i \in 0..n : after[i] = IF i = 0 THEN b ELSE More(after[i - 1], i)
    BY <1>9
  <2>2. 0 \in 0..n
    BY <1>1
  <2> QED BY <1>6, <1>9, <2>1, <2>2
<1>11. after \in [0..n -> V]
  <2>1. \A i \in 1..n : after[i - 1] \in V => after[i] = step[i][after[i - 1]]
    BY <1>4, <1>10
  <2>2. Ranged(after, n)
    BY <1>10 DEF Ranged
  <2>3. after[0] = b
    BY <1>10
  <2>4. n \in Nat /\ b \in V
    BY <1>1
  <2>5. step \in [1..n -> [V -> V]]
    BY <1>4
  <2> HIDE DEF Run
  <2> QED BY <2>1, <2>2, <2>3, <2>4, <2>5, Kept
<1>12. after[n] \in V
  <2>1. n \in 0..n
    BY <1>1
  <2> QED BY <1>11, <2>1
<1> QED BY <1>3, <1>12 DEF V

\* The links after c was mapped.
LEMMA LinksOnMapIs ==
  ASSUME NEW M, M = Managed, M \in SUBSET Clients, links \in LinkSet, Linked(links, M),
         clients \in Orders(M), NEW c \in Clients, c \notin M, NEW x
  PROVE  LinksOnMap(c, x) \in Adopting(M \cup {c}, c, ParentOnMap(c, x))
<1> DEFINE N == M \cup {c}
           p == ParentOnMap(c, x)
           b == AddTransient(links, p, c)
<1>1. N \in SUBSET Clients /\ c \in N /\ N \ {c} = M \ {c}
  OBVIOUS
<1>2. /\ links.parent \in [Clients -> Clients \cup {NULL}]
      /\ \A e \in Clients : links.parent[e] # NULL => e \in M /\ links.parent[e] \in M
  BY DEF Linked
<1>3. links.parent[c] = NULL /\ \A e \in Clients : links.parent[e] # c
  BY <1>2, NullIsNoClient
<1>4. Linked(links, N)
  <2> HIDE DEF N
  <2> QED BY <1>1, <1>3, LinkedStays
<1>5. p \in M \cup {NULL} /\ (ClientType[c] = "App" => p = NULL)
  BY DEF ParentOnMap
<1> HIDE DEF p
<1>6. b \in Adopting(N, c, p)
  <2>1. CASE p = NULL
    <3>1. b = links
      BY <2>1 DEF AddTransient
    <3> QED BY <1>3, <1>4, <2>1, <3>1 DEF Adopting
  <2>2. CASE p # NULL
    <3>1. p \in N /\ p # c /\ ClientType[c] # "App"
      BY <1>5, <2>2
    <3> HIDE DEF N
    <3>2. Linked(b, N) /\ b.parent = [links.parent EXCEPT ![c] = p]
      BY <1>1, <1>3, <1>4, <3>1, AddedIs
    <3>3. b = [parent |-> b.parent, kids |-> b.kids]
      BY <2>2 DEF AddTransient
    <3> HIDE DEF b
    <3>4. b \in LinkSet
      <4>1. b.parent \in [Clients -> Clients \cup {NULL}] /\ b.kids \in [Clients -> Seq(Clients)]
        BY <3>2 DEF Linked
      <4> QED BY <3>3, <4>1 DEF LinkSet
    <3>5. (\A e \in Clients : e # c => b.parent[e] = links.parent[e]) /\ b.parent[c] = p
      BY <1>2, <3>2
    <3> QED BY <3>1, <3>2, <3>4, <3>5 DEF Adopting
  <2> QED BY <2>1, <2>2
<1>7. clients \in Seq(N \ {c})
  <2>1. clients \in Seq(Clients) /\ Len(clients) \in Nat /\ \A i \in 1..Len(clients) : clients[i] \in M
    BY PlaceOf
  <2>2. \A i \in 1..Len(clients) : clients[i] \in N \ {c}
    BY <2>1
  <2> QED BY <2>1, <2>2
<1> HIDE DEF N, b
<1>8. Through(LAMBDA l, k : IF Adopts(c, k) THEN AddTransient(l, c, k) ELSE l, b, clients)
        \in Adopting(N, c, p)
  BY <1>1, <1>6, <1>7, AdoptedInTurn
<1> QED BY <1>8 DEF LinksOnMap, b, p, N

\* o are links of M without c, in which some of the parents of l are missing.
Parted(o, l, c, M) ==
  /\ o \in LinkSet /\ Linked(o, M \ {c})
  /\ \A e \in Clients : o.parent[e] \in {l.parent[e], NULL} /\ o.parent[e] # c

\* The links after c was unmanaged.
LEMMA UnlinkedIs ==
  ASSUME NEW M \in SUBSET Clients, NEW l, Linked(l, M), NEW c \in Clients
  PROVE  Parted(Orphan(Detransitise(l, c), c), l, c, M)
<1> DEFINE d == Detransitise(l, c)
           o == Orphan(d, c)
<1>1. Linked(d, M) /\ d.parent = [l.parent EXCEPT ![c] = NULL]
  BY DetransitiseIs
<1> HIDE DEF d
<1>2. /\ Linked(o, M)
      /\ \A e \in Clients : /\ o.parent[e] = d.parent[e] \/ o.parent[e] = NULL
                            /\ o.parent[e] # c
  <2>1. Linked(d, M)
    BY <1>1
  <2> QED BY <2>1, OrphanIs
<1>3. o = [parent |-> o.parent, kids |-> o.kids]
  BY DEF Orphan
<1> HIDE DEF o
<1>4. l.parent \in [Clients -> Clients \cup {NULL}]
  BY DEF Linked
<1>5. o \in LinkSet
  BY <1>2, <1>3 DEF Linked, LinkSet
<1>6. \A e \in Clients : o.parent[e] \in {l.parent[e], NULL} /\ o.parent[e] # c
  BY <1>1, <1>2, <1>4
<1>7. o.parent[c] = NULL
  BY <1>1, <1>2, <1>4
<1>8. Linked(o, M \ {c})
  <2> DEFINE N == M \ {c}
  <2>1. N \in SUBSET Clients /\ N \ {c} = M \ {c}
    OBVIOUS
  <2> HIDE DEF N
  <2>2. Linked(o, N)
    BY <1>2, <1>6, <1>7, <2>1, LinkedStays
  <2> QED BY <2>2 DEF N
<1>9. Parted(o, l, c, M)
  BY <1>5, <1>6, <1>8 DEF Parted
<1> QED BY <1>9 DEF o, d

-----------------------------------------------------------------------------
(* The inductive invariant.                                                  *)

IInv ==
  /\ order \in Orders(Managed)
  /\ clients \in Orders(Managed)
  /\ links \in LinkSet
  /\ Linked(links, Managed)
  /\ desktop \in Managed \cup {NULL}
  /\ Fallen(order, links) = {}

\* The stack holds finitely many clients.
LEMMA OrdersFinite ==
  ASSUME NEW M, NEW s \in Orders(M)
  PROVE  IsFiniteSet(M) /\ M \in SUBSET Clients
<1>1. /\ s \in Seq(Clients) /\ Len(s) \in Nat /\ M \subseteq Clients
      /\ \A i \in 1..Len(s) : s[i] \in M
      /\ \A c \in M : \E i \in 1..Len(s) : s[i] = c
  BY PlaceOf
<1> DEFINE I == 1..Len(s)
<1>2. s \in [I -> M]
  BY <1>1
<1>3. IsFiniteSet(I)
  BY <1>1, FS_Interval
<1>4. s \in Surjection(I, M)
  BY <1>1, <1>2 DEF Surjection
<1> HIDE DEF I
<1>5. IsFiniteSet(M)
  BY <1>3, <1>4, FS_Surjection
<1> QED BY <1>1, <1>5

\* The managed clients are those of the stack.
LEMMA ManagedIs ==
  ASSUME NEW M, NEW s \in Orders(M)
  PROVE  Stacked(s) = M
BY DEF Orders

LEMMA InitHolds == Init => IInv
<1> SUFFICES ASSUME Init PROVE IInv
  OBVIOUS
<1>1. Managed = {} /\ order = << >> /\ clients = << >> /\ desktop = NULL /\ links = Unlinked
  BY DEF Init, Managed, Stacked
<1>2. order \in Orders({}) /\ clients \in Orders({})
  BY <1>1, AppendIs
<1>3. /\ links.parent = [c \in Clients |-> NULL]
      /\ links.kids = [c \in Clients |-> << >>]
  BY <1>1 DEF Unlinked
<1>4. links \in LinkSet
  BY <1>1 DEF Unlinked, LinkSet
<1>5. ASSUME NEW p \in Clients PROVE links.kids[p] \in Orders(KidsOf(links, p))
  <2>1. KidsOf(links, p) = {}
    BY <1>3, NullIsNoClient DEF KidsOf
  <2>2. links.kids[p] = << >>
    BY <1>3
  <2> QED BY <2>1, <2>2, AppendIs
<1>6. Linked(links, {})
  BY <1>3, <1>4, <1>5 DEF Linked, Rooted, LinkSet
<1>7. Fallen(order, links) = {}
  BY <1>3 DEF Fallen
<1> QED BY <1>1, <1>2, <1>4, <1>6, <1>7 DEF IInv

\* A new client on top: only its transients can have fallen, and the stack
\* method puts them in their place.
LEMMA MapKeeps ==
  ASSUME IInv, NEW c \in Clients, NEW x, NEW h, Map(c, x, h)
  PROVE  IInv'
<1> DEFINE M == Managed
           N == M \cup {c}
           l == LinksOnMap(c, x)
           s == PutAbove(order, Len(order), c)
           t == ClientStack(s, l, c)
<1>1. /\ order \in Orders(M) /\ clients \in Orders(M) /\ links \in LinkSet
      /\ Linked(links, M) /\ desktop \in M \cup {NULL} /\ Fallen(order, links) = {}
      /\ c \notin M
  BY DEF IInv, Map
<1>2. /\ clients' = Append(clients, c) /\ links' = l /\ order' = t
      /\ desktop' \in {c, desktop}
  BY DEF Map
<1>3. M \in SUBSET Clients
  BY <1>1, OrdersFinite
<1>4. l \in Adopting(N, c, ParentOnMap(c, x))
  BY <1>1, <1>3, LinksOnMapIs
<1> HIDE DEF l
<1>5. /\ l \in LinkSet /\ Linked(l, N)
      /\ \A e \in Clients : e # c => l.parent[e] \in {c, links.parent[e]}
  BY <1>4 DEF Adopting
<1>6. /\ s \in Orders(N) /\ Moves(order, s, c)
      /\ \A i \in 1..Len(order) : Below(s, order[i], c)
  <2>1. Len(order) \in 0..Len(order)
    BY <1>1, PlaceOf
  <2> HIDE DEF M
  <2> QED BY <1>1, <2>1, PutAboveIs
<1> HIDE DEF s
<1>7. IsFiniteSet(N)
  BY <1>6, OrdersFinite
<1> HIDE DEF N
<1>8. Mended(t, s, l, c, N)
  <2>1. c \in N
    BY DEF N
  <2> QED BY <1>5, <1>6, <1>7, <2>1, ClientStackIs
<1> HIDE DEF t
<1>9. Managed' = N
  <2>1. order' \in Orders(N)
    BY <1>2, <1>8 DEF Mended
  <2> QED BY <2>1, ManagedIs DEF Managed
<1>10. clients' \in Orders(N)
  <2> HIDE DEF M
  <2> QED BY <1>1, <1>2, AppendIs DEF N
<1>11. ASSUME NEW e \in Fallen(t, l) PROVE FALSE
  <2>1. e \in Fallen(s, l) /\ e # c /\ l.parent[e] # c
    BY <1>8 DEF Mended
  <2> DEFINE p == l.parent[e]
  <2>2. /\ e \in Clients /\ p # NULL /\ ~MovesAlone(e) /\ ~MovesAlone(p) /\ ~Below(s, p, e)
        /\ p = links.parent[e]
    BY <1>5, <2>1 DEF Fallen
  <2>3. p \in Clients
    BY <2>2, <1>5 DEF Linked
  <2>4. ~Below(order, p, e)
    BY <1>6, <2>1, <2>2, <2>3 DEF Moves
  <2>5. e \in Fallen(order, links)
    BY <2>2, <2>4 DEF Fallen
  <2> QED BY <1>1, <2>5
<1>12. desktop' \in N \cup {NULL}
  BY <1>1, <1>2 DEF N
<1>13. order' \in Orders(N) /\ Fallen(order', links') = {}
  BY <1>2, <1>8, <1>11 DEF Mended
<1> QED BY <1>2, <1>5, <1>9, <1>10, <1>12, <1>13 DEF IInv

\* A client goes; l are links that lack some of the parents at most.
LEMMA UnmanageKeeps ==
  ASSUME IInv, NEW c \in Managed, NEW l, Linked(l, Managed),
         \A e \in Clients : l.parent[e] \in {links.parent[e], NULL},
         Unmanage(c, l)
  PROVE  IInv'
<1> DEFINE M == Managed
           N == M \ {c}
           o == Orphan(Detransitise(l, c), c)
<1>1. /\ order \in Orders(M) /\ clients \in Orders(M)
      /\ desktop \in M \cup {NULL} /\ Fallen(order, links) = {}
  BY DEF IInv
<1>2. /\ clients' = Without(clients, c) /\ order' = Without(order, c) /\ links' = o
      /\ desktop' = IF desktop = c THEN NULL ELSE desktop
  BY DEF Unmanage
<1>3. M \in SUBSET Clients /\ c \in Clients
  BY <1>1, OrdersFinite
<1>4. /\ o \in LinkSet /\ Linked(o, N)
      /\ \A e \in Clients : o.parent[e] \in {l.parent[e], NULL} /\ o.parent[e] # c
  <2>1. Parted(o, l, c, M)
    BY <1>3, UnlinkedIs
  <2> QED BY <2>1 DEF Parted
<1> HIDE DEF o
<1>5. order' \in Orders(N) /\ Moves(order, order', c) /\ clients' \in Orders(N)
  BY <1>1, <1>2, WithoutIs
<1> HIDE DEF N
<1>6. Managed' = N
  BY <1>5, ManagedIs DEF Managed
<1>7. ASSUME NEW e \in Fallen(order', o) PROVE FALSE
  <2> DEFINE p == o.parent[e]
  <2>1. /\ e \in Clients /\ p # NULL /\ ~MovesAlone(e) /\ ~MovesAlone(p) /\ ~Below(order', p, e)
    BY DEF Fallen
  <2>2. p = links.parent[e] /\ p # c
    BY <1>4, <2>1
  <2>3. p \in Clients /\ e \in N
    BY <1>4, <2>1 DEF Linked
  <2>4. e # c
    BY <2>3 DEF N
  <2>5. ~Below(order, p, e)
    BY <1>5, <2>1, <2>2, <2>3, <2>4 DEF Moves
  <2>6. e \in Fallen(order, links)
    BY <2>1, <2>2, <2>5 DEF Fallen
  <2> QED BY <1>1, <2>6
<1>8. desktop' \in N \cup {NULL}
  BY <1>1, <1>2 DEF N
<1> QED BY <1>2, <1>4, <1>5, <1>6, <1>7, <1>8 DEF IInv

LEMMA WithdrawKeeps ==
  ASSUME IInv, NEW c \in Clients, Withdraw(c)
  PROVE  IInv'
<1> DEFINE l == Orphan(links, c)
<1>1. c \in Managed /\ Unmanage(c, l)
  BY DEF Withdraw
<1>2. Managed \in SUBSET Clients /\ Linked(links, Managed)
  BY OrdersFinite DEF IInv
<1>3. /\ Linked(l, Managed)
      /\ \A e \in Clients : l.parent[e] = links.parent[e] \/ l.parent[e] = NULL
  BY <1>2, OrphanIs
<1> HIDE DEF l
<1> QED BY <1>1, <1>3, UnmanageKeeps

LEMMA DestroyKeeps ==
  ASSUME IInv, NEW c \in Clients, Destroy(c)
  PROVE  IInv'
<1>1. c \in Managed /\ Unmanage(c, links)
  BY DEF Destroy
<1>2. Linked(links, Managed)
  BY DEF IInv
<1> QED BY <1>1, <1>2, UnmanageKeeps

\* Neither the stack nor the links change.
LEMMA SameKeeps ==
  ASSUME IInv, UNCHANGED <<order, clients, links, desktop>>
  PROVE  IInv'
<1>1. Managed' = Managed
  BY DEF Managed
<1> QED BY <1>1 DEF IInv

\* The activated client is stacked: it may come from a place where it, or its
\* transients, have fallen.
LEMMA ActivatedKeeps ==
  ASSUME IInv, NEW c \in Managed, NEW s \in Orders(Managed),
         ClientType[c] = "Override" => s = order,
         \A e \in Fallen(s, links) : e = c \/ links.parent[e] = c,
         Activated(c, s)
  PROVE  IInv'
<1>1. UNCHANGED <<clients, links, desktop>>
  BY DEF Activated
<1>2. /\ clients \in Orders(Managed) /\ links \in LinkSet /\ Linked(links, Managed)
      /\ desktop \in Managed \cup {NULL} /\ Fallen(order, links) = {}
  BY DEF IInv
<1>3. CASE ClientType[c] = "Override"
  <2>1. order' = order
    BY <1>3 DEF Activated
  <2> QED BY <1>1, <2>1, SameKeeps
<1>4. CASE ClientType[c] # "Override"
  <2> DEFINE t == ClientStack(s, links, c)
  <2>1. order' = t
    BY <1>4 DEF Activated
  <2>2. IsFiniteSet(Managed)
    BY OrdersFinite
  <2>3. Mended(t, s, links, c, Managed)
    BY <1>2, <2>2, ClientStackIs
  <2> HIDE DEF t
  <2>4. t \in Orders(Managed) /\ Fallen(t, links) = {}
    BY <2>3 DEF Mended
  <2>5. Managed' = Managed
    <3>1. Stacked(order') = Managed
      BY <2>1, <2>4, ManagedIs
    <3> QED BY <3>1 DEF Managed
  <2> QED BY <1>1, <1>2, <2>1, <2>4, <2>5 DEF IInv
<1> QED BY <1>3, <1>4

\* From where the client is.
LEMMA ActivatedHereKeeps ==
  ASSUME IInv, NEW c \in Managed, Activated(c, order)
  PROVE  IInv'
<1>1. order \in Orders(Managed) /\ Fallen(order, links) = {}
  BY DEF IInv
<1> QED BY <1>1, ActivatedKeeps

LEMMA LeaveDesktopKeeps ==
  ASSUME IInv, LeaveDesktop
  PROVE  IInv'
<1> DEFINE c == HighestOf(order, {"App"})
<1>1. c # NULL /\ Activated(c, order)
  BY DEF LeaveDesktop
<1>2. c \in Managed
  BY <1>1, SearchIs DEF IInv
<1> HIDE DEF c
<1> QED BY <1>1, <1>2, ActivatedHereKeeps

LEMMA ToggleDesktopKeeps ==
  ASSUME IInv, ToggleDesktop
  PROVE  IInv'
<1>1. CASE LeaveDesktop
  BY <1>1, LeaveDesktopKeeps
<1>2. CASE desktop # NULL /\ Activated(desktop, order)
  <2>1. desktop \in Managed
    BY <1>2 DEF IInv
  <2> QED BY <1>2, <2>1, ActivatedHereKeeps
<1> QED BY <1>1, <1>2 DEF ToggleDesktop

\* The application that a cycle takes to the top, with the one it goes above.
LEMMA CycledIs ==
  ASSUME NEW M, NEW s \in Orders(M), NEW reverse \in BOOLEAN
  PROVE  LET top == IF reverse THEN SecondOf(s, {"App"}) ELSE LowestOf(s, {"App"})
             t   == IF reverse THEN CycledReverse(s, {"App"}) ELSE CycledForward(s, {"App"})
         IN  top # NULL =>
               /\ top \in M /\ ClientType[top] = "App"
               /\ t \in Orders(M) /\ Moves(s, t, top)
<1> DEFINE T == {"App"}
           top == IF reverse THEN SecondOf(s, T) ELSE LowestOf(s, T)
           t == IF reverse THEN CycledReverse(s, T) ELSE CycledForward(s, T)
           h == HighestOf(s, T)
<1> SUFFICES ASSUME top # NULL
             PROVE  /\ top \in M /\ ClientType[top] = "App"
                    /\ t \in Orders(M) /\ Moves(s, t, top)
  OBVIOUS
<1>1. top \in M /\ h \in M
  BY SearchIs
<1>2. t = MovedAbove(s, top, h)
  BY DEF CycledReverse, CycledForward
<1>3. ClientType[top] = "App"
  BY SearchIs
<1> HIDE DEF top, h, t
<1>4. t \in Orders(M) /\ Moves(s, t, top)
  BY <1>1, <1>2, MovedAboveIs
<1> QED BY <1>1, <1>3, <1>4

LEMMA CycleKeeps ==
  ASSUME IInv, NEW reverse \in BOOLEAN, Cycle(reverse)
  PROVE  IInv'
<1> DEFINE top == IF reverse THEN SecondOf(order, {"App"}) ELSE LowestOf(order, {"App"})
           t == IF reverse THEN CycledReverse(order, {"App"}) ELSE CycledForward(order, {"App"})
<1>1. top # NULL /\ Activated(top, t)
  BY DEF Cycle
<1>2. /\ order \in Orders(Managed) /\ Linked(links, Managed) /\ Fallen(order, links) = {}
  BY DEF IInv
<1>3. /\ top \in Managed /\ ClientType[top] = "App"
      /\ t \in Orders(Managed) /\ Moves(order, t, top)
  BY <1>1, <1>2, CycledIs
<1> HIDE DEF top, t
<1>4. \A e \in Fallen(t, links) : e = top \/ links.parent[e] = top
  <2>1. top \in Clients
    BY <1>2, <1>3, OrdersFinite
  <2>2. \A e \in Fallen(t, links) : e \in Fallen(order, links) \/ e = top \/ links.parent[e] = top
    BY <1>2, <1>3, <2>1, MovedFallen
  <2> QED BY <1>2, <2>2
<1>5. ClientType[top] # "Override"
  BY <1>3
<1> QED BY <1>1, <1>3, <1>4, <1>5, ActivatedKeeps

LEMMA SyncKeeps ==
  ASSUME IInv, Sync
  PROVE  IInv'
<1> DEFINE t == Ensured(order)
<1>1. order' = t /\ UNCHANGED <<clients, links, desktop>>
  BY DEF Sync
<1>2. /\ clients \in Orders(Managed) /\ links \in LinkSet /\ Linked(links, Managed)
      /\ desktop \in Managed \cup {NULL} /\ order \in Upright(Managed)
  BY DEF IInv, Upright
<1>3. IsFiniteSet(Managed)
  BY <1>2, OrdersFinite DEF Upright
<1>4. t \in Upright(Managed)
  BY <1>2, <1>3, EnsuredIs
<1> HIDE DEF t
<1>5. t \in Orders(Managed) /\ Fallen(t, links) = {}
  BY <1>4 DEF Upright
<1>6. Managed' = Managed
  <2>1. Stacked(order') = Managed
    BY <1>1, <1>5, ManagedIs
  <2> QED BY <2>1 DEF Managed
<1> QED BY <1>1, <1>2, <1>5, <1>6 DEF IInv

LEMMA NextKeeps == IInv /\ [Next]_vars => IInv'
<1> SUFFICES ASSUME IInv, [Next]_vars PROVE IInv'
  OBVIOUS
<1>1. ASSUME NEW c \in Clients, NEW x \in TransientTargets[c], NEW h \in HildonLayers[c], Map(c, x, h)
      PROVE  IInv'
  BY <1>1, MapKeeps
<1>2. ASSUME NEW c \in Clients, Withdraw(c) PROVE IInv'
  BY <1>2, WithdrawKeeps
<1>3. ASSUME NEW c \in Clients, Destroy(c) PROVE IInv'
  BY <1>3, DestroyKeeps
<1>4. ASSUME NEW c \in Clients, NEW h \in HildonLayers[c], SetHildon(c, h) PROVE IInv'
  BY <1>4, SameKeeps DEF SetHildon
<1>5. ASSUME NEW c \in Clients, NEW x \in TransientTargets[c], SetTransientFor(c, x) PROVE IInv'
  BY <1>5, SameKeeps DEF SetTransientFor
<1>6. ASSUME NEW c \in Clients, Activate(c) PROVE IInv'
  BY <1>6, ActivatedHereKeeps DEF Activate
<1>7. CASE ToggleDesktop
  BY <1>7, ToggleDesktopKeeps
<1>8. CASE CycleApps
  BY <1>8, LeaveDesktopKeeps, CycleKeeps DEF CycleApps
<1>9. CASE Sync
  BY <1>9, SyncKeeps
<1>10. CASE UNCHANGED vars
  BY <1>10, SameKeeps DEF vars
<1> QED BY <1>1, <1>2, <1>3, <1>4, <1>5, <1>6, <1>7, <1>8, <1>9, <1>10 DEF Next

THEOREM InvHolds == Spec => []IInv
BY InitHolds, NextKeeps, PTL DEF Spec

-----------------------------------------------------------------------------
(* What it gives.                                                            *)

LEMMA LinksFollow == IInv => LinksAgree
<1> SUFFICES ASSUME IInv PROVE LinksAgree
  OBVIOUS
<1>1. order \in Orders(Managed) /\ clients \in Orders(Managed) /\ Linked(links, Managed)
  BY DEF IInv
<1>2. Stacked(clients) = Managed
  BY <1>1, ManagedIs
<1>3. ASSUME NEW p \in Clients
      PROVE  /\ IsOrder(links.kids[p])
             /\ ToSet(links.kids[p]) = {c \in Clients : links.parent[c] = p}
  <2> DEFINE s == links.kids[p]
  <2>1. s \in Orders(KidsOf(links, p))
    BY <1>1 DEF Linked
  <2> HIDE DEF s
  <2>2. IsOrder(s) /\ Stacked(s) = KidsOf(links, p)
    BY <2>1 DEF Orders
  <2>3. ToSet(s) = Stacked(s)
    BY <2>2 DEF ToSet, Stacked, IsOrder
  <2> QED BY <2>2, <2>3 DEF s, KidsOf
<1>4. \A c \in Clients : links.parent[c] # NULL => {c, links.parent[c]} \subseteq Managed
  BY <1>1 DEF Linked
<1>5. \A cs \in SUBSET Managed : cs # {} => \E c \in cs : links.parent[c] \notin cs
  BY <1>1 DEF Linked, Rooted
<1> QED BY <1>2, <1>3, <1>4, <1>5 DEF LinksAgree

LEMMA TransientsFollow == IInv => TransientsAboveParents
<1> SUFFICES ASSUME IInv, NEW c \in Managed, NEW p, p = links.parent[c],
                    p # NULL, ~MovesAlone(c), ~MovesAlone(p)
             PROVE  Position(order, p) < Position(order, c)
  BY DEF TransientsAboveParents
<1>1. order \in Orders(Managed) /\ Linked(links, Managed) /\ Fallen(order, links) = {}
  BY DEF IInv
<1>2. c \in Clients
  BY <1>1, PlaceOf
<1>3. p \in Managed
  BY <1>1, <1>2 DEF Linked
<1>4. Below(order, p, c)
  BY <1>1, <1>2 DEF Fallen
<1>5. PICK i \in 1..Len(order), j \in 1..Len(order) : i < j /\ order[i] = p /\ order[j] = c
  BY <1>4 DEF Below
<1>6. Position(order, p) = i /\ Position(order, c) = j
  <2>1. /\ \A x, y \in 1..Len(order) : order[x] = order[y] => x = y
        /\ \A d \in Managed : Position(order, d) \in 1..Len(order) /\ order[Position(order, d)] = d
    BY <1>1, PlaceOf
  <2> QED BY <1>3, <1>5, <2>1
<1> QED BY <1>5, <1>6

\* The two ends of every transiency link agree, whatever clients come and go:
\* mb_wm_client_add_transient, _remove_transient and what calls them.
THEOREM LinksAlwaysAgree == Spec => []LinksAgree
BY InvHolds, LinksFollow, PTL

\* No transient is ever left below its parent by mb_wm_client_stack, by
\* mb_wm_stack_ensure or by the cycling of applications.
THEOREM TransientsStayAbove == Spec => []TransientsAboveParents
BY InvHolds, TransientsFollow, PTL

-----------------------------------------------------------------------------
(* What a press of MB_CMD_NEXT or MB_CMD_PREV brings up.                     *)

Among(q, a) == \E i \in 1..Len(q) : q[i] = a

\* t has the clients of q above all others, which keep their order.
Lifted(t, s, q, M) ==
  /\ \A a \in M : \A i \in 1..Len(q) : ~Among(q, a) => Below(t, a, q[i])
  /\ \A a, b \in M : ~Among(q, a) /\ ~Among(q, b) /\ Below(s, a, b) => Below(t, a, b)

\* Clients raised one after another end above all others.
LEMMA RaisedTogether ==
  ASSUME NEW M, NEW s \in Orders(M), NEW q \in Seq(M)
  PROVE  LET t == Through(Raised, s, q) IN t \in Orders(M) /\ Lifted(t, s, q, M)
<1> DEFINE n == Len(q)
<1>1. PICK r : /\ Walk(r, n, Orders(M), s)
               /\ \A i \in 1..n : r[i] = Raised(r[i - 1], q[i])
               /\ Through(Raised, s, q) = r[n]
  BY RaisedStages
<1>2. /\ n \in Nat /\ r \in [0..n -> Orders(M)] /\ r[0] = s
      /\ \A j \in 1..n : q[j] \in M
      /\ M \subseteq Clients
  BY <1>1, PlaceOf DEF Walk
<1> HIDE DEF n
<1> DEFINE Other(a) == a \in M /\ ~Among(q, a)
           Fine(i) == /\ \A a : \A j \in 1..i : Other(a) => Below(r[i], a, q[j])
                      /\ \A a, b : Other(a) /\ Other(b) /\ Below(s, a, b) => Below(r[i], a, b)
           P == {i \in 0..n : Fine(i)}
<1>3. Fine(0)
  BY <1>2
<1>4. ASSUME NEW i \in 1..n, Fine(i - 1) PROVE Fine(i)
  <2> DEFINE c == q[i]
             t == r[i]
             u == r[i - 1]
  <2>1. i - 1 \in 0..n /\ c \in M
    BY <1>2
  <2>2. u \in Orders(M) /\ t = Raised(u, c)
    BY <1>1, <1>2, <2>1
  <2> HIDE DEF t, u
  <2>3. Moves(u, t, c) /\ \A a \in M \ {c} : Below(t, a, c)
    <3> HIDE DEF c
    <3> QED BY <2>1, <2>2, RaisedIs
  <2>4. \A a : Other(a) => a # c /\ a \in Clients
    BY <1>2 DEF Among, n
  <2>5. /\ \A a : \A j \in 1..(i - 1) : Other(a) => Below(u, a, q[j])
        /\ \A a, b : Other(a) /\ Other(b) /\ Below(s, a, b) => Below(u, a, b)
    BY <1>4 DEF u
  <2>6. ASSUME NEW a, NEW j \in 1..i, Other(a) PROVE Below(t, a, q[j])
    <3>1. CASE q[j] = c
      BY <2>3, <2>4, <2>6, <3>1
    <3>2. CASE q[j] # c
      <4>1. j \in 1..(i - 1) /\ j \in 1..n
        BY <1>2, <3>2
      <4>2. Below(u, a, q[j]) /\ q[j] \in Clients /\ a # c /\ a \in Clients
        BY <1>2, <2>4, <2>5, <2>6, <4>1
      <4> HIDE DEF c
      <4> QED BY <2>3, <3>2, <4>2 DEF Moves
    <3> QED BY <3>1, <3>2
  <2>7. ASSUME NEW a, NEW b, Other(a), Other(b), Below(s, a, b) PROVE Below(t, a, b)
    <3>1. Below(u, a, b) /\ a # c /\ b # c /\ a \in Clients /\ b \in Clients
      BY <2>4, <2>5, <2>7
    <3> HIDE DEF c, Other
    <3> QED BY <2>3, <3>1 DEF Moves
  <2> QED BY <2>6, <2>7 DEF t
<1> HIDE DEF Fine
<1>5. \A i \in 0..n : i \in P
  <2>1. 0 \in P
    BY <1>2, <1>3
  <2>2. \A i \in 1..n : i - 1 \in P => i \in P
    BY <1>2, <1>4
  <2> HIDE DEF P
  <2> QED BY <1>2, <2>1, <2>2, Along
<1>6. n \in 0..n
  BY <1>2
<1>7. r[n] \in Orders(M) /\ Fine(n)
  BY <1>2, <1>5, <1>6
<1>8. Lifted(r[n], s, q, M)
  BY <1>7 DEF Lifted, Fine, n
<1> QED BY <1>1, <1>7, <1>8

\* An application is stacked alone: only override windows call for others.
LEMMA AppCalls ==
  ASSUME NEW M \in SUBSET Clients, IsFiniteSet(M), NEW l, Linked(l, M), NEW c \in M,
         ~IsOverride(c)
  PROVE  OverrideCalls(l, c) = <<c>>
<1> DEFINE ks == OverrideKids(l)
           Is(f) == f = [d \in Clients |-> Headed(d, f, IF IsOverride(d) THEN l.kids[d] ELSE << >>)]
           calls == CHOOSE f : Is(f)
<1>1. Chains(ks, l)
  <2>1. l.kids \in [Clients -> Seq(Clients)]
    BY DEF Linked
  <2> QED BY <2>1 DEF Chains, OverrideKids
<1>2. \A f : Is(f) <=> Listing(f, ks)
  <2> SUFFICES ASSUME NEW f PROVE Is(f) <=> Listing(f, ks)
    OBVIOUS
  <2>1. \A d \in Clients : ks[d] = IF IsOverride(d) THEN l.kids[d] ELSE << >>
    BY DEF OverrideKids
  <2> HIDE DEF ks
  <2>2. \A d \in Clients : Headed(d, f, ks[d]) = Headed(d, f, IF IsOverride(d) THEN l.kids[d] ELSE << >>)
    BY <2>1
  <2> QED BY <2>2 DEF Listing
<1>3. Is(calls)
  <2>1. \E f : Is(f)
    <3> HIDE DEF Is, ks
    <3> QED BY <1>1, <1>2, ListingExists
  <2> HIDE DEF Is
  <2> QED BY <2>1
<1>4. OverrideCalls(l, c) = calls[c]
  BY DEF OverrideCalls, IsOverride
<1> HIDE DEF calls
<1>5. calls[c] = Headed(c, calls, << >>)
  <2>1. Listing(calls, ks) /\ ks[c] = << >>
    <3>1. ks[c] = << >>
      BY DEF OverrideKids
    <3> HIDE DEF Is, ks
    <3> QED BY <1>2, <1>3, <3>1
  <2> HIDE DEF Is, ks
  <2> QED BY <2>1 DEF Listing
<1> HIDE DEF Is, ks
<1>6. PICK r : Stages(r, M, c, calls, << >>)
  <2>1. Len(<< >>) = 0 /\ 1..0 = {}
    OBVIOUS
  <2> QED BY <2>1, HeadedIs
<1>7. Headed(c, calls, << >>) = <<c>>
  BY <1>6 DEF Stages
<1> QED BY <1>4, <1>5, <1>7

\* Stacking an application raises its family.
LEMMA AppStacked ==
  ASSUME NEW M, NEW s \in Orders(M), NEW l, Linked(l, M), NEW c \in M,
         ClientType[c] = "App", c \notin LiveBackgrounds
  PROVE  LET q == Family(l, Root(l, c))
             t == ClientStack(s, l, c)
         IN  /\ q \in Seq(M) /\ Among(q, c)
             /\ t \in Orders(M) /\ Lifted(t, s, q, M)
<1> DEFINE q == Family(l, Root(l, c))
           a == Root(l, c)
<1>1. M \in SUBSET Clients /\ IsFiniteSet(M)
  BY OrdersFinite
<1>2. a \in M /\ Among(q, c)
  BY <1>1, RootIs DEF Among
<1>3. q \in Seq(M)
  <2> HIDE DEF a
  <2>1. Listed(Family(l, a), a, M, l.kids)
    BY <1>1, <1>2, FamilyIs
  <2> QED BY <2>1 DEF Listed, a
<1>4. OverrideCalls(l, c) = <<c>>
  <2>1. ~IsOverride(c)
    BY DEF IsOverride
  <2> QED BY <1>1, <2>1, AppCalls
<1>5. ClientStack(s, l, c) = Called(s, l, c)
  <2> DEFINE z == OverrideCalls(l, c)
  <2>1. z \in Seq(M) /\ Len(z) = 1 /\ z[1] = c
    BY <1>4
  <2>2. PICK r : /\ Walk(r, Len(z), Orders(M), s)
                 /\ \A i \in 1..Len(z) : r[i] = Called(r[i - 1], l, z[i])
                 /\ ClientStack(s, l, c) = r[Len(z)]
    BY <1>1, <2>1, ClientStackStages
  <2> HIDE DEF z
  <2>3. r[0] = s
    BY <2>2 DEF Walk
  <2>4. 1 \in 1..Len(z) /\ 1 - 1 = 0
    BY <2>1
  <2>5. r[1] = Called(r[0], l, c)
    BY <2>1, <2>2, <2>4
  <2> QED BY <2>1, <2>2, <2>3, <2>5
<1>6. ClientStack(s, l, c) = Through(Raised, s, q)
  BY <1>5 DEF Called, IsOverride, StackedAlone, Follows, RaisedFamily
<1> HIDE DEF q
<1>7. Through(Raised, s, q) \in Orders(M) /\ Lifted(Through(Raised, s, q), s, q, M)
  BY <1>3, RaisedTogether
<1> QED BY <1>2, <1>3, <1>6, <1>7 DEF q

\* Places and what lies below what.
LEMMA BelowIs ==
  ASSUME NEW M, NEW s \in Orders(M)
  PROVE  \A a, b \in M : Below(s, a, b) <=> Position(s, a) < Position(s, b)
<1>1. /\ \A i, j \in 1..Len(s) : s[i] = s[j] => i = j
      /\ \A c \in M : Position(s, c) \in 1..Len(s) /\ s[Position(s, c)] = c
  BY PlaceOf
<1> QED BY <1>1 DEF Below

\* The lowest of a type has none of the type below it.
LEMMA NoneLower ==
  ASSUME NEW M, NEW s \in Orders(M), NEW T, NEW a \in M, ClientType[a] \in T
  PROVE  LowestOf(s, T) \in M /\ ~Below(s, a, LowestOf(s, T))
<1> DEFINE P == PositionsOf(s, T)
           m == CHOOSE i \in P : \A j \in P : i <= j
<1>1. /\ Len(s) \in Nat /\ \A i \in 1..Len(s) : s[i] \in M
      /\ \A i, j \in 1..Len(s) : s[i] = s[j] => i = j
  BY PlaceOf
<1>2. PICK k \in 1..Len(s) : s[k] = a
  BY PlaceOf
<1>3. P \in SUBSET Nat /\ P \subseteq 1..Len(s) /\ k \in P
  BY <1>1, <1>2 DEF PositionsOf
<1>4. LowestOf(s, T) = s[m]
  BY <1>3 DEF LowestOf
<1> HIDE DEF P
<1>5. \E i \in P : \A j \in P : i <= j
  BY <1>3, LeastNumber
<1>6. m \in P /\ \A j \in P : m <= j
  BY <1>5
<1> HIDE DEF m
<1>7. m \in 1..Len(s) /\ m <= k
  BY <1>3, <1>6
<1>8. ~Below(s, a, s[m])
  <2> SUFFICES ASSUME NEW i \in 1..Len(s), NEW j \in 1..Len(s), i < j, s[i] = a, s[j] = s[m]
               PROVE  FALSE
    BY DEF Below
  <2>1. i = k /\ j = m
    BY <1>1, <1>2, <1>7
  <2> QED BY <1>7, <2>1
<1> QED BY <1>1, <1>4, <1>7, <1>8

\* The application a press takes to the top, with its family: those that are, directly or
\* not, transient for what it is itself, directly or not, transient for.
Pressed(reverse) == IF reverse THEN SecondOf(order, {"App"}) ELSE LowestOf(order, {"App"})

PressedFamily(reverse) == ToSet(Family(links, Root(links, Pressed(reverse))))

\* A press of either key that takes up another application than the top one
\* (mb_wm_cycle_apps) leaves the whole family of that application above all other clients,
\* which keep their order, in whatever order the activation stacks the family; the next
\* press of MB_CMD_NEXT begins with an application of another family if there is one.
PressRaisesFamily ==
  \A reverse \in BOOLEAN :
    LET family == PressedFamily(reverse)
        others == Managed \ family
    IN  Cycle(reverse) /\ Pressed(reverse) \notin LiveBackgrounds =>
          /\ Pressed(reverse) \in family
          /\ \A a \in others, b \in family : Position(order', a) < Position(order', b)
          /\ \A a, b \in others :
               Position(order, a) < Position(order, b) => Position(order', a) < Position(order', b)
          /\ (\E a \in others : ClientType[a] = "App") => LowestOf(order', {"App"}) \in others

LEMMA PressIs ==
  ASSUME IInv, NEW reverse \in BOOLEAN, Cycle(reverse), Pressed(reverse) \notin LiveBackgrounds
  PROVE  LET q == Family(links, Root(links, Pressed(reverse)))
         IN  /\ q \in Seq(Managed) /\ Among(q, Pressed(reverse))
             /\ order' \in Orders(Managed) /\ Lifted(order', order, q, Managed)
<1> DEFINE c == Pressed(reverse)
           t == IF reverse THEN CycledReverse(order, {"App"}) ELSE CycledForward(order, {"App"})
           q == Family(links, Root(links, c))
<1>1. c # NULL /\ Activated(c, t)
  BY DEF Cycle, Pressed
<1>2. order \in Orders(Managed) /\ Linked(links, Managed)
  BY DEF IInv
<1>3. /\ c \in Managed /\ ClientType[c] = "App"
      /\ t \in Orders(Managed) /\ Moves(order, t, c)
  BY <1>1, <1>2, CycledIs DEF Pressed
<1> HIDE DEF c, t
<1>4. order' = ClientStack(t, links, c)
  BY <1>1, <1>3 DEF Activated
<1>5. c \notin LiveBackgrounds
  BY DEF c
<1>6. /\ q \in Seq(Managed) /\ Among(q, c)
      /\ order' \in Orders(Managed) /\ Lifted(order', t, q, Managed)
  BY <1>2, <1>3, <1>4, <1>5, AppStacked
<1> HIDE DEF q
<1>7. Lifted(order', order, q, Managed)
  <2>1. \A a \in Managed : ~Among(q, a) => a # c /\ a \in Clients
    BY <1>2, <1>6, PlaceOf
  <2>2. \A a, b \in Managed : ~Among(q, a) /\ ~Among(q, b) /\ Below(order, a, b) => Below(t, a, b)
    BY <1>3, <2>1 DEF Moves
  <2> QED BY <1>6, <2>2 DEF Lifted
<1> QED BY <1>6, <1>7 DEF q, c

LEMMA PressesRaise == IInv => PressRaisesFamily
<1> SUFFICES ASSUME IInv, NEW reverse \in BOOLEAN, Cycle(reverse),
                    Pressed(reverse) \notin LiveBackgrounds
             PROVE  LET family == PressedFamily(reverse)
                        others == Managed \ family
                    IN  /\ Pressed(reverse) \in family
                        /\ \A a \in others, b \in family : Position(order', a) < Position(order', b)
                        /\ \A a, b \in others :
                             Position(order, a) < Position(order, b)
                             => Position(order', a) < Position(order', b)
                        /\ (\E a \in others : ClientType[a] = "App")
                           => LowestOf(order', {"App"}) \in others
  BY Zenon DEF PressRaisesFamily
<1> DEFINE c == Pressed(reverse)
           q == Family(links, Root(links, c))
           family == PressedFamily(reverse)
           t == order'
           M == Managed
<1>1. /\ q \in Seq(M) /\ Among(q, c)
      /\ t \in Orders(M) /\ Lifted(t, order, q, M)
  BY PressIs
<1>2. order \in Orders(M)
  BY DEF IInv
<1>3. \A a : a \in family <=> Among(q, a)
  <2>1. family = ToSet(q)
    BY DEF PressedFamily
  <2> HIDE DEF q, family
  <2> QED BY <1>1, <2>1 DEF ToSet, Among
<1>4. family \subseteq M
  <2> HIDE DEF q, family, M
  <2> QED BY <1>1, <1>3 DEF Among
<1> HIDE DEF c, q, family, t, M
<1>5. ASSUME NEW a \in M \ family, NEW b \in family
      PROVE  Below(t, a, b) /\ Position(t, a) < Position(t, b)
  <2>1. PICK i \in 1..Len(q) : q[i] = b
    BY <1>3 DEF Among
  <2>2. Below(t, a, b)
    BY <1>1, <1>3, <2>1 DEF Lifted
  <2> QED BY <1>1, <1>4, <2>2, BelowIs
<1>6. ASSUME NEW a \in M \ family, NEW b \in M \ family, Position(order, a) < Position(order, b)
      PROVE  Position(t, a) < Position(t, b)
  <2>1. Below(order, a, b)
    BY <1>2, <1>6, BelowIs
  <2>2. Below(t, a, b)
    BY <1>1, <1>3, <2>1 DEF Lifted
  <2> QED BY <1>1, <2>2, BelowIs
<1>7. ASSUME NEW a \in M \ family, ClientType[a] = "App"
      PROVE  LowestOf(t, {"App"}) \in M \ family
  <2>1. LowestOf(t, {"App"}) \in M /\ ~Below(t, a, LowestOf(t, {"App"}))
    BY <1>1, <1>7, NoneLower
  <2> QED BY <1>5, <2>1
<1>8. c \in family
  BY <1>1, <1>3
<1> QED BY <1>5, <1>6, <1>7, <1>8 DEF c, family, t, M

\* Each press of MB_CMD_NEXT or MB_CMD_PREV outside desktop mode brings up the whole family
\* of the application it takes (mb_wm_cycle_apps, with the activation it ends in).
THEOREM PressesRaiseFamilies == Spec => [][PressRaisesFamily]_vars
BY InvHolds, PressesRaise, PTL

-----------------------------------------------------------------------------
(* Where parents come from.                                                  *)

\* No client stands for what a window may name otherwise.
Distinct == {None, Gone} \cap Clients = {}

\* What a window is transient for is what it once named, or nothing or what is gone, and
\* so is the parent of its client.
Naming(x, l) ==
  /\ DOMAIN x = Clients
  /\ \A c \in Clients : x[c] \in TransientTargets[c] \cup {None, Gone}
  /\ \A c \in Clients : l.parent[c] \in (TransientTargets[c] \cap Clients) \cup {NULL}

Named == Naming(xfor, links)

LEMMA MapNames ==
  ASSUME Distinct, IInv, Named, NEW c \in Clients, NEW x \in TransientTargets[c], NEW h,
         Map(c, x, h)
  PROVE  Named'
<1> DEFINE M == Managed
           p == ParentOnMap(c, x)
           l == LinksOnMap(c, x)
<1>1. /\ order \in Orders(M) /\ clients \in Orders(M) /\ M \in SUBSET Clients
      /\ links \in LinkSet /\ Linked(links, M)
  BY OrdersFinite DEF IInv
<1>2. c \notin M /\ links' = l /\ xfor' = [xfor EXCEPT ![c] = x]
  BY DEF Map
<1>3. l \in Adopting(M \cup {c}, c, p)
  BY <1>1, <1>2, LinksOnMapIs
<1>4. p \in {x, NULL} /\ (p # NULL => p \in M)
  BY DEF ParentOnMap
<1> HIDE DEF M, p, l
<1>5. /\ DOMAIN xfor = Clients
      /\ \A e \in Clients : /\ xfor[e] \in TransientTargets[e] \cup {None, Gone}
                            /\ links.parent[e] \in (TransientTargets[e] \cap Clients) \cup {NULL}
  BY DEF Named, Naming
<1>6. /\ l.parent[c] = p
      /\ \A e \in Clients :
           e # c => l.parent[e] = links.parent[e] \/ (l.parent[e] = c /\ xfor[e] = c)
  BY <1>3 DEF Adopting
<1>7. \A e \in Clients : l.parent[e] \in (TransientTargets[e] \cap Clients) \cup {NULL}
  BY <1>1, <1>4, <1>5, <1>6 DEF Distinct
<1>8. /\ DOMAIN xfor' = Clients
      /\ \A e \in Clients : xfor'[e] \in TransientTargets[e] \cup {None, Gone}
  BY <1>2, <1>5
<1> QED BY <1>2, <1>7, <1>8 DEF Named, Naming

\* Parents are only lost when a client goes.
LEMMA GoneNames ==
  ASSUME IInv, Named, NEW c \in Clients, Withdraw(c) \/ Destroy(c)
  PROVE  Named'
<1>1. Managed \in SUBSET Clients /\ Linked(links, Managed)
  BY OrdersFinite DEF IInv
<1>2. PICK l : /\ Linked(l, Managed) /\ Unmanage(c, l)
               /\ \A e \in Clients : l.parent[e] \in {links.parent[e], NULL}
  <2>1. CASE Withdraw(c)
    <3> DEFINE o == Orphan(links, c)
    <3>1. /\ Linked(o, Managed) /\ Unmanage(c, o)
          /\ \A e \in Clients : o.parent[e] = links.parent[e] \/ o.parent[e] = NULL
      BY <1>1, <2>1, OrphanIs DEF Withdraw
    <3> HIDE DEF o
    <3> QED BY <3>1
  <2>2. CASE Destroy(c)
    BY <1>1, <2>2 DEF Destroy
  <2> QED BY <2>1, <2>2
<1>3. \A e \in Clients : links'.parent[e] \in {links.parent[e], NULL}
  <2>1. links' = Orphan(Detransitise(l, c), c)
    BY <1>2 DEF Unmanage
  <2>2. Parted(Orphan(Detransitise(l, c), c), l, c, Managed)
    BY <1>1, <1>2, UnlinkedIs
  <2> QED BY <1>2, <2>1, <2>2 DEF Parted
<1>4. /\ DOMAIN xfor' = Clients
      /\ \A e \in Clients : xfor'[e] \in {xfor[e], None, Gone}
  BY DEF Withdraw, Destroy
<1> QED BY <1>3, <1>4 DEF Named, Naming

\* Whoever does not come or go keeps the parent.
LEMMA SameNames ==
  ASSUME Named, links' = links,
         xfor' = xfor \/ \E c \in Clients : SetTransientFor(c, xfor'[c]) /\
                                           xfor'[c] \in TransientTargets[c]
  PROVE  Named'
<1>1. /\ DOMAIN xfor' = Clients
      /\ \A e \in Clients : xfor'[e] \in TransientTargets[e] \cup {None, Gone}
  BY DEF SetTransientFor, Named, Naming
<1> QED BY <1>1 DEF Named, Naming

LEMMA NamedNext ==
  ASSUME Distinct, IInv, Named, [Next]_vars
  PROVE  Named'
<1>1. ASSUME NEW c \in Clients, NEW x \in TransientTargets[c], NEW h \in HildonLayers[c],
             Map(c, x, h)
      PROVE  Named'
  BY <1>1, MapNames
<1>2. ASSUME NEW c \in Clients, Withdraw(c) \/ Destroy(c) PROVE Named'
  BY <1>2, GoneNames
<1>3. ASSUME NEW c \in Clients, NEW x \in TransientTargets[c], SetTransientFor(c, x) PROVE Named'
  <2>1. links' = links /\ xfor' = [xfor EXCEPT ![c] = x] /\ DOMAIN xfor = Clients
    BY <1>3 DEF SetTransientFor, Named, Naming
  <2>2. xfor'[c] = x
    BY <2>1
  <2> QED BY <1>3, <2>1, <2>2, SameNames
<1>4. ASSUME NEW c \in Clients, NEW h \in HildonLayers[c], SetHildon(c, h) PROVE Named'
  BY <1>4, SameNames DEF SetHildon
<1>5. ASSUME NEW c, NEW s, Activated(c, s) PROVE Named'
  BY <1>5, SameNames DEF Activated
<1>6. CASE Sync \/ UNCHANGED vars
  BY <1>6, SameNames DEF Sync, vars
<1>7. ASSUME NEW c, Activate(c) PROVE Named'
  BY <1>5, <1>7 DEF Activate
<1>8. CASE LeaveDesktop
  BY <1>5, <1>8 DEF LeaveDesktop
<1>9. CASE ToggleDesktop
  BY <1>5, <1>8, <1>9 DEF ToggleDesktop
<1>10. CASE CycleApps
  BY <1>5, <1>8, <1>10 DEF CycleApps, Cycle
<1> QED BY <1>1, <1>2, <1>3, <1>4, <1>6, <1>7, <1>9, <1>10 DEF Next

LEMMA InitNames == Init => Named
<1> SUFFICES ASSUME Init PROVE Named
  OBVIOUS
<1>1. xfor = [c \in Clients |-> None] /\ links = Unlinked
  BY DEF Init
<1>2. \A c \in Clients : links.parent[c] = NULL
  BY <1>1 DEF Unlinked
<1> QED BY <1>1, <1>2 DEF Named, Naming

\* The parent of a client is one that the client's own window has named: nothing is ever
\* made transient for a client that it did not ask for.
THEOREM ParentsWereNamed == ASSUME Distinct PROVE Spec => []Named
<1>1. IInv /\ Named /\ [Next]_vars => Named'
  BY NamedNext
<1> QED BY <1>1, InvHolds, InitNames, PTL DEF Spec

-----------------------------------------------------------------------------
(* Types.                                                                    *)

\* A window is of one of the client types, its WM_TRANSIENT_FOR names a client,
\* nothing or what is gone, and its _HILDON_STACKING_LAYER is in the range that
\* core/mb-wm-client-window.h gives, which the code does not check.
Known ==
  \A c \in Clients :
    /\ ClientType[c] \in {"App", "Menu", "Override", "Input", "Panel", "Desktop", "Dialog"}
    /\ TransientTargets[c] \subseteq Clients \cup {None, Gone}
    /\ HildonLayers[c] \subseteq 0..10

TInv ==
  /\ xfor \in [Clients -> Clients \cup {None, Gone}]
  /\ hildon \in [Clients -> 0..10]
  /\ \A c \in Clients : hildon[c] \in HildonLayers[c] \cup {0}
  /\ layer \in [Clients -> 0..(LayerCount - 1)]
  /\ showing \in BOOLEAN
  /\ dirty \in BOOLEAN

\* A layer is set.
LEMMA LayersAre ==
  ASSUME NEW h \in 0..10
  PROVE  /\ \A d \in 0..(LayerCount - 1) : HildonOr(h, d) \in 0..(LayerCount - 1)
         /\ \A c \in Clients : \A x :
              Known => InitialLayer(c, x, h) \in 0..(LayerCount - 1)
<1>1. \A d \in 0..(LayerCount - 1) : HildonOr(h, d) \in 0..(LayerCount - 1)
  BY DEF HildonOr, LayerCount, Top
<1>2. {Unknown, Bottom, BottomMid, Mid, TopMid, Top} \subseteq 0..(LayerCount - 1)
  BY DEF Unknown, Bottom, BottomMid, Mid, TopMid, Top, LayerCount
<1>3. ASSUME NEW c \in Clients, NEW x, Known
      PROVE  InitialLayer(c, x, h) \in 0..(LayerCount - 1)
  <2>1. ClientType[c] \in {"App", "Menu", "Override", "Input", "Panel", "Desktop", "Dialog"}
    BY <1>3 DEF Known
  <2> DEFINE L == 0..(LayerCount - 1)
  <2>2. /\ HildonOr(h, Mid) \in L /\ HildonOr(h, Top) \in L /\ HildonOr(h, Unknown) \in L
        /\ Unknown \in L /\ TopMid \in L /\ BottomMid \in L /\ Bottom \in L
    BY <1>1, <1>2
  <2> HIDE DEF L
  <2> QED BY <2>1, <2>2 DEF InitialLayer, L
<1> QED BY <1>1, <1>3

LEMMA ActivatedTypes ==
  ASSUME TInv, NEW c, NEW s, Activated(c, s)
  PROVE  TInv'
<1>1. UNCHANGED <<xfor, hildon, layer>> /\ showing' \in BOOLEAN /\ dirty' \in BOOLEAN
  <2>1. ShowsDesktop(c) \in BOOLEAN
    BY DEF ShowsDesktop
  <2> QED BY <2>1 DEF Activated, TInv
<1> QED BY <1>1 DEF TInv

LEMMA NextTypes ==
  ASSUME Known, TInv, [Next]_vars
  PROVE  TInv'
<1> DEFINE X == Clients \cup {None, Gone}
           L == 0..(LayerCount - 1)
<1>1. /\ xfor \in [Clients -> X] /\ hildon \in [Clients -> 0..10]
      /\ \A c \in Clients : hildon[c] \in HildonLayers[c] \cup {0}
      /\ layer \in [Clients -> L] /\ showing \in BOOLEAN /\ dirty \in BOOLEAN
  BY DEF TInv
<1>2. \A c \in Clients : TransientTargets[c] \subseteq X /\ HildonLayers[c] \subseteq 0..10
  BY DEF Known
<1>3. 0 \in L /\ None \in X /\ Gone \in X /\ \A c \in Clients : c \in X
  BY DEF LayerCount
<1>4. \A h \in 0..10 : /\ \A d \in L : HildonOr(h, d) \in L
                       /\ \A c \in Clients : \A x : InitialLayer(c, x, h) \in L
  BY LayersAre
<1> HIDE DEF X, L
<1>5. ASSUME NEW c \in Clients, NEW x \in TransientTargets[c], NEW h \in HildonLayers[c], Map(c, x, h)
      PROVE  TInv'
  <2>1. x \in X /\ h \in 0..10
    BY <1>2
  <2>2. /\ xfor' = [xfor EXCEPT ![c] = x] /\ hildon' = [hildon EXCEPT ![c] = h]
        /\ layer' = [k \in Clients |-> IF k = c \/ (k \in Managed /\ Adopts(c, k))
                                       THEN InitialLayer(c, x, h) ELSE layer[k]]
        /\ dirty' = TRUE /\ showing' = showing
    BY <1>5 DEF Map
  <2>3. xfor' \in [Clients -> X]
    BY <1>1, <2>1, <2>2
  <2>4. hildon' \in [Clients -> 0..10] /\ \A k \in Clients : hildon'[k] \in HildonLayers[k] \cup {0}
    BY <1>1, <2>1, <2>2
  <2>5. layer' \in [Clients -> L]
    BY <1>1, <1>4, <2>1, <2>2
  <2> QED BY <1>1, <2>2, <2>3, <2>4, <2>5 DEF TInv, X, L
<1>6. ASSUME NEW c \in Clients, NEW l, Unmanage(c, l), xfor' \in [Clients -> X]
      PROVE  TInv'
  <2>1. /\ hildon' = [hildon EXCEPT ![c] = 0] /\ layer' = [layer EXCEPT ![c] = Unknown]
        /\ dirty' = TRUE /\ showing' = showing
    BY <1>6 DEF Unmanage
  <2>2. hildon' \in [Clients -> 0..10] /\ \A k \in Clients : hildon'[k] \in HildonLayers[k] \cup {0}
    BY <1>1, <2>1
  <2>3. layer' \in [Clients -> L]
    BY <1>1, <1>3, <2>1 DEF Unknown
  <2> QED BY <1>1, <1>6, <2>1, <2>2, <2>3 DEF TInv, X, L
<1>7. ASSUME NEW c \in Clients, Withdraw(c) PROVE TInv'
  <2>1. xfor' \in [Clients -> X]
    BY <1>1, <1>3, <1>7 DEF Withdraw
  <2> QED BY <1>6, <1>7, <2>1 DEF Withdraw
<1>8. ASSUME NEW c \in Clients, Destroy(c) PROVE TInv'
  <2>1. xfor' \in [Clients -> X]
    BY <1>1, <1>3, <1>8 DEF Destroy
  <2> QED BY <1>6, <1>8, <2>1 DEF Destroy
<1>9. ASSUME NEW c \in Clients, NEW h \in HildonLayers[c], SetHildon(c, h) PROVE TInv'
  <2>1. /\ hildon' = [hildon EXCEPT ![c] = h] /\ layer' = [layer EXCEPT ![c] = HildonOr(h, @)]
        /\ dirty' = TRUE /\ UNCHANGED <<xfor, showing>>
    BY <1>9 DEF SetHildon
  <2>2. h \in 0..10
    BY <1>2
  <2>3. hildon' \in [Clients -> 0..10] /\ \A k \in Clients : hildon'[k] \in HildonLayers[k] \cup {0}
    BY <1>1, <2>1, <2>2
  <2>4. layer' \in [Clients -> L]
    BY <1>1, <1>4, <2>1, <2>2
  <2> QED BY <1>1, <2>1, <2>3, <2>4 DEF TInv, X, L
<1>10. ASSUME NEW c \in Clients, NEW x \in TransientTargets[c], SetTransientFor(c, x) PROVE TInv'
  <2>1. xfor' = [xfor EXCEPT ![c] = x] /\ UNCHANGED <<hildon, layer, showing, dirty>>
    BY <1>10 DEF SetTransientFor
  <2>2. xfor' \in [Clients -> X]
    BY <1>1, <1>2, <2>1
  <2> QED BY <1>1, <2>1, <2>2 DEF TInv, X, L
<1>11. ASSUME NEW c \in Clients, Activate(c) PROVE TInv'
  BY <1>11, ActivatedTypes DEF Activate
<1>12. ASSUME LeaveDesktop PROVE TInv'
  BY <1>12, ActivatedTypes DEF LeaveDesktop
<1>13. CASE ToggleDesktop
  BY <1>12, <1>13, ActivatedTypes DEF ToggleDesktop
<1>14. ASSUME NEW reverse \in BOOLEAN, Cycle(reverse) PROVE TInv'
  BY <1>14, ActivatedTypes DEF Cycle
<1>15. CASE CycleApps
  BY <1>12, <1>14, <1>15 DEF CycleApps
<1>16. CASE Sync
  BY <1>1, <1>16 DEF Sync, TInv, X, L
<1>17. CASE UNCHANGED vars
  BY <1>1, <1>17 DEF vars, TInv, X, L
<1> QED BY <1>5, <1>7, <1>8, <1>9, <1>10, <1>11, <1>13, <1>15, <1>16, <1>17 DEF Next

\* The state keeps its types for every cast of such clients, the arithmetic on
\* stacking layers included.
THEOREM TypesHold == ASSUME Known PROVE Spec => []TypeOK
<1>1. Init => TInv
  <2> SUFFICES ASSUME Init PROVE TInv
    OBVIOUS
  <2>1. 0 \in 0..(LayerCount - 1) /\ 0 \in 0..10
    BY DEF LayerCount
  <2>2. /\ xfor = [c \in Clients |-> None] /\ hildon = [c \in Clients |-> 0]
        /\ layer = [c \in Clients |-> 0] /\ showing = FALSE /\ dirty = FALSE
    BY DEF Init, Unknown
  <2> QED BY <2>1, <2>2 DEF TInv
<1>2. TInv /\ [Next]_vars => TInv'
  BY NextTypes
<1>3. IInv /\ TInv => TypeOK
  <2> SUFFICES ASSUME IInv, TInv PROVE TypeOK
    OBVIOUS
  <2>1. /\ order \in Orders(Managed) /\ clients \in Orders(Managed) /\ Linked(links, Managed)
        /\ desktop \in Managed \cup {NULL}
    BY DEF IInv
  <2>2. IsOrder(order) /\ IsOrder(clients)
    BY <2>1 DEF Orders
  <2>3. desktop \in Clients \cup {NULL}
    BY <2>1, OrdersFinite
  <2>4. /\ links.parent \in [Clients -> Clients \cup {NULL}]
        /\ links.kids \in [Clients -> Seq(Clients)]
    BY <2>1 DEF Linked
  <2> QED BY <2>2, <2>3, <2>4 DEF TInv, TypeOK
<1>4. Spec => []TInv
  BY <1>1, <1>2, PTL DEF Spec
<1>5. Spec => []IInv
  BY InvHolds
<1> QED BY <1>3, <1>4, <1>5, PTL
=============================================================================
