-------------------------- MODULE DecorationsProofs --------------------------
(***************************************************************************)
(* What loops of handlers took they give back (core/mb-wm-decor.c), for    *)
(* every number of clients, of presses, of changes of the theme and of     *)
(* frames that are open at a time.                                         *)
(*                                                                         *)
(* The invariant has four parts.  Objects: a client that is not freed has  *)
(* one decor, which is not freed either, and is connected to the signal of *)
(* the theme's change once; a freed decor is cleared; at most one handler  *)
(* waits for the release of the pointer.  Shape and Points: calls of       *)
(* handlers and loops in handlers take turns, and loops are for decors     *)
(* that were made.  Books: each loop of a button holds a reference to its  *)
(* client, a decor is drawn as pressed for such a loop, and until a theme  *)
(* is set the decor of the loop is still that of the client.  Pointed and  *)
(* Grabs: the events of the pointer on the way are a press, motions, a     *)
(* release, again and again, and the handler for the release belongs to    *)
(* the innermost loop; a loop that runs the main loop while it listens has *)
(* the release still before it.  That is why no second press is handled    *)
(* in the loop of the first, and why the loop that is told of the release  *)
(* is the one that took the handler.                                       *)
(***************************************************************************)
EXTENDS Decorations, FiniteSetTheorems, WellFoundedInduction, TLAPS

ClientRecs == [refs : Nat, managed : BOOLEAN, onPress : BOOLEAN, decor : Nat]

DecorRecs ==
  [client : Clients, refs : {0, 1}, realized : BOOLEAN, releaseId : Nat, pressed : BOOLEAN]

Listeners == [id : Nat \ {0}, decor : Nat \ {0}]

States ==
  [client : [Clients -> ClientRecs], decor : Seq(DecorRecs), release : SUBSET Listeners,
   themed : Seq(Clients)]

\* A client that is not freed has a decor, which is its own, and hears of themes.
Owns(s, c) ==
  /\ s.client[c].refs > 0 <=> s.client[c].decor # None
  /\ s.client[c].decor # None =>
       /\ s.client[c].decor \in 1..Len(s.decor)
       /\ s.decor[s.client[c].decor].client = c
       /\ s.decor[s.client[c].decor].refs = 1
  /\ s.client[c].refs > 0 <=> \E i \in 1..Len(s.themed) : s.themed[i] = c

\* A decor is that of its client, or freed and cleared.
Owned(s, d) ==
  IF s.decor[d].refs = 0
  THEN ~s.decor[d].realized /\ ~s.decor[d].pressed /\ s.decor[d].releaseId = None
  ELSE s.client[s.decor[d].client].decor = d

\* The release is listened to once at most, for a decor that knows of it.
Heard(s) ==
  /\ \A h \in s.release : h.decor \in 1..Len(s.decor) /\ s.decor[h.decor].releaseId = h.id
  /\ \A g, h \in s.release : g = h

Distinct(b) == \A i, j \in 1..Len(b) : b[i] = b[j] => i = j

Objects(s) ==
  /\ \A c \in Clients : Owns(s, c)
  /\ \A d \in 1..Len(s.decor) : Owned(s, d)
  /\ Heard(s)
  /\ Distinct(s.themed)

\* What no operation on the objects takes back: decors stay with their clients,
\* and none is pressed or listens to the release that did not before.
Onward(s, t) ==
  /\ Len(s.decor) <= Len(t.decor)
  /\ \A d \in 1..Len(s.decor) : /\ t.decor[d].client = s.decor[d].client
                                /\ t.decor[d].pressed => s.decor[d].pressed
  /\ \A d \in 1..Len(t.decor) : d > Len(s.decor) => ~t.decor[d].pressed
  /\ t.release \subseteq s.release
  /\ \A c \in Clients : t.client[c].onPress = s.client[c].onPress

-----------------------------------------------------------------------------
\* A nonempty set of natural numbers has a least element.
LEMMA LeastNumber ==
  ASSUME NEW T \in SUBSET Nat, T # {}
  PROVE  \E m \in T : \A k \in T : m <= k
<1> DEFINE R == OpToRel(<, Nat)
<1>1. PICK m \in T : \A k \in T : <<k, m>> \notin R
  BY WFMin, NatLessThanWellFounded, Zenon
<1>2. ASSUME NEW k \in Nat, NEW j \in Nat, k < j
      PROVE  <<k, j>> \in R
  BY <1>2 DEF OpToRel
<1>3. \A k \in T : ~(k < m)
  BY <1>1, <1>2
<1>4. \A k \in T : m <= k
  BY <1>3
<1> QED BY <1>4

\* A sequence without its k-th element.
LEMMA RemoveAtIs ==
  ASSUME NEW S, NEW q \in Seq(S), NEW k \in 1..Len(q)
  PROVE  /\ RemoveAt(q, k) \in Seq(S)
         /\ Len(RemoveAt(q, k)) = Len(q) - 1
         /\ \A i \in 1..(Len(q) - 1) :
              RemoveAt(q, k)[i] = IF i < k THEN q[i] ELSE q[i + 1]
<1> DEFINE a == SubSeq(q, 1, k - 1)
           b == SubSeq(q, k + 1, Len(q))
<1>1. Len(q) \in Nat /\ k \in Nat /\ k >= 1 /\ k <= Len(q)
  OBVIOUS
<1>2. a \in Seq(S) /\ Len(a) = k - 1 /\ \A i \in 1..(k - 1) : a[i] = q[i]
  BY <1>1
<1>3. b \in Seq(S) /\ Len(b) = Len(q) - k /\ \A i \in 1..(Len(q) - k) : b[i] = q[k + i]
  BY <1>1
<1> HIDE DEF a, b
<1>4. a \o b \in Seq(S) /\ Len(a \o b) = Len(q) - 1
  <2>1. a \o b \in Seq(S) /\ Len(a \o b) = Len(a) + Len(b)
    <3>1. a \in Seq(S) /\ b \in Seq(S)
      BY <1>2, <1>3
    <3> QED BY <3>1
  <2> QED BY <1>1, <1>2, <1>3, <2>1
<1>5. ASSUME NEW i \in 1..(Len(q) - 1)
      PROVE  (a \o b)[i] = IF i < k THEN q[i] ELSE q[i + 1]
  <2>1. (a \o b)[i] = IF i <= Len(a) THEN a[i] ELSE b[i - Len(a)]
    BY <1>1, <1>2, <1>3
  <2>2. CASE i < k
    BY <1>1, <1>2, <2>1, <2>2
  <2>3. CASE i >= k
    <3>1. i - (k - 1) \in 1..(Len(q) - k) /\ k + (i - (k - 1)) = i + 1 /\ ~(i <= k - 1)
      BY <1>1, <2>3
    <3> QED BY <1>2, <1>3, <2>1, <2>3, <3>1
  <2>4. i < k \/ i >= k
    BY <1>1
  <2> QED BY <2>2, <2>3, <2>4
<1>6. RemoveAt(q, k) = a \o b
  BY DEF RemoveAt, a, b
<1> QED BY <1>4, <1>5, <1>6

\* The callback of c is gone, the others are left.
LEMMA DisconnectedIs ==
  ASSUME NEW b \in Seq(Clients), Distinct(b), NEW c, \E i \in 1..Len(b) : b[i] = c
  PROVE  /\ Disconnected(b, c) \in Seq(Clients)
         /\ Distinct(Disconnected(b, c))
         /\ \A e \in Clients :
              (\E i \in 1..Len(Disconnected(b, c)) : Disconnected(b, c)[i] = e)
                <=> e # c /\ \E i \in 1..Len(b) : b[i] = e
<1> DEFINE k == CHOOSE i \in DOMAIN b : b[i] = c
           r == RemoveAt(b, k)
<1>0. Disconnected(b, c) = r
  <2>1. \E i \in DOMAIN b : b[i] = c
    OBVIOUS
  <2> QED BY <2>1 DEF Disconnected
<1>1. k \in 1..Len(b) /\ b[k] = c
  OBVIOUS
<1> HIDE DEF k
<1>2. /\ r \in Seq(Clients) /\ Len(r) = Len(b) - 1
      /\ \A i \in 1..(Len(b) - 1) : r[i] = IF i < k THEN b[i] ELSE b[i + 1]
  BY <1>1, RemoveAtIs
<1> HIDE DEF r
<1>3. \A i \in 1..Len(r) : /\ (IF i < k THEN i ELSE i + 1) \in 1..Len(b)
                           /\ (IF i < k THEN i ELSE i + 1) # k
                           /\ r[i] = b[IF i < k THEN i ELSE i + 1]
  BY <1>1, <1>2
<1>4. Distinct(r)
  <2> SUFFICES ASSUME NEW i \in 1..Len(r), NEW j \in 1..Len(r), r[i] = r[j]
               PROVE  i = j
    BY DEF Distinct
  <2>1. (IF i < k THEN i ELSE i + 1) = (IF j < k THEN j ELSE j + 1)
    BY <1>3 DEF Distinct
  <2> QED BY <1>1, <1>2, <2>1
<1>5. ASSUME NEW i \in 1..Len(b), b[i] # c
      PROVE  \E j \in 1..Len(r) : r[j] = b[i]
  <2>1. i # k
    BY <1>1, <1>5
  <2>2. CASE i < k
    <3>1. i \in 1..Len(r) /\ r[i] = b[i]
      BY <1>1, <1>2, <2>2
    <3> QED BY <3>1
  <2>3. CASE i > k
    <3>1. i - 1 \in 1..Len(r) /\ ~(i - 1 < k) /\ (i - 1) + 1 = i
      BY <1>1, <1>2, <2>3
    <3>2. r[i - 1] = b[i]
      BY <1>3, <3>1
    <3> QED BY <3>1, <3>2
  <2> QED BY <1>1, <2>1, <2>2, <2>3
<1>6. \A i \in 1..Len(r) : r[i] # c
  BY <1>1, <1>3 DEF Distinct
<1>7. \A e \in Clients : (\E i \in 1..Len(r) : r[i] = e) <=> e # c /\ \E i \in 1..Len(b) : b[i] = e
  BY <1>3, <1>5, <1>6
<1> QED BY <1>0, <1>2, <1>4, <1>7

-----------------------------------------------------------------------------
(* The operations on objects.                                                *)

Cleared(c) == [NewDecor(c) EXCEPT !.refs = 0]

\* A state is made of its four parts.
LEMMA StateIs ==
  ASSUME NEW s \in States
  PROVE  /\ s.client \in [Clients -> ClientRecs] /\ s.decor \in Seq(DecorRecs)
         /\ s.release \in SUBSET Listeners /\ s.themed \in Seq(Clients)
         /\ \A d \in 1..Len(s.decor) : s.decor[d] \in DecorRecs /\ s.decor[d].client \in Clients
         /\ \A c \in Clients : s.client[c] \in ClientRecs
<1>1. /\ s.client \in [Clients -> ClientRecs] /\ s.decor \in Seq(DecorRecs)
      /\ s.release \in SUBSET Listeners /\ s.themed \in Seq(Clients)
  BY DEF States
<1>2. \A d \in 1..Len(s.decor) : s.decor[d] \in DecorRecs
  BY <1>1
<1>3. \A d \in 1..Len(s.decor) : s.decor[d].client \in Clients
  BY <1>2 DEF DecorRecs
<1> QED BY <1>1, <1>2, <1>3

\* The last reference to a decor is dropped.
LEMMA DecorUnrefIs ==
  ASSUME NEW s \in States, NEW d \in 1..Len(s.decor), s.decor[d].refs = 1
  PROVE  LET t == DecorUnref(s, d)
         IN  /\ t \in States
             /\ t.client = s.client /\ t.themed = s.themed
             /\ t.decor = [s.decor EXCEPT ![d] = Cleared(s.decor[d].client)]
             /\ Len(t.decor) = Len(s.decor)
             /\ t.release = {h \in s.release : h.id # s.decor[d].releaseId}
<1> DEFINE r == {h \in s.release : h.id # s.decor[d].releaseId}
           q == [s.decor EXCEPT ![d] = Cleared(s.decor[d].client)]
           t == [s EXCEPT !.decor = q, !.release = r]
<1>1. DecorUnref(s, d) = t
  BY DEF DecorUnref, Cleared
<1>2. Cleared(s.decor[d].client) \in DecorRecs
  BY StateIs DEF Cleared, NewDecor, DecorRecs, None
<1>3. q \in Seq(DecorRecs) /\ Len(q) = Len(s.decor)
  BY <1>2, StateIs
<1>4. r \in SUBSET Listeners
  BY StateIs
<1> HIDE DEF q, r
<1>5. t \in States
  BY <1>3, <1>4 DEF States
<1>6. t.client = s.client /\ t.themed = s.themed /\ t.decor = q /\ t.release = r
  BY DEF States
<1> QED BY <1>1, <1>3, <1>5, <1>6 DEF q, r

\* A client gets a decor.
LEMMA WithDecorIs ==
  ASSUME NEW s \in States, NEW c \in Clients
  PROVE  LET t == WithDecor(s, c)
         IN  /\ t \in States
             /\ t.release = s.release /\ t.themed = s.themed
             /\ t.decor = Append(s.decor, NewDecor(c))
             /\ t.client = [s.client EXCEPT ![c] = [@ EXCEPT !.decor = Len(s.decor) + 1]]
<1> DEFINE q == Append(s.decor, NewDecor(c))
           p == [s.client EXCEPT ![c] = [@ EXCEPT !.decor = Len(s.decor) + 1]]
           t == [s EXCEPT !.decor = q, !.client = p]
<1>1. WithDecor(s, c) = t
  BY DEF WithDecor
<1>2. NewDecor(c) \in DecorRecs
  BY DEF NewDecor, DecorRecs, None
<1>3. q \in Seq(DecorRecs)
  BY <1>2, StateIs
<1>4. p \in [Clients -> ClientRecs]
  <2>1. \A k \in ClientRecs : \A n \in Nat : [k EXCEPT !.decor = n] \in ClientRecs
    BY DEF ClientRecs
  <2>2. Len(s.decor) + 1 \in Nat
    BY StateIs
  <2>3. [s.client[c] EXCEPT !.decor = Len(s.decor) + 1] \in ClientRecs
    BY <2>1, <2>2, StateIs
  <2> QED BY <2>3, StateIs
<1> HIDE DEF q, p
<1>5. t \in States
  BY <1>3, <1>4 DEF States
<1>6. t.release = s.release /\ t.themed = s.themed /\ t.decor = q /\ t.client = p
  BY DEF States
<1> QED BY <1>1, <1>5, <1>6 DEF q, p

\* A new theme gives a client another decor, and clears the one it had.
LEMMA ThemeChangeKeeps ==
  ASSUME NEW s \in States, Objects(s), NEW c \in Clients, s.client[c].refs > 0
  PROVE  LET t == ThemeChange(s, c)
         IN  /\ t \in States /\ Objects(t) /\ Onward(s, t)
             /\ t.themed = s.themed
             /\ \A e \in Clients : /\ t.client[e].refs = s.client[e].refs
                                   /\ t.client[e].managed = s.client[e].managed
<1> DEFINE d == s.client[c].decor
           n == Len(s.decor)
           u == DecorUnref(s, d)
           t == ThemeChange(s, c)
<1>1. d \in 1..n /\ s.decor[d].client = c /\ s.decor[d].refs = 1 /\ d # None /\ n \in Nat
  BY StateIs DEF Objects, Owns
<1>2. /\ u \in States /\ u.client = s.client /\ u.themed = s.themed
      /\ u.decor = [s.decor EXCEPT ![d] = Cleared(c)] /\ Len(u.decor) = n
      /\ u.release = {h \in s.release : h.id # s.decor[d].releaseId}
  BY <1>1, DecorUnrefIs
<1>0. t = WithDecor(u, c)
  BY DEF ThemeChange
<1> HIDE DEF t, u
<1>3. /\ t \in States
      /\ t.release = u.release /\ t.themed = u.themed
      /\ t.decor = Append(u.decor, NewDecor(c))
      /\ t.client = [s.client EXCEPT ![c] = [@ EXCEPT !.decor = n + 1]]
  <2>1. /\ t \in States
        /\ t.release = u.release /\ t.themed = u.themed
        /\ t.decor = Append(u.decor, NewDecor(c))
        /\ t.client = [u.client EXCEPT ![c] = [@ EXCEPT !.decor = Len(u.decor) + 1]]
    BY <1>0, <1>2, WithDecorIs
  <2>2. u.client = s.client /\ Len(u.decor) = n
    BY <1>2
  <2> HIDE DEF n
  <2> QED BY <2>1, <2>2
<1>4. /\ Len(t.decor) = n + 1
      /\ \A i \in 1..n : t.decor[i] = IF i = d THEN Cleared(c) ELSE s.decor[i]
      /\ t.decor[n + 1] = NewDecor(c)
  <2>1. s.decor \in Seq(DecorRecs) /\ u.decor \in Seq(DecorRecs)
    BY <1>2, StateIs
  <2>2. Len(t.decor) = n + 1 /\ t.decor[n + 1] = NewDecor(c) /\ \A i \in 1..n : t.decor[i] = u.decor[i]
    BY <1>2, <1>3, <2>1
  <2>3. \A i \in 1..n : u.decor[i] = IF i = d THEN Cleared(c) ELSE s.decor[i]
    BY <1>1, <1>2, <2>1
  <2> QED BY <2>2, <2>3
<1>5. ASSUME NEW e \in Clients
      PROVE  /\ t.client[e].refs = s.client[e].refs
             /\ t.client[e].managed = s.client[e].managed
             /\ t.client[e].onPress = s.client[e].onPress
             /\ t.client[e].decor = IF e = c THEN n + 1 ELSE s.client[e].decor
  <2>1. s.client \in [Clients -> ClientRecs] /\ s.client[e] \in ClientRecs
    BY StateIs
  <2>2. t.client[e] = IF e = c THEN [s.client[c] EXCEPT !.decor = n + 1] ELSE s.client[e]
    BY <1>3, <2>1
  <2> QED BY <2>1, <2>2 DEF ClientRecs
<1>6. /\ Cleared(c).client = c /\ Cleared(c).refs = 0 /\ ~Cleared(c).realized
      /\ ~Cleared(c).pressed /\ Cleared(c).releaseId = None
      /\ NewDecor(c).client = c /\ NewDecor(c).refs = 1 /\ ~NewDecor(c).pressed
  BY DEF Cleared, NewDecor
<1>7. ASSUME NEW e \in Clients PROVE Owns(t, e)
  <2>1. Owns(s, e)
    BY DEF Objects
  <2>2. t.themed = s.themed
    BY <1>2, <1>3
  <2>3. CASE e = c
    <3>1. /\ t.client[e].decor = n + 1 /\ t.client[e].refs = s.client[e].refs
          /\ s.client[e].refs > 0 /\ n \in Nat
      BY <1>1, <1>5, <2>3
    <3>2. n + 1 \in 1..Len(t.decor) /\ n + 1 # None
      BY <1>4, <3>1 DEF None
    <3>3. t.decor[n + 1].client = e /\ t.decor[n + 1].refs = 1
      BY <1>4, <1>6, <2>3
    <3>4. \E i \in 1..Len(t.themed) : t.themed[i] = e
      BY <2>1, <2>2, <3>1 DEF Owns
    <3> QED BY <3>1, <3>2, <3>3, <3>4 DEF Owns
  <2>4. CASE e # c
    <3>1. s.client[e].decor # None => s.client[e].decor # d
      BY <1>1, <2>1, <2>4 DEF Owns
    <3>2. t.client[e].refs = s.client[e].refs /\ t.client[e].decor = s.client[e].decor
      BY <1>5, <2>4
    <3>3. ASSUME s.client[e].decor # None
          PROVE  /\ s.client[e].decor \in 1..Len(t.decor)
                 /\ t.decor[s.client[e].decor] = s.decor[s.client[e].decor]
      <4>1. n \in Nat /\ Len(t.decor) = n + 1
        BY <1>1, <1>4
      <4>2. s.client[e].decor \in 1..n /\ s.client[e].decor # d
        BY <2>1, <3>1, <3>3 DEF Owns
      <4>3. t.decor[s.client[e].decor] = s.decor[s.client[e].decor]
        BY <1>4, <4>2
      <4> QED BY <4>1, <4>2, <4>3
    <3> QED BY <2>1, <2>2, <3>2, <3>3 DEF Owns
  <2> QED BY <2>3, <2>4
<1>8. ASSUME NEW i \in 1..Len(t.decor) PROVE Owned(t, i)
  <2>1. CASE i = d
    BY <1>1, <1>4, <1>6, <2>1 DEF Owned
  <2>2. CASE i = n + 1
    BY <1>4, <1>5, <1>6, <2>2 DEF Owned
  <2>3. CASE i # d /\ i # n + 1
    <3>1. i \in 1..n /\ t.decor[i] = s.decor[i]
      BY <1>1, <1>4, <2>3
    <3>2. Owned(s, i) /\ s.decor[i].client \in Clients
      BY <3>1, StateIs DEF Objects
    <3>3. s.decor[i].refs # 0 => s.decor[i].client # c
      BY <1>1, <2>3, <3>2 DEF Owned
    <3> QED BY <1>5, <3>1, <3>2, <3>3 DEF Owned
  <2> QED BY <2>1, <2>2, <2>3
<1>9. Heard(t)
  <2>1. t.release \subseteq s.release /\ \A h \in t.release : h.id # s.decor[d].releaseId
    BY <1>2, <1>3
  <2>2. Heard(s)
    BY DEF Objects
  <2>3. ASSUME NEW h \in t.release
        PROVE  h.decor \in 1..Len(t.decor) /\ t.decor[h.decor].releaseId = h.id
    <3>1. h.decor \in 1..n /\ s.decor[h.decor].releaseId = h.id /\ h.decor # d
      BY <2>1, <2>2, <2>3 DEF Heard
    <3> QED BY <1>1, <1>4, <3>1
  <2> QED BY <2>1, <2>2, <2>3 DEF Heard
<1>10. Onward(s, t)
  <2>1. \A i \in 1..n : t.decor[i].client = s.decor[i].client /\ (t.decor[i].pressed => s.decor[i].pressed)
    BY <1>1, <1>4, <1>6
  <2>2. \A i \in 1..Len(t.decor) : i > n => ~t.decor[i].pressed
    BY <1>1, <1>4, <1>6
  <2>3. t.release \subseteq s.release
    BY <1>2, <1>3
  <2> QED BY <1>1, <1>4, <1>5, <2>1, <2>2, <2>3 DEF Onward
<1>11. t.themed = s.themed /\ Distinct(t.themed)
  BY <1>2, <1>3 DEF Objects
<1>12. Objects(t)
  BY <1>7, <1>8, <1>9, <1>11 DEF Objects
<1> QED BY <1>3, <1>5, <1>10, <1>11, <1>12 DEF t

\* One operation on the objects after the other.
LEMMA OnwardFurther ==
  ASSUME NEW s \in States, NEW t \in States, NEW u \in States, Onward(s, t), Onward(t, u)
  PROVE  Onward(s, u)
<1>1. Len(s.decor) \in Nat /\ Len(t.decor) \in Nat /\ Len(u.decor) \in Nat
  BY StateIs
<1>2. Len(s.decor) <= Len(u.decor)
  BY <1>1 DEF Onward
<1>3. ASSUME NEW d \in 1..Len(s.decor)
      PROVE  u.decor[d].client = s.decor[d].client /\ (u.decor[d].pressed => s.decor[d].pressed)
  <2>1. d \in 1..Len(t.decor)
    BY <1>1 DEF Onward
  <2> QED BY <2>1 DEF Onward
<1>4. ASSUME NEW d \in 1..Len(u.decor), d > Len(s.decor)
      PROVE  ~u.decor[d].pressed
  <2>1. CASE d > Len(t.decor)
    BY <2>1 DEF Onward
  <2>2. CASE d <= Len(t.decor)
    <3>1. d \in 1..Len(t.decor)
      BY <1>1, <2>2
    <3> QED BY <1>4, <3>1 DEF Onward
  <2> QED BY <1>1, <2>1, <2>2
<1> QED BY <1>2, <1>3, <1>4 DEF Onward

\* A change of the theme reaches every client that is not freed.
LEMMA EmittedKeeps ==
  ASSUME NEW s \in States, Objects(s)
  PROVE  LET t == Emitted(s)
         IN  /\ t \in States /\ Objects(t) /\ Onward(s, t)
             /\ \A e \in Clients : /\ t.client[e].refs = s.client[e].refs
                                   /\ t.client[e].managed = s.client[e].managed
<1> DEFINE n == Len(s.themed)
           Fine(t) == /\ Objects(t) /\ Onward(s, t) /\ t.themed = s.themed
                      /\ \A e \in Clients : /\ t.client[e].refs = s.client[e].refs
                                            /\ t.client[e].managed = s.client[e].managed
           G == {t \in States : Fine(t)}
           Step(t, i) == ThemeChange(t, s.themed[i])
           IsRun(g, m) == g[0] = s /\ \A i \in 1..m : g[i] = Step(g[i - 1], i)
<1>1. n \in Nat /\ \A i \in 1..n : s.themed[i] \in Clients /\ s.client[s.themed[i]].refs > 0
  <2>1. s.themed \in Seq(Clients)
    BY StateIs
  <2> QED BY <2>1 DEF Objects, Owns
<1>2. s \in G
  <2>1. Onward(s, s)
    BY StateIs DEF Onward
  <2> QED BY <2>1
<1>3. ASSUME NEW t \in G, NEW i \in 1..n PROVE Step(t, i) \in G
  <2>1. /\ s.themed[i] \in Clients /\ t \in States /\ Objects(t) /\ t.client[s.themed[i]].refs > 0
        /\ t.themed = s.themed /\ Onward(s, t)
    BY <1>1
  <2> DEFINE u == Step(t, i)
  <2>2. /\ u \in States /\ Objects(u) /\ Onward(t, u)
        /\ u.themed = t.themed
        /\ \A e \in Clients : /\ u.client[e].refs = t.client[e].refs
                              /\ u.client[e].managed = t.client[e].managed
    BY <2>1, ThemeChangeKeeps
  <2> HIDE DEF u
  <2>3. Onward(s, u)
    BY <2>1, <2>2, OnwardFurther
  <2>4. u \in G
    BY <2>1, <2>2, <2>3
  <2> QED BY <2>4 DEF u
<1> HIDE DEF G, Step
<1>4. ASSUME NEW m \in 0..n, NEW g, IsRun(g, m) PROVE \A i \in 0..m : g[i] \in G
  <2> SUFFICES ASSUME NEW i \in 0..m, g[i] \notin G PROVE FALSE
    OBVIOUS
  <2> DEFINE B == {j \in 0..m : g[j] \notin G}
  <2>1. B \in SUBSET Nat /\ B # {}
    BY <1>1
  <2>2. PICK j \in B : \A k \in B : j <= k
    BY <2>1, LeastNumber
  <2>3. j \in 0..m /\ g[j] \notin G /\ j # 0
    BY <1>2, <1>4, <2>2
  <2>4. j - 1 \in 0..m /\ ~(j <= j - 1) /\ j \in 1..m /\ j \in 1..n
    BY <1>1, <2>3
  <2>5. g[j - 1] \in G
    BY <2>2, <2>4
  <2>6. g[j] = Step(g[j - 1], j)
    BY <1>4, <2>4
  <2> QED BY <1>3, <2>3, <2>4, <2>5, <2>6
<1>5. \E g : g = [i \in 0..n |-> IF i = 0 THEN s ELSE Step(g[i - 1], i)]
  <2> DEFINE Some(m) == \E g : IsRun(g, m)
  <2>1. Some(0)
    <3>1. IsRun([i \in 0..0 |-> s], 0)
      OBVIOUS
    <3> QED BY <3>1
  <2>2. ASSUME NEW m \in Nat, m # 0, Some(m - 1) PROVE Some(m)
    <3>1. PICK g : IsRun(g, m - 1)
      BY <2>2
    <3> DEFINE h == [i \in 0..m |-> IF i = m THEN Step(g[m - 1], m) ELSE g[i]]
    <3>2. h[0] = s
      BY <2>2, <3>1
    <3>3. ASSUME NEW i \in 1..m PROVE h[i] = Step(h[i - 1], i)
      <4>1. i \in 0..m /\ i - 1 \in 0..m /\ i - 1 # m
        BY <2>2
      <4>2. h[i - 1] = g[i - 1]
        BY <4>1
      <4>3. CASE i = m
        BY <4>1, <4>2, <4>3
      <4>4. CASE i # m
        <5>1. i \in 1..(m - 1)
          BY <2>2, <4>4
        <5>2. h[i] = g[i]
          BY <4>1, <4>4
        <5> QED BY <3>1, <4>2, <5>1, <5>2
      <4> QED BY <4>3, <4>4
    <3> HIDE DEF h
    <3>4. IsRun(h, m)
      BY <3>2, <3>3
    <3> QED BY <3>4
  <2> HIDE DEF Some
  <2>3. Some(n)
    <3> SUFFICES ASSUME ~Some(n) PROVE FALSE
      OBVIOUS
    <3> DEFINE B == {m \in Nat : ~Some(m)}
    <3>1. B \in SUBSET Nat /\ B # {}
      BY <1>1
    <3>2. PICK m \in B : \A k \in B : m <= k
      BY <3>1, LeastNumber
    <3>3. m \in Nat /\ ~Some(m) /\ m # 0
      BY <2>1, <3>2
    <3>4. m - 1 \in Nat /\ ~(m <= m - 1)
      BY <3>3
    <3>5. Some(m - 1)
      BY <3>2, <3>4
    <3> QED BY <2>2, <3>3, <3>5
  <2>4. PICK g : IsRun(g, n)
    BY <2>3 DEF Some
  <2> DEFINE h == [i \in 0..n |-> g[i]]
  <2>5. h[0] = s /\ \A i \in 1..n : h[i] = Step(h[i - 1], i)
    <3>1. h[0] = g[0] /\ g[0] = s
      BY <1>1, <2>4
    <3>2. ASSUME NEW i \in 1..n PROVE h[i] = Step(h[i - 1], i)
      <4>1. i \in 0..n /\ i - 1 \in 0..n
        BY <1>1
      <4>2. h[i] = g[i] /\ h[i - 1] = g[i - 1]
        BY <4>1
      <4> QED BY <2>4, <4>2
    <3> QED BY <3>1, <3>2
  <2> DEFINE k == [i \in 0..n |-> IF i = 0 THEN s ELSE Step(h[i - 1], i)]
  <2>6. h = [i \in 0..n |-> h[i]] /\ k = [i \in 0..n |-> k[i]]
    OBVIOUS
  <2>7. ASSUME NEW i \in 0..n PROVE h[i] = k[i]
    <3>1. k[i] = IF i = 0 THEN s ELSE Step(h[i - 1], i)
      OBVIOUS
    <3> HIDE DEF h, k
    <3>2. i = 0 \/ i \in 1..n
      BY <1>1
    <3>3. i \in 1..n => i # 0
      OBVIOUS
    <3> QED BY <2>5, <3>1, <3>2, <3>3
  <2>8. h = k
    <3> HIDE DEF h, k
    <3> QED BY <2>6, <2>7
  <2> QED BY <2>8
<1> DEFINE after == CHOOSE g : g = [i \in 0..n |-> IF i = 0 THEN s ELSE Step(g[i - 1], i)]
<1>6. after = [i \in 0..n |-> IF i = 0 THEN s ELSE Step(after[i - 1], i)]
  BY <1>5
<1>7. Emitted(s) = after[n]
  BY DEF Emitted, Step
<1> HIDE DEF after
<1>8. IsRun(after, n)
  BY <1>1, <1>6
<1>9. after[n] \in G
  <2>1. n \in 0..n
    BY <1>1
  <2> HIDE DEF n, IsRun
  <2>2. \A i \in 0..n : after[i] \in G
    BY <1>4, <1>8, <2>1
  <2> QED BY <2>1, <2>2
<1> QED BY <1>7, <1>9 DEF G

\* Clients and decors that are not freed may change what does not concern the
\* other.
LEMMA ObjectsStay ==
  ASSUME NEW s \in States, NEW t \in States, Objects(s),
         \A c \in Clients : /\ t.client[c].decor = s.client[c].decor
                            /\ t.client[c].refs > 0 <=> s.client[c].refs > 0,
         t.themed = s.themed, Len(t.decor) = Len(s.decor),
         \A d \in 1..Len(s.decor) :
           /\ t.decor[d].client = s.decor[d].client /\ t.decor[d].refs = s.decor[d].refs
           /\ s.decor[d].refs = 0 => t.decor[d] = s.decor[d],
         Heard(t)
  PROVE  Objects(t)
<1>1. ASSUME NEW c \in Clients PROVE Owns(t, c)
  <2>1. Owns(s, c)
    BY DEF Objects
  <2> QED BY <2>1 DEF Owns
<1>2. ASSUME NEW d \in 1..Len(t.decor) PROVE Owned(t, d)
  <2>1. Owned(s, d) /\ s.decor[d].client \in Clients
    BY StateIs DEF Objects
  <2> QED BY <2>1 DEF Owned
<1>3. Distinct(t.themed)
  BY DEF Objects
<1> QED BY <1>1, <1>2, <1>3 DEF Objects

\* The same of the decors alone.
LEMMA DecorsChange ==
  ASSUME NEW s \in States, NEW t \in States, Objects(s),
         t.client = s.client, t.themed = s.themed, Len(t.decor) = Len(s.decor),
         \A d \in 1..Len(s.decor) :
           /\ t.decor[d].client = s.decor[d].client /\ t.decor[d].refs = s.decor[d].refs
           /\ s.decor[d].refs = 0 => t.decor[d] = s.decor[d],
         Heard(t)
  PROVE  Objects(t)
BY ObjectsStay

\* A reference to a client is given back; the last one takes the decor along.
LEMMA ClientUnrefKeeps ==
  ASSUME NEW s \in States, Objects(s), NEW c \in Clients, s.client[c].refs > 0
  PROVE  LET t == ClientUnref(s, c)
         IN  /\ t \in States /\ Objects(t) /\ Onward(s, t)
             /\ t.client[c].refs = s.client[c].refs - 1
             /\ t.client[c].managed = s.client[c].managed
             /\ s.client[c].refs > 1 => t.client[c].decor = s.client[c].decor
             /\ \A e \in Clients : e # c => t.client[e] = s.client[e]
<1> DEFINE t == ClientUnref(s, c)
<1>1. /\ s.client \in [Clients -> ClientRecs] /\ s.client[c] \in ClientRecs
      /\ s.decor \in Seq(DecorRecs) /\ Len(s.decor) \in Nat
  BY StateIs
<1>2. CASE s.client[c].refs > 1
  <2> DEFINE k == [s.client[c] EXCEPT !.refs = @ - 1]
             p == [s.client EXCEPT ![c] = k]
             r == [s EXCEPT !.client = p]
  <2>1. k \in ClientRecs /\ k.refs = s.client[c].refs - 1 /\ k.managed = s.client[c].managed
        /\ k.onPress = s.client[c].onPress /\ k.decor = s.client[c].decor
    <3>1. s.client[c].refs - 1 \in Nat
      BY <1>1, <1>2 DEF ClientRecs
    <3> QED BY <1>1, <3>1 DEF ClientRecs
  <2>2. t = r
    BY <1>2 DEF ClientUnref
  <2> HIDE DEF k, t
  <2>3. p \in [Clients -> ClientRecs] /\ p[c] = k /\ \A e \in Clients : e # c => p[e] = s.client[e]
    BY <1>1, <2>1
  <2> HIDE DEF p
  <2>4. t \in States
    BY <2>2, <2>3 DEF States
  <2>5. t.client = p /\ t.decor = s.decor /\ t.release = s.release /\ t.themed = s.themed
    BY <2>2 DEF States
  <2>6. ASSUME NEW e \in Clients
        PROVE  /\ t.client[e].decor = s.client[e].decor
               /\ t.client[e].refs > 0 <=> s.client[e].refs > 0
               /\ t.client[e].onPress = s.client[e].onPress
    <3>1. s.client[c].refs \in Nat
      BY <1>1 DEF ClientRecs
    <3>2. CASE e = c
      BY <1>2, <2>1, <2>3, <2>5, <3>1, <3>2
    <3>3. CASE e # c
      BY <2>3, <2>5, <3>3
    <3> QED BY <3>2, <3>3
  <2>7. \A e \in Clients : Owns(t, e)
    BY <2>5, <2>6 DEF Objects, Owns
  <2>8. ASSUME NEW d \in 1..Len(t.decor) PROVE Owned(t, d)
    <3>1. Owned(s, d) /\ s.decor[d].client \in Clients
      BY <2>5, StateIs DEF Objects
    <3> QED BY <2>5, <2>6, <3>1 DEF Owned
  <2>9. Objects(t)
    BY <2>5, <2>7, <2>8 DEF Objects, Heard
  <2>10. Onward(s, t)
    BY <1>1, <2>5, <2>6 DEF Onward
  <2> QED BY <2>1, <2>3, <2>4, <2>5, <2>9, <2>10 DEF t
<1>3. CASE s.client[c].refs = 1
  <2> DEFINE d == s.client[c].decor
             n == Len(s.decor)
             k == [s.client[c] EXCEPT !.refs = 0, !.decor = None]
             p == [s.client EXCEPT ![c] = k]
             b == Disconnected(s.themed, c)
             r == [s EXCEPT !.client = p, !.themed = b]
  <2>1. /\ d \in 1..n /\ s.decor[d].client = c /\ s.decor[d].refs = 1 /\ d # None
        /\ \E i \in 1..Len(s.themed) : s.themed[i] = c
    <3>1. Owns(s, c)
      BY DEF Objects
    <3> QED BY <1>3, <3>1 DEF Owns
  <2>2. k \in ClientRecs /\ k.refs = 0 /\ k.managed = s.client[c].managed
        /\ k.onPress = s.client[c].onPress /\ k.decor = None
    BY <1>1 DEF ClientRecs, None
  <2>3. p \in [Clients -> ClientRecs] /\ p[c] = k /\ \A e \in Clients : e # c => p[e] = s.client[e]
    BY <1>1, <2>2
  <2>4. /\ b \in Seq(Clients) /\ Distinct(b)
        /\ \A e \in Clients : (\E i \in 1..Len(b) : b[i] = e)
                                <=> e # c /\ \E i \in 1..Len(s.themed) : s.themed[i] = e
    <3>1. s.themed \in Seq(Clients) /\ Distinct(s.themed)
      BY StateIs DEF Objects
    <3> HIDE DEF d, n, k, p, r
    <3> QED BY <2>1, <3>1, DisconnectedIs
  <2>5. t = DecorUnref(r, d)
    <3>1. r = [s EXCEPT !.client[c].refs = 0, !.client[c].decor = None,
                        !.themed = Disconnected(@, c)]
      BY <1>1 DEF States, ClientRecs
    <3> HIDE DEF r
    <3> QED BY <1>3, <2>1, <3>1 DEF ClientUnref
  <2> HIDE DEF k, t, b, p
  <2>6. r \in States
    BY <2>3, <2>4 DEF States
  <2>7. r.client = p /\ r.decor = s.decor /\ r.release = s.release /\ r.themed = b
    BY DEF States
  <2> HIDE DEF r
  <2>8. /\ t \in States /\ t.client = p /\ t.themed = b /\ Len(t.decor) = n
        /\ t.decor = [s.decor EXCEPT ![d] = Cleared(c)]
        /\ t.release = {h \in s.release : h.id # s.decor[d].releaseId}
    <3>1. d \in 1..Len(r.decor) /\ r.decor[d].refs = 1
      BY <2>1, <2>7
    <3>2. /\ t \in States /\ t.client = r.client /\ t.themed = r.themed
          /\ Len(t.decor) = Len(r.decor)
          /\ t.decor = [r.decor EXCEPT ![d] = Cleared(r.decor[d].client)]
          /\ t.release = {h \in r.release : h.id # r.decor[d].releaseId}
      <4> HIDE DEF d
      <4> QED BY <2>5, <2>6, <3>1, DecorUnrefIs
    <3> QED BY <2>1, <2>7, <3>2
  <2>9. \A i \in 1..n : t.decor[i] = IF i = d THEN Cleared(c) ELSE s.decor[i]
    BY <1>1, <2>8
  <2>10. /\ Cleared(c).client = c /\ Cleared(c).refs = 0 /\ ~Cleared(c).realized
         /\ ~Cleared(c).pressed /\ Cleared(c).releaseId = None
    BY DEF Cleared, NewDecor
  <2>11. ASSUME NEW e \in Clients PROVE Owns(t, e)
    <3>1. Owns(s, e)
      BY DEF Objects
    <3>2. CASE e = c
      BY <2>2, <2>3, <2>4, <2>8, <3>2 DEF Owns
    <3>3. CASE e # c
      <4>1. t.client[e] = s.client[e]
        BY <2>3, <2>8, <3>3
      <4>2. ASSUME s.client[e].decor # None
            PROVE  /\ s.client[e].decor \in 1..n
                   /\ t.decor[s.client[e].decor] = s.decor[s.client[e].decor]
        BY <2>1, <2>9, <3>1, <3>3, <4>2 DEF Owns
      <4>3. t.client[e].refs > 0 <=> \E i \in 1..Len(t.themed) : t.themed[i] = e
        BY <2>4, <2>8, <3>1, <3>3, <4>1 DEF Owns
      <4> QED BY <2>8, <3>1, <4>1, <4>2, <4>3 DEF Owns
    <3> QED BY <3>2, <3>3
  <2>12. ASSUME NEW i \in 1..Len(t.decor) PROVE Owned(t, i)
    <3>1. CASE i = d
      BY <2>8, <2>9, <2>10, <3>1 DEF Owned
    <3>2. CASE i # d
      <4>1. Owned(s, i) /\ s.decor[i].client \in Clients /\ t.decor[i] = s.decor[i]
        BY <2>8, <2>9, <3>2, StateIs DEF Objects
      <4>2. s.decor[i].refs # 0 => s.decor[i].client # c
        BY <3>2, <4>1 DEF Owned
      <4> QED BY <2>3, <2>8, <4>1, <4>2 DEF Owned
    <3> QED BY <3>1, <3>2
  <2>13. Heard(t)
    <3>1. Heard(s)
      BY DEF Objects
    <3>2. ASSUME NEW h \in t.release
          PROVE  h.decor \in 1..Len(t.decor) /\ t.decor[h.decor].releaseId = h.id
      <4>1. h.decor \in 1..n /\ s.decor[h.decor].releaseId = h.id /\ h.decor # d
        BY <2>8, <3>1 DEF Heard
      <4> QED BY <2>8, <2>9, <4>1
    <3> QED BY <2>8, <3>1, <3>2 DEF Heard
  <2>14. Objects(t)
    BY <2>4, <2>8, <2>11, <2>12, <2>13 DEF Objects
  <2>15. Onward(s, t)
    <3>1. \A e \in Clients : t.client[e].onPress = s.client[e].onPress
      BY <2>2, <2>3, <2>8
    <3>2. \A i \in 1..n : t.decor[i].client = s.decor[i].client /\ (t.decor[i].pressed => s.decor[i].pressed)
      BY <2>1, <2>9, <2>10
    <3>3. \A i \in 1..Len(t.decor) : ~(i > n)
      BY <1>1, <2>8
    <3> QED BY <1>1, <2>8, <3>1, <3>2, <3>3 DEF Onward
  <2> QED BY <1>3, <2>2, <2>3, <2>8, <2>14, <2>15 DEF t
<1>4. s.client[c].refs = 1 \/ s.client[c].refs > 1
  BY <1>1 DEF ClientRecs
<1> QED BY <1>2, <1>3, <1>4

-----------------------------------------------------------------------------
(* The events on the way.                                                    *)

EventRecs ==
  [type : {"Press", "Motion", "Release", "Unmap", "Theme"}, target : Nat \cup Clients,
   on : {"button", "title", "window", "root"}]

IsPointer(e) == e.type \in {"Press", "Motion", "Release"}

\* What events are about; n decors have been made.
Aimed(q, n, changes) ==
  \A i \in 1..Len(q) : /\ q[i].type = "Press" => q[i].target \in 1..n
                       /\ q[i].type = "Unmap" => q[i].target \in Clients
                       /\ q[i].type = "Theme" => changes > 0

\* up[i]: before the i-th event the pointer is not pressed.  Presses and
\* releases alternate, and motions are between a press and its release.
Stream(q, h, up) ==
  /\ up \in [1..(Len(q) + 1) -> BOOLEAN]
  /\ up[Len(q) + 1] <=> h = None
  /\ \A i \in 1..Len(q) :
       /\ q[i].type = "Press" => up[i] /\ ~up[i + 1]
       /\ q[i].type = "Motion" => ~up[i] /\ ~up[i + 1]
       /\ q[i].type = "Release" => ~up[i] /\ up[i + 1]
       /\ ~IsPointer(q[i]) => up[i] = up[i + 1]

\* The pointer may be pressed when it is not, and moved and released when it is.
Follows(e, h, g) ==
  /\ e.type = "Press" => h = None /\ g # None
  /\ e.type = "Motion" => h # None /\ g # None
  /\ e.type = "Release" => h # None /\ g = None
  /\ ~IsPointer(e) => g = h

\* An event comes in that follows the pointer.
LEMMA StreamGrows ==
  ASSUME NEW q \in Seq(EventRecs), NEW e \in EventRecs, NEW h, NEW g, Follows(e, h, g),
         NEW up, Stream(q, h, up)
  PROVE  \E vp : Stream(Append(q, e), g, vp) /\ vp[1] = up[1]
<1> DEFINE n == Len(q)
           r == Append(q, e)
           vp == [i \in 1..(n + 2) |-> IF i = n + 2 THEN g = None ELSE up[i]]
<1>1. n \in Nat /\ Len(r) = n + 1 /\ r[n + 1] = e /\ \A i \in 1..n : r[i] = q[i]
  OBVIOUS
<1>2. up \in [1..(n + 1) -> BOOLEAN] /\ (up[n + 1] <=> h = None)
  BY DEF Stream
<1> HIDE DEF r
<1>3. vp[n + 2] = (g = None) /\ \A i \in 1..(n + 1) : vp[i] = up[i]
  BY <1>1
<1>4. vp \in [1..(Len(r) + 1) -> BOOLEAN]
  <2>1. \A i \in 1..(n + 2) : i # n + 2 => i \in 1..(n + 1)
    BY <1>1
  <2>2. \A i \in 1..(n + 2) : (IF i = n + 2 THEN g = None ELSE up[i]) \in BOOLEAN
    BY <1>2, <2>1
  <2>3. vp \in [1..(n + 2) -> BOOLEAN]
    BY <2>2
  <2>4. Len(r) + 1 = n + 2
    BY <1>1
  <2> QED BY <2>3, <2>4
<1> HIDE DEF vp
<1>5. ASSUME NEW i \in 1..Len(r)
      PROVE  /\ r[i].type = "Press" => vp[i] /\ ~vp[i + 1]
             /\ r[i].type = "Motion" => ~vp[i] /\ ~vp[i + 1]
             /\ r[i].type = "Release" => ~vp[i] /\ vp[i + 1]
             /\ ~IsPointer(r[i]) => vp[i] = vp[i + 1]
  <2>1. CASE i = n + 1
    <3>1. vp[i] = up[n + 1] /\ vp[i + 1] = (g = None) /\ r[i] = e
      BY <1>1, <1>3, <2>1
    <3>2. up[n + 1] = (h = None)
      <4>1. up[n + 1] \in BOOLEAN
        BY <1>1, <1>2
      <4> QED BY <1>2, <4>1
    <3>3. /\ e.type = "Press" => h = None /\ ~(g = None)
          /\ e.type = "Motion" => ~(h = None) /\ ~(g = None)
          /\ e.type = "Release" => ~(h = None) /\ g = None
          /\ ~IsPointer(e) => (h = None) = (g = None)
      BY DEF Follows
    <3> QED BY <3>1, <3>2, <3>3, Zenon
  <2>2. CASE i # n + 1
    <3>1. i \in 1..n /\ i \in 1..(n + 1) /\ i + 1 \in 1..(n + 1)
      BY <1>1, <2>2
    <3>2. vp[i] = up[i] /\ vp[i + 1] = up[i + 1] /\ r[i] = q[i]
      BY <1>1, <1>3, <3>1
    <3> QED BY <3>1, <3>2 DEF Stream
  <2> QED BY <2>1, <2>2
<1>6. vp[Len(r) + 1] <=> g = None
  <2>1. Len(r) + 1 = n + 2
    BY <1>1
  <2> QED BY <1>3, <2>1
<1>7. Stream(r, g, vp)
  BY <1>4, <1>5, <1>6 DEF Stream
<1>8. vp[1] = up[1]
  BY <1>1, <1>3
<1> QED BY <1>7, <1>8 DEF r

\* A loop takes the first event of the pointer away, whatever stands before it;
\* the main loop takes the first of all.
LEMMA StreamShrinks ==
  ASSUME NEW q \in Seq(EventRecs), NEW k \in 1..Len(q), \A i \in 1..(k - 1) : ~IsPointer(q[i]),
         NEW h, NEW up, Stream(q, h, up)
  PROVE  up[k] = up[1] /\ \E vp : Stream(RemoveAt(q, k), h, vp) /\ vp[1] = up[k + 1]
<1> DEFINE n == Len(q)
           r == RemoveAt(q, k)
           vp == [i \in 1..n |-> IF i <= k THEN up[k + 1] ELSE up[i + 1]]
<1>1. /\ n \in Nat /\ k \in Nat /\ k >= 1 /\ k <= n /\ Len(r) = n - 1
      /\ \A i \in 1..(n - 1) : r[i] = IF i < k THEN q[i] ELSE q[i + 1]
  <2>1. n \in Nat /\ k \in Nat /\ k >= 1 /\ k <= n
    OBVIOUS
  <2>2. /\ Len(r) = n - 1
        /\ \A i \in 1..(n - 1) : r[i] = IF i < k THEN q[i] ELSE q[i + 1]
    BY RemoveAtIs
  <2> QED BY <2>1, <2>2
<1>2. up \in [1..(n + 1) -> BOOLEAN] /\ (up[n + 1] <=> h = None)
  BY DEF Stream
<1>3. \A i \in 1..k : up[i] = up[1]
  <2> SUFFICES ASSUME NEW i \in 1..k, up[i] # up[1] PROVE FALSE
    OBVIOUS
  <2> DEFINE B == {j \in 1..k : up[j] # up[1]}
  <2>1. B \in SUBSET Nat /\ B # {}
    OBVIOUS
  <2>2. PICK j \in B : \A m \in B : j <= m
    BY <2>1, LeastNumber
  <2>3. j \in 1..k /\ up[j] # up[1] /\ j # 1
    BY <2>2
  <2>4. j - 1 \in 1..(k - 1) /\ j - 1 \in 1..k /\ j - 1 \in 1..n /\ ~(j <= j - 1) /\ (j - 1) + 1 = j
    BY <1>1, <2>3
  <2>5. up[j - 1] = up[1]
    BY <2>2, <2>4
  <2>6. up[j - 1] = up[j]
    <3>1. ~IsPointer(q[j - 1])
      BY <2>4
    <3>2. up[j - 1] = up[(j - 1) + 1]
      BY <2>4, <3>1 DEF Stream
    <3> QED BY <2>4, <3>2
  <2> QED BY <2>3, <2>5, <2>6
<1> HIDE DEF r
<1>4. \A i \in 1..n : vp[i] = IF i <= k THEN up[k + 1] ELSE up[i + 1]
  OBVIOUS
<1>5. vp \in [1..(Len(r) + 1) -> BOOLEAN]
  <2>1. \A i \in 1..n : (IF i <= k THEN up[k + 1] ELSE up[i + 1]) \in BOOLEAN
    <3>1. k + 1 \in 1..(n + 1) /\ \A i \in 1..n : i + 1 \in 1..(n + 1)
      BY <1>1
    <3> QED BY <1>2, <3>1
  <2>2. Len(r) + 1 = n
    BY <1>1
  <2> QED BY <2>1, <2>2
<1> HIDE DEF vp
<1>6. ASSUME NEW i \in 1..Len(r)
      PROVE  /\ r[i].type = "Press" => vp[i] /\ ~vp[i + 1]
             /\ r[i].type = "Motion" => ~vp[i] /\ ~vp[i + 1]
             /\ r[i].type = "Release" => ~vp[i] /\ vp[i + 1]
             /\ ~IsPointer(r[i]) => vp[i] = vp[i + 1]
  <2>1. i \in 1..(n - 1) /\ i \in 1..n /\ i + 1 \in 1..n
    BY <1>1
  <2>2. CASE i < k
    <3>1. r[i] = q[i] /\ i \in 1..(k - 1) /\ i <= k /\ i + 1 <= k
      BY <1>1, <2>1, <2>2
    <3>2. vp[i] = vp[i + 1] /\ ~IsPointer(r[i])
      BY <1>4, <2>1, <3>1
    <3> QED BY <3>2 DEF IsPointer
  <2>3. CASE i >= k
    <3>1. r[i] = q[i + 1] /\ ~(i + 1 <= k)
      BY <1>1, <2>1, <2>3
    <3>2. vp[i] = up[i + 1]
      BY <1>1, <1>4, <2>1, <2>3
    <3>3. vp[i + 1] = up[(i + 1) + 1]
      BY <1>4, <2>1, <3>1
    <3> QED BY <2>1, <3>1, <3>2, <3>3 DEF Stream
  <2> QED BY <1>1, <2>1, <2>2, <2>3
<1>7. vp[Len(r) + 1] <=> h = None
  <2>1. Len(r) + 1 = n /\ n \in 1..n
    BY <1>1
  <2>2. vp[n] = up[n + 1]
    BY <1>1, <1>4, <2>1
  <2> QED BY <1>2, <2>1, <2>2
<1>8. Stream(r, h, vp)
  BY <1>5, <1>6, <1>7 DEF Stream
<1>9. vp[1] = up[k + 1]
  BY <1>1, <1>4
<1>10. up[k] = up[1]
  BY <1>1, <1>3
<1> QED BY <1>8, <1>9, <1>10 DEF r

\* The main loop's first event.
LEMMA TailIs ==
  ASSUME NEW q \in Seq(EventRecs), q # << >>
  PROVE  1 \in 1..Len(q) /\ Head(q) = q[1] /\ Tail(q) = RemoveAt(q, 1) /\ Head(q) \in EventRecs
<1>1. Len(q) \in Nat /\ 1 \in 1..Len(q) /\ Head(q) = q[1] /\ q[1] \in EventRecs
  OBVIOUS
<1>2. /\ Tail(q) \in Seq(EventRecs) /\ Len(Tail(q)) = Len(q) - 1
      /\ \A i \in 1..(Len(q) - 1) : Tail(q)[i] = q[i + 1]
  OBVIOUS
<1>3. /\ RemoveAt(q, 1) \in Seq(EventRecs) /\ Len(RemoveAt(q, 1)) = Len(q) - 1
      /\ \A i \in 1..(Len(q) - 1) : RemoveAt(q, 1)[i] = q[i + 1]
  <2>1. \A i \in 1..(Len(q) - 1) : ~(i < 1)
    OBVIOUS
  <2> QED BY <1>1, <2>1, RemoveAtIs
<1>4. \A a, b \in Seq(EventRecs) : Len(a) = Len(b) /\ (\A i \in 1..Len(a) : a[i] = b[i]) => a = b
  OBVIOUS
<1> QED BY <1>1, <1>2, <1>3, <1>4

\* Events that are taken away or added are about the same as before.
LEMMA AimedStays ==
  ASSUME NEW q \in Seq(EventRecs), NEW n \in Nat, NEW m \in Nat, n <= m,
         NEW a \in Nat, NEW b \in Nat, a <= b, Aimed(q, n, a)
  PROVE  /\ Aimed(q, m, b)
         /\ \A k \in 1..Len(q) : Aimed(RemoveAt(q, k), m, b)
         /\ \A e \in EventRecs : Aimed(<<e>>, m, b) => Aimed(Append(q, e), m, b)
<1>1. Aimed(q, m, b)
  BY DEF Aimed
<1>2. ASSUME NEW k \in 1..Len(q) PROVE Aimed(RemoveAt(q, k), m, b)
  <2>1. \A i \in 1..Len(RemoveAt(q, k)) : \E j \in 1..Len(q) : RemoveAt(q, k)[i] = q[j]
    BY RemoveAtIs
  <2> QED BY <1>1, <2>1 DEF Aimed
<1>3. ASSUME NEW e \in EventRecs, Aimed(<<e>>, m, b) PROVE Aimed(Append(q, e), m, b)
  <2>1. \A i \in 1..Len(Append(q, e)) : Append(q, e)[i] = e \/ \E j \in 1..Len(q) : Append(q, e)[i] = q[j]
    OBVIOUS
  <2>2. Len(<<e>>) = 1 /\ <<e>>[1] = e
    OBVIOUS
  <2>3. /\ e.type = "Press" => e.target \in 1..m
        /\ e.type = "Unmap" => e.target \in Clients
        /\ e.type = "Theme" => b > 0
    BY <1>3, <2>2 DEF Aimed
  <2> QED BY <1>1, <2>1, <2>3 DEF Aimed
<1> QED BY <1>1, <1>2, <1>3

-----------------------------------------------------------------------------
(* What the program is in the middle of.                                     *)

Calls == [kind : {"button", "drag", "release"}, decor : Nat \ {0}, id : Nat]

FrameRecs ==
  [kind : {"dispatch", "button", "drag"}, at : {"call", "look", "spin"}, decor : Nat,
   client : Clients \cup {None}, todo : Seq(Calls), spins : Nat]

IsLoop(f) == f.kind \in {"button", "drag"}
OnlyDrags(todo) == \A j \in 1..Len(todo) : todo[j].kind = "drag"

\* A frame by itself: only drags are called after the first handler.
Proper(f) ==
  /\ f \in FrameRecs
  /\ f.kind = "dispatch" => /\ f.at = "call"
                            /\ f.todo # << >> => OnlyDrags(Tail(f.todo))
  /\ IsLoop(f) => f.at \in {"look", "spin"}

\* The main loop's calls of handlers and the loops in handlers take turns.
Shape(F) ==
  /\ F \in Seq(FrameRecs)
  /\ \A i \in 1..Len(F) :
       /\ Proper(F[i])
       /\ i = 1 => F[i].kind = "dispatch"
       /\ i < Len(F) => /\ F[i].kind = "dispatch" <=> IsLoop(F[i + 1])
                        /\ F[i].kind = "dispatch" => OnlyDrags(F[i].todo)

PointsTo(f, D) ==
  /\ IsLoop(f) => f.decor \in 1..Len(D) /\ f.client = D[f.decor].client
  /\ \A j \in 1..Len(f.todo) : f.todo[j].decor \in 1..Len(D)

\* Decors that were made.
Points(F, D) == \A i \in 1..Len(F) : PointsTo(F[i], D)

\* The loops of buttons are the same.
SameButtons(F, G) ==
  /\ \A i \in 1..Len(F) : F[i].kind = "button" =>
       /\ i \in 1..Len(G)
       /\ G[i].kind = "button" /\ G[i].decor = F[i].decor /\ G[i].client = F[i].client
  /\ \A i \in 1..Len(G) : G[i].kind = "button" => i \in 1..Len(F) /\ F[i].kind = "button"

\* Frames are of three kinds.
LEMMA KindsAre ==
  ASSUME NEW F, Shape(F), NEW i \in 1..Len(F)
  PROVE  /\ F[i].kind = "dispatch" <=> ~IsLoop(F[i])
         /\ Len(F) \in Nat /\ F \in Seq(FrameRecs) /\ F[i] \in FrameRecs
<1>1. Len(F) \in Nat /\ F \in Seq(FrameRecs) /\ F[i] \in FrameRecs
  BY DEF Shape
<1>2. F[i].kind \in {"dispatch", "button", "drag"}
  BY <1>1 DEF FrameRecs
<1> QED BY <1>1, <1>2 DEF IsLoop

\* The innermost frame goes on, of the same kind and for the same decor.
LEMMA TopChanged ==
  ASSUME NEW F, Shape(F), F # << >>, NEW f, Proper(f), f.kind = F[Len(F)].kind,
         f.decor = F[Len(F)].decor, f.client = F[Len(F)].client,
         NEW D, Points(F, D), \A j \in 1..Len(f.todo) : f.todo[j].decor \in 1..Len(D)
  PROVE  LET G == [F EXCEPT ![Len(F)] = f]
         IN  /\ Shape(G) /\ Points(G, D) /\ SameButtons(F, G)
             /\ Len(G) = Len(F) /\ G[Len(F)] = f
             /\ \A i \in 1..Len(F) : i # Len(F) => G[i] = F[i]
<1> DEFINE n == Len(F)
           G == [F EXCEPT ![n] = f]
<1>1. F \in Seq(FrameRecs) /\ n \in Nat /\ n \in 1..n /\ f \in FrameRecs
  <2>1. F \in Seq(FrameRecs) /\ f \in FrameRecs
    BY DEF Shape, Proper
  <2> QED BY <2>1
<1>2. /\ G \in Seq(FrameRecs) /\ Len(G) = n /\ G[n] = f
      /\ \A i \in 1..n : i # n => G[i] = F[i]
  BY <1>1
<1> HIDE DEF G, n
<1>3. ASSUME NEW i \in 1..n
      PROVE  /\ G[i].kind = F[i].kind /\ G[i].decor = F[i].decor /\ G[i].client = F[i].client
             /\ Proper(G[i]) /\ PointsTo(G[i], D)
  <2>1. CASE i = n
    BY <1>2, <2>1 DEF n, Points, PointsTo, IsLoop
  <2>2. CASE i # n
    BY <1>2, <2>2 DEF n, Points, Shape
  <2> QED BY <2>1, <2>2
<1>4. Shape(G)
  <2>1. ASSUME NEW i \in 1..n, i < n
        PROVE  /\ G[i].kind = "dispatch" <=> IsLoop(G[i + 1])
               /\ G[i].kind = "dispatch" => OnlyDrags(G[i].todo)
    <3>1. i + 1 \in 1..n /\ i # n
      BY <1>1, <2>1
    <3>2. G[i] = F[i] /\ (IsLoop(G[i + 1]) <=> IsLoop(F[i + 1]))
      BY <1>2, <1>3, <3>1 DEF IsLoop
    <3> QED BY <2>1, <3>2 DEF Shape, n
  <2>2. \A i \in 1..n : i = 1 => G[i].kind = "dispatch"
    BY <1>3 DEF Shape, n
  <2> QED BY <1>2, <1>3, <2>1, <2>2 DEF Shape
<1>5. Points(G, D)
  BY <1>2, <1>3 DEF Points
<1>6. SameButtons(F, G)
  BY <1>2, <1>3 DEF SameButtons, n
<1> QED BY <1>2, <1>4, <1>5, <1>6 DEF G, n

\* The innermost frame ends.
LEMMA TopGone ==
  ASSUME NEW F, Shape(F), F # << >>, NEW D, Points(F, D)
  PROVE  LET G == Front(F)
             f == F[Len(F)]
         IN  /\ Shape(G) /\ Points(G, D)
             /\ Len(G) = Len(F) - 1
             /\ \A i \in 1..Len(G) : G[i] = F[i]
             /\ f.kind # "button" => SameButtons(F, G)
             /\ f.kind = "dispatch" => G = << >> \/ IsLoop(G[Len(G)])
             /\ IsLoop(f) => /\ G # << >> /\ G[Len(G)].kind = "dispatch"
                             /\ OnlyDrags(G[Len(G)].todo)
<1> DEFINE n == Len(F)
           G == Front(F)
<1>1. F \in Seq(FrameRecs) /\ n \in Nat /\ n \in 1..n
  <2>1. F \in Seq(FrameRecs)
    BY DEF Shape
  <2> QED BY <2>1
<1>2. G \in Seq(FrameRecs) /\ Len(G) = n - 1 /\ \A i \in 1..(n - 1) : G[i] = F[i]
  <2>1. G = SubSeq(F, 1, n - 1)
    BY DEF Front
  <2>2. n - 1 \in Nat /\ n - 1 <= n /\ n = Len(F)
    BY <1>1
  <2> HIDE DEF n
  <2>3. SubSeq(F, 1, n - 1) \in Seq(FrameRecs)
    BY <1>1, <2>2
  <2>4. Len(SubSeq(F, 1, n - 1)) = n - 1
    BY <1>1, <2>2
  <2>5. \A i \in 1..(n - 1) : SubSeq(F, 1, n - 1)[i] = F[i]
    BY <1>1, <2>2
  <2> QED BY <2>1, <2>3, <2>4, <2>5
<1> HIDE DEF G
<1>3. Shape(G)
  <2>1. ASSUME NEW i \in 1..(n - 1)
        PROVE  /\ Proper(G[i])
               /\ i = 1 => G[i].kind = "dispatch"
    <3>1. i \in 1..n
      BY <1>1
    <3> QED BY <1>2, <3>1 DEF Shape
  <2>2. ASSUME NEW i \in 1..(n - 1), i < n - 1
        PROVE  /\ G[i].kind = "dispatch" <=> IsLoop(G[i + 1])
               /\ G[i].kind = "dispatch" => OnlyDrags(G[i].todo)
    <3>1. i \in 1..n /\ i < n /\ i + 1 \in 1..(n - 1)
      BY <1>1, <2>2
    <3> QED BY <1>2, <3>1 DEF Shape
  <2> QED BY <1>2, <2>1, <2>2 DEF Shape
<1>4. Points(G, D)
  <2>1. \A i \in 1..(n - 1) : i \in 1..n
    BY <1>1
  <2> QED BY <1>2, <2>1 DEF Points
<1>5. F[n].kind # "button" => SameButtons(F, G)
  <2>1. \A i \in 1..n : i # n => i \in 1..(n - 1)
    BY <1>1
  <2>2. \A i \in 1..(n - 1) : i \in 1..n
    BY <1>1
  <2> QED BY <1>1, <1>2, <2>1, <2>2 DEF SameButtons
<1>6. CASE n = 1
  <2>1. G = << >>
    BY <1>2, <1>6
  <2>2. F[n].kind = "dispatch"
    BY <1>1, <1>6 DEF Shape
  <2> QED BY <1>2, <1>3, <1>4, <1>5, <2>1, <2>2 DEF G, IsLoop
<1>7. CASE n # 1
  <2>1. n - 1 \in 1..n /\ n - 1 < n /\ (n - 1) + 1 = n /\ n - 1 \in 1..(n - 1) /\ n - 1 # 0
    BY <1>1, <1>7
  <2>2. G # << >> /\ G[Len(G)] = F[n - 1]
    BY <1>2, <2>1
  <2>3. /\ F[n - 1].kind = "dispatch" <=> IsLoop(F[n])
        /\ F[n - 1].kind = "dispatch" => OnlyDrags(F[n - 1].todo)
    BY <2>1 DEF Shape
  <2>4. F[n - 1].kind = "dispatch" <=> ~IsLoop(F[n - 1])
    BY <2>1, KindsAre
  <2>5. F[n].kind = "dispatch" <=> ~IsLoop(F[n])
    BY <1>1, KindsAre
  <2> QED BY <1>2, <1>3, <1>4, <1>5, <2>2, <2>3, <2>4, <2>5 DEF G
<1> QED BY <1>6, <1>7

\* A frame begins, a loop in a handler or the main loop in a loop.
LEMMA TopAdded ==
  ASSUME NEW F, Shape(F), NEW f, Proper(f),
         f.kind = "dispatch" => F = << >> \/ IsLoop(F[Len(F)]),
         IsLoop(f) => F # << >> /\ F[Len(F)].kind = "dispatch" /\ OnlyDrags(F[Len(F)].todo),
         NEW D, Points(F, D), PointsTo(f, D)
  PROVE  LET G == Append(F, f)
         IN  /\ Shape(G) /\ Points(G, D)
             /\ Len(G) = Len(F) + 1 /\ G[Len(F) + 1] = f
             /\ \A i \in 1..Len(F) : G[i] = F[i]
             /\ f.kind # "button" => SameButtons(F, G)
<1> DEFINE n == Len(F)
           G == Append(F, f)
<1>1. F \in Seq(FrameRecs) /\ n \in Nat /\ f \in FrameRecs
  <2>1. F \in Seq(FrameRecs) /\ f \in FrameRecs
    BY DEF Shape, Proper
  <2> QED BY <2>1
<1>2. /\ G \in Seq(FrameRecs) /\ Len(G) = n + 1 /\ G[n + 1] = f
      /\ \A i \in 1..n : G[i] = F[i]
  BY <1>1
<1>3. \A i \in 1..(n + 1) : i # n + 1 => i \in 1..n
  BY <1>1
<1>4. f.kind = "dispatch" <=> ~IsLoop(f)
  BY <1>1 DEF FrameRecs, IsLoop
<1> HIDE DEF G
<1>5. Shape(G)
  <2>1. ASSUME NEW i \in 1..(n + 1) PROVE Proper(G[i])
    BY <1>2, <1>3 DEF Shape
  <2>2. ASSUME NEW i \in 1..(n + 1), i = 1 PROVE G[i].kind = "dispatch"
    <3>1. CASE n = 0
      <4>1. F = << >> /\ G[i] = f
        BY <1>1, <1>2, <2>2, <3>1
      <4> QED BY <1>4, <4>1
    <3>2. CASE n # 0
      <4>1. i \in 1..n
        BY <1>1, <2>2, <3>2
      <4> QED BY <1>2, <2>2, <4>1 DEF Shape
    <3> QED BY <3>1, <3>2
  <2>3. ASSUME NEW i \in 1..(n + 1), i < n + 1
        PROVE  /\ G[i].kind = "dispatch" <=> IsLoop(G[i + 1])
               /\ G[i].kind = "dispatch" => OnlyDrags(G[i].todo)
    <3>1. i \in 1..n /\ G[i] = F[i]
      BY <1>1, <1>2, <2>3
    <3>2. CASE i = n
      <4>1. G[i + 1] = f /\ F # << >> /\ G[i] = F[Len(F)]
        BY <1>1, <1>2, <3>1, <3>2
      <4>2. F[i].kind = "dispatch" <=> ~IsLoop(F[i])
        BY <3>1, KindsAre
      <4> QED BY <1>4, <3>1, <4>1, <4>2
    <3>3. CASE i # n
      <4>1. i < n /\ i + 1 \in 1..n
        BY <1>1, <3>1, <3>3
      <4> QED BY <1>2, <3>1, <4>1 DEF Shape
    <3> QED BY <3>2, <3>3
  <2> QED BY <1>2, <2>1, <2>2, <2>3 DEF Shape
<1>6. Points(G, D)
  BY <1>2, <1>3 DEF Points
<1>7. f.kind # "button" => SameButtons(F, G)
  <2>1. \A i \in 1..n : i \in 1..(n + 1)
    BY <1>1
  <2> QED BY <1>2, <1>3, <2>1 DEF SameButtons
<1> QED BY <1>2, <1>5, <1>6, <1>7 DEF G

-----------------------------------------------------------------------------
(* The invariant.                                                            *)

\* The events on the way and the pointer fit; it is down before the first event
\* or not.
Pointed(q, h, n, changes, down) ==
  /\ q \in Seq(EventRecs)
  /\ Aimed(q, n, changes)
  /\ h \in 0..n
  /\ down \in BOOLEAN
  /\ \E up : Stream(q, h, up) /\ down = ~up[1]

\* Where the innermost loop is, 0 if there is none.
Innermost(F) ==
  IF F = << >> THEN 0 ELSE IF F[Len(F)].kind = "dispatch" THEN Len(F) - 1 ELSE Len(F)

\* The kind of the handler that is called next.
Due(F) ==
  IF F # << >> /\ F[Len(F)].kind = "dispatch" /\ F[Len(F)].todo # << >>
  THEN F[Len(F)].todo[1].kind ELSE "none"

\* The innermost loop is the only one that listens to the release.  A handler of
\* presses is called when none does.  A loop that hands control to the main loop
\* while it listens has the release of the pointer before it.
Grabs(F, R, down) ==
  /\ \A h \in R : Innermost(F) > 0 /\ F[Innermost(F)].decor = h.decor
  /\ Due(F) \in {"button", "drag"} => R = {}
  /\ Due(F) = "button" => down
  /\ Due(F) = "release" =>
       \E h \in R : F[Len(F)].todo = <<[kind |-> "release", decor |-> h.decor, id |-> h.id]>>
  /\ R # {} /\ (F[Innermost(F)].kind = "button" \/ F[Innermost(F)].at = "spin") =>
       down \/ Due(F) = "release"

ButtonsFor(F, c) == {i \in 1..Len(F) : F[i].kind = "button" /\ F[i].client = c}

\* The last two parts of LoopsCleanUp.
Pressed(F, s) ==
  \A d \in 1..Len(s.decor) :
    s.decor[d].pressed => \/ \E i \in 1..Len(F) : F[i].kind = "button" /\ F[i].decor = d
                          \/ s.client[s.decor[d].client].onPress

Refs(F, s) ==
  \A c \in Clients :
    s.client[c].refs = Cardinality(ButtonsFor(F, c)) + (IF s.client[c].managed THEN 1 ELSE 0)

\* The decors of the buttons' loops are those of the clients.
Kept(F, s) ==
  \A i \in 1..Len(F) : F[i].kind = "button" => s.client[F[i].client].decor = F[i].decor

Books(F, s, changes) == Pressed(F, s) /\ Refs(F, s) /\ (changes = 0 => Kept(F, s))

Whole(s, F, q, h, changes, m) ==
  /\ s \in States /\ Objects(s)
  /\ Shape(F) /\ Points(F, s.decor)
  /\ changes \in Nat /\ (m = "button" => changes > 0)
  /\ Books(F, s, changes)
  /\ \E down : Pointed(q, h, Len(s.decor), changes, down) /\ Grabs(F, s.release, down)

IInv == Whole(State, frames, queue, held, themes, misused)

-----------------------------------------------------------------------------
(* Its parts, one by one.                                                    *)

\* More decors have been made, or more themes set.
LEMMA PointedStays ==
  ASSUME NEW q, NEW h, NEW n \in Nat, NEW m \in Nat, n <= m, NEW a \in Nat, NEW b \in Nat, a <= b,
         NEW down, Pointed(q, h, n, a, down)
  PROVE  Pointed(q, h, m, b, down)
<1>1. Aimed(q, m, b)
  BY AimedStays DEF Pointed
<1>2. h \in 0..m
  BY DEF Pointed
<1> QED BY <1>1, <1>2 DEF Pointed

\* An event comes in.
LEMMA PointedGrows ==
  ASSUME NEW q, NEW h, NEW n \in Nat, NEW a \in Nat, NEW down, Pointed(q, h, n, a, down),
         NEW e \in EventRecs, NEW g \in 0..n, Follows(e, h, g), Aimed(<<e>>, n, a)
  PROVE  Pointed(Append(q, e), g, n, a, down)
<1>1. q \in Seq(EventRecs) /\ Append(q, e) \in Seq(EventRecs) /\ down \in BOOLEAN
  BY DEF Pointed
<1>2. PICK up : Stream(q, h, up) /\ down = ~up[1]
  BY DEF Pointed
<1>3. PICK vp : Stream(Append(q, e), g, vp) /\ vp[1] = up[1]
  BY <1>1, <1>2, StreamGrows
<1>4. Aimed(Append(q, e), n, a)
  BY <1>1, AimedStays DEF Pointed
<1>5. down = ~vp[1]
  BY <1>2, <1>3
<1> QED BY <1>1, <1>3, <1>4, <1>5 DEF Pointed

\* A button acts: at most an event comes in that is not of the pointer.
LEMMA PointedActs ==
  ASSUME NEW q, NEW h, NEW n \in Nat, NEW a \in Nat, NEW down, Pointed(q, h, n, a, down),
         NEW c \in Clients
  PROVE  Pointed(Act(c, q), h, n, a, down)
<1> DEFINE e == [type |-> "Unmap", target |-> c, on |-> "window"]
<1>1. e \in EventRecs /\ e.type = "Unmap" /\ e.target = c
  BY DEF EventRecs
<1>2. Act(c, q) = q \/ Act(c, q) = Append(q, e)
  BY DEF Act
<1> HIDE DEF e
<1>3. Follows(e, h, h)
  BY <1>1 DEF Follows
<1>4. Aimed(<<e>>, n, a)
  BY <1>1 DEF Aimed
<1>5. h \in 0..n
  BY DEF Pointed
<1>6. Pointed(Append(q, e), h, n, a, down)
  BY <1>1, <1>3, <1>4, <1>5, PointedGrows
<1> QED BY <1>2, <1>6

\* The first event of the pointer, or one before it, is taken.
LEMMA PointedNext ==
  ASSUME NEW q, NEW h, NEW n \in Nat, NEW a \in Nat, NEW down, Pointed(q, h, n, a, down),
         NEW k \in 1..Len(q), \A i \in 1..(k - 1) : ~IsPointer(q[i])
  PROVE  /\ q[k] \in EventRecs
         /\ q[k].type = "Press" => q[k].target \in 1..n
         /\ q[k].type = "Unmap" => q[k].target \in Clients
         /\ q[k].type = "Theme" => a > 0
         /\ \E after : /\ Pointed(RemoveAt(q, k), h, n, a, after)
                       /\ q[k].type = "Press" => ~down /\ after
                       /\ q[k].type = "Motion" => down /\ after
                       /\ q[k].type = "Release" => down /\ ~after
                       /\ ~IsPointer(q[k]) /\ down => after
<1>1. q \in Seq(EventRecs) /\ down \in BOOLEAN /\ h \in 0..n /\ Aimed(q, n, a)
  BY DEF Pointed
<1>2. PICK up : Stream(q, h, up) /\ down = ~up[1]
  BY DEF Pointed
<1>3. up[k] = up[1] /\ \E vp : Stream(RemoveAt(q, k), h, vp) /\ vp[1] = up[k + 1]
  BY <1>1, <1>2, StreamShrinks
<1>4. PICK vp : Stream(RemoveAt(q, k), h, vp) /\ vp[1] = up[k + 1]
  BY <1>3
<1>5. q[k] \in EventRecs /\ RemoveAt(q, k) \in Seq(EventRecs)
  BY <1>1, RemoveAtIs
<1>6. Aimed(RemoveAt(q, k), n, a)
  BY <1>1, AimedStays
<1>7. Pointed(RemoveAt(q, k), h, n, a, ~vp[1])
  <2>1. (~vp[1]) \in BOOLEAN
    OBVIOUS
  <2> QED BY <1>1, <1>4, <1>5, <1>6, <2>1 DEF Pointed
<1>8. up[k] \in BOOLEAN /\ up[k + 1] \in BOOLEAN
  <2>1. k \in 1..(Len(q) + 1) /\ k + 1 \in 1..(Len(q) + 1)
    BY <1>1
  <2> QED BY <1>2, <2>1 DEF Stream
<1>9. /\ q[k].type = "Press" => up[k] /\ ~up[k + 1]
      /\ q[k].type = "Motion" => ~up[k] /\ ~up[k + 1]
      /\ q[k].type = "Release" => ~up[k] /\ up[k + 1]
      /\ ~IsPointer(q[k]) => up[k] = up[k + 1]
  BY <1>2 DEF Stream
<1>10. /\ q[k].type = "Press" => ~down /\ ~vp[1]
       /\ q[k].type = "Motion" => down /\ ~vp[1]
       /\ q[k].type = "Release" => down /\ vp[1]
       /\ ~IsPointer(q[k]) /\ down => ~vp[1]
  BY <1>2, <1>3, <1>4, <1>9, Zenon
<1> QED BY <1>1, <1>5, <1>7, <1>10 DEF Aimed

\* No loop listens, and no button is pressed next.
LEMMA NothingGrabbed ==
  ASSUME NEW F, NEW down, Due(F) \in {"none", "drag"}
  PROVE  Grabs(F, {}, down)
BY DEF Grabs

\* What is called next, and where the innermost loop is.
LEMMA DueIs ==
  ASSUME NEW F, Shape(F), F # << >>
  PROVE  /\ OnlyDrags(F[Len(F)].todo) => Due(F) \in {"none", "drag"}
         /\ IsLoop(F[Len(F)]) => Due(F) = "none" /\ Innermost(F) = Len(F)
         /\ F[Len(F)].kind = "dispatch" => Innermost(F) = Len(F) - 1
<1>1. F \in Seq(FrameRecs) /\ Len(F) \in 1..Len(F)
  <2>1. F \in Seq(FrameRecs)
    BY DEF Shape
  <2> QED BY <2>1
<1>2. F[Len(F)].todo \in Seq(Calls)
  <2>1. F[Len(F)] \in FrameRecs
    BY <1>1
  <2> QED BY <2>1 DEF FrameRecs
<1>3. OnlyDrags(F[Len(F)].todo) => Due(F) \in {"none", "drag"}
  BY <1>2 DEF OnlyDrags, Due
<1>4. F[Len(F)].kind = "dispatch" <=> ~IsLoop(F[Len(F)])
  BY <1>1, KindsAre
<1>5. IsLoop(F[Len(F)]) => Due(F) = "none" /\ Innermost(F) = Len(F)
  BY <1>4 DEF Due, Innermost
<1>6. F[Len(F)].kind = "dispatch" => Innermost(F) = Len(F) - 1
  BY DEF Innermost
<1> QED BY <1>3, <1>5, <1>6

\* The loops of buttons are finitely many.
LEMMA ButtonsForIs ==
  ASSUME NEW F, Shape(F), NEW c
  PROVE  IsFiniteSet(ButtonsFor(F, c)) /\ Cardinality(ButtonsFor(F, c)) \in Nat
<1>1. Len(F) \in Nat
  BY DEF Shape
<1>2. IsFiniteSet(1..Len(F))
  BY <1>1, FS_Interval
<1>3. ButtonsFor(F, c) \subseteq 1..Len(F)
  BY DEF ButtonsFor
<1> QED BY <1>2, <1>3, FS_Subset, FS_CardinalityType

\* The loops of buttons are the same, and the objects go on.
LEMMA BooksStay ==
  ASSUME NEW F, NEW G, Shape(F), Shape(G), SameButtons(F, G),
         NEW s \in States, NEW t \in States, Points(F, s.decor), Onward(s, t),
         \A c \in Clients : /\ t.client[c].refs = s.client[c].refs
                            /\ t.client[c].managed = s.client[c].managed,
         NEW a, Books(F, s, a),
         a = 0 => \A c \in Clients : t.client[c].decor = s.client[c].decor
  PROVE  Books(G, t, a)
<1>1. ASSUME NEW c \in Clients PROVE ButtonsFor(G, c) = ButtonsFor(F, c)
  BY DEF ButtonsFor, SameButtons
<1>2. Refs(G, t)
  BY <1>1 DEF Books, Refs
<1>3. Pressed(G, t)
  <2> SUFFICES ASSUME NEW d \in 1..Len(t.decor), t.decor[d].pressed
               PROVE  \/ \E i \in 1..Len(G) : G[i].kind = "button" /\ G[i].decor = d
                      \/ t.client[t.decor[d].client].onPress
    BY DEF Pressed
  <2>1. d \in 1..Len(s.decor)
    <3>1. Len(s.decor) \in Nat /\ Len(t.decor) \in Nat
      BY StateIs
    <3> QED BY <3>1 DEF Onward
  <2>2. /\ t.decor[d].client = s.decor[d].client /\ s.decor[d].pressed
        /\ s.decor[d].client \in Clients
    BY <2>1, StateIs DEF Onward
  <2>3. \/ \E i \in 1..Len(F) : F[i].kind = "button" /\ F[i].decor = d
        \/ s.client[s.decor[d].client].onPress
    BY <2>1, <2>2 DEF Books, Pressed
  <2> QED BY <2>2, <2>3 DEF SameButtons, Onward
<1>4. ASSUME a = 0 PROVE Kept(G, t)
  <2> SUFFICES ASSUME NEW i \in 1..Len(G), G[i].kind = "button"
               PROVE  t.client[G[i].client].decor = G[i].decor
    BY DEF Kept
  <2>1. i \in 1..Len(F) /\ F[i].kind = "button" /\ G[i].decor = F[i].decor /\ G[i].client = F[i].client
    BY DEF SameButtons
  <2>2. F[i].client \in Clients
    BY <2>1, StateIs DEF Points, PointsTo, IsLoop
  <2> QED BY <1>4, <2>1, <2>2 DEF Books, Kept
<1> QED BY <1>2, <1>3, <1>4 DEF Books

-----------------------------------------------------------------------------
(* The frames, action by action.                                             *)

\* The innermost frame is now f.
WithTop(F, f) == [F EXCEPT ![Len(F)] = f]

\* The next handler is called, or skipped.
Later(F) == WithTop(F, [F[Len(F)] EXCEPT !.todo = Tail(@)])

\* A loop goes on to another of its states.
LEMMA LoopTurns ==
  ASSUME NEW F, Shape(F), F # << >>, IsLoop(F[Len(F)]), NEW D, Points(F, D),
         NEW f \in FrameRecs, f.kind = F[Len(F)].kind, f.decor = F[Len(F)].decor,
         f.client = F[Len(F)].client, f.todo = F[Len(F)].todo, f.at \in {"look", "spin"},
         NEW G, G = WithTop(F, f)
  PROVE  /\ Shape(G) /\ Points(G, D) /\ SameButtons(F, G)
         /\ Len(G) = Len(F) /\ G # << >> /\ G[Len(F)] = f
         /\ IsLoop(G[Len(G)])
<1>1. F \in Seq(FrameRecs) /\ Len(F) \in 1..Len(F) /\ Len(F) \in Nat
  <2>1. F \in Seq(FrameRecs)
    BY DEF Shape
  <2> QED BY <2>1
<1>2. IsLoop(f) /\ f.kind # "dispatch"
  BY DEF IsLoop
<1>3. Proper(f)
  BY <1>2 DEF Proper
<1>4. \A j \in 1..Len(f.todo) : f.todo[j].decor \in 1..Len(D)
  BY <1>1 DEF Points, PointsTo
<1>5. /\ Shape(G) /\ Points(G, D) /\ SameButtons(F, G)
      /\ Len(G) = Len(F) /\ G[Len(F)] = f
  BY <1>3, <1>4, TopChanged DEF WithTop
<1>6. G # << >>
  BY <1>1, <1>5
<1> QED BY <1>2, <1>5, <1>6

\* The innermost frame, a call of handlers, is done with the first of them.
LEMMA CallGone ==
  ASSUME NEW F, Shape(F), F # << >>, F[Len(F)].kind = "dispatch", F[Len(F)].todo # << >>,
         NEW D, Points(F, D)
  PROVE  LET k == F[Len(F)]
             G == Later(F)
         IN  /\ Shape(G) /\ Points(G, D) /\ SameButtons(F, G)
             /\ Len(G) = Len(F) /\ G # << >>
             /\ G[Len(G)].kind = "dispatch" /\ OnlyDrags(G[Len(G)].todo)
             /\ G[Len(G)].todo = Tail(k.todo)
             /\ Head(k.todo) = k.todo[1] /\ Head(k.todo) \in Calls
             /\ Head(k.todo).decor \in 1..Len(D)
             /\ Due(F) = Head(k.todo).kind
<1> DEFINE k == F[Len(F)]
           f == [k EXCEPT !.todo = Tail(@)]
           G == WithTop(F, f)
<1>1. F \in Seq(FrameRecs) /\ Len(F) \in 1..Len(F) /\ Len(F) \in Nat
  <2>1. F \in Seq(FrameRecs)
    BY DEF Shape
  <2> QED BY <2>1
<1>2. k \in FrameRecs /\ Proper(k) /\ PointsTo(k, D)
  BY <1>1 DEF Shape, Points
<1>3. k.todo \in Seq(Calls) /\ Tail(k.todo) \in Seq(Calls)
  BY <1>2 DEF FrameRecs
<1>4. /\ f \in FrameRecs /\ f.kind = k.kind /\ f.decor = k.decor /\ f.client = k.client
      /\ f.todo = Tail(k.todo) /\ f.at = k.at
  <2>1. \A z \in Seq(Calls) :
          LET g == [k EXCEPT !.todo = z]
          IN  /\ g \in FrameRecs /\ g.kind = k.kind /\ g.decor = k.decor /\ g.client = k.client
              /\ g.todo = z /\ g.at = k.at
    BY <1>2 DEF FrameRecs
  <2> HIDE DEF k
  <2> QED BY <1>3, <2>1
<1>5. OnlyDrags(Tail(k.todo))
  BY <1>2 DEF Proper
<1>6. OnlyDrags(Tail(Tail(k.todo)))
  <2>1. \A b \in Seq(Calls) : \A j \in 1..Len(Tail(b)) : Tail(b)[j] = b[j + 1] /\ j + 1 \in 1..Len(b)
    OBVIOUS
  <2>2. \A j \in 1..Len(Tail(Tail(k.todo))) :
          /\ Tail(Tail(k.todo))[j] = Tail(k.todo)[j + 1]
          /\ j + 1 \in 1..Len(Tail(k.todo))
    BY <1>3, <2>1
  <2> QED BY <1>5, <2>2 DEF OnlyDrags
<1>7. Proper(f)
  BY <1>2, <1>4, <1>6 DEF Proper, IsLoop
<1>8. \A j \in 1..Len(f.todo) : f.todo[j].decor \in 1..Len(D)
  <2>1. \A j \in 1..Len(Tail(k.todo)) : Tail(k.todo)[j] = k.todo[j + 1] /\ j + 1 \in 1..Len(k.todo)
    BY <1>3
  <2> QED BY <1>2, <1>4, <2>1 DEF PointsTo
<1>9. Head(k.todo) = k.todo[1] /\ Head(k.todo) \in Calls /\ 1 \in 1..Len(k.todo)
  BY <1>3
<1>10. Head(k.todo).decor \in 1..Len(D) /\ Due(F) = Head(k.todo).kind
  BY <1>2, <1>9 DEF PointsTo, Due
<1> HIDE DEF f
<1>11. /\ Shape(G) /\ Points(G, D) /\ SameButtons(F, G)
       /\ Len(G) = Len(F) /\ G[Len(F)] = f
  <2>1. /\ Shape(G) /\ Points(G, D) /\ SameButtons(F, G)
        /\ Len(G) = Len(F) /\ G[Len(F)] = f
    BY <1>4, <1>7, <1>8, TopChanged DEF WithTop
  <2> QED BY <2>1
<1>12. G # << >>
  BY <1>1, <1>11
<1> HIDE DEF G
<1>13. G = Later(F)
  BY DEF G, f, Later
<1> QED BY <1>4, <1>5, <1>9, <1>10, <1>11, <1>12, <1>13

\* When the innermost loop is told of the release, nobody listens any more.
LEMMA LoopDeaf ==
  ASSUME NEW F, Shape(F), F # << >>, IsLoop(F[Len(F)]), NEW s \in States, Objects(s),
         NEW down, Grabs(F, s.release, down)
  PROVE  /\ {h \in s.release : h.id # s.decor[F[Len(F)].decor].releaseId} = {}
         /\ s.decor[F[Len(F)].decor].releaseId = None => s.release = {}
<1>1. Innermost(F) = Len(F)
  BY DueIs
<1>2. ASSUME NEW h \in s.release PROVE s.decor[F[Len(F)].decor].releaseId = h.id /\ h.id # None
  <2>1. h \in Listeners
    BY StateIs
  <2>2. h.id # None
    BY <2>1 DEF Listeners, None
  <2>3. s.decor[h.decor].releaseId = h.id
    BY DEF Objects, Heard
  <2>4. h.decor = F[Len(F)].decor
    BY <1>1 DEF Grabs
  <2> QED BY <2>2, <2>3, <2>4
<1> QED BY <1>2

\* A button's loop begins.
LEMMA ButtonAdded ==
  ASSUME NEW F, NEW G, Shape(F), Shape(G), Len(G) = Len(F) + 1,
         \A i \in 1..Len(F) : G[i].kind = F[i].kind /\ G[i].client = F[i].client,
         G[Len(F) + 1].kind = "button"
  PROVE  \A c : Cardinality(ButtonsFor(G, c)) = Cardinality(ButtonsFor(F, c))
                                               + (IF c = G[Len(F) + 1].client THEN 1 ELSE 0)
<1> TAKE c
<1>1. Len(F) \in Nat
  BY DEF Shape
<1>2. ButtonsFor(G, c) = IF c = G[Len(F) + 1].client THEN ButtonsFor(F, c) \cup {Len(F) + 1}
                         ELSE ButtonsFor(F, c)
  <2>1. \A i \in 1..Len(G) : i \in 1..Len(F) \/ i = Len(F) + 1
    BY <1>1
  <2>2. \A i \in 1..Len(F) : i \in 1..Len(G)
    BY <1>1
  <2>3. Len(F) + 1 \in 1..Len(G)
    BY <1>1
  <2> QED BY <2>1, <2>2, <2>3 DEF ButtonsFor
<1>3. Len(F) + 1 \notin ButtonsFor(F, c)
  BY <1>1 DEF ButtonsFor
<1>4. IsFiniteSet(ButtonsFor(F, c)) /\ Cardinality(ButtonsFor(F, c)) \in Nat
  BY ButtonsForIs
<1>5. Cardinality(ButtonsFor(F, c) \cup {Len(F) + 1}) = Cardinality(ButtonsFor(F, c)) + 1
  BY <1>3, <1>4, FS_AddElement
<1> QED BY <1>2, <1>4, <1>5

\* A button's loop ends.
LEMMA ButtonGone ==
  ASSUME NEW F, Shape(F), F # << >>, F[Len(F)].kind = "button", NEW G, Shape(G),
         Len(G) = Len(F) - 1, \A i \in 1..Len(G) : G[i] = F[i]
  PROVE  \A c : Cardinality(ButtonsFor(F, c)) = Cardinality(ButtonsFor(G, c))
                                               + (IF c = F[Len(F)].client THEN 1 ELSE 0)
<1>1. F \in Seq(FrameRecs) /\ Len(F) \in Nat /\ Len(F) # 0
  <2>1. F \in Seq(FrameRecs)
    BY DEF Shape
  <2> QED BY <2>1
<1>2. Len(F) = Len(G) + 1
  BY <1>1
<1>3. \A i \in 1..Len(G) : F[i].kind = G[i].kind /\ F[i].client = G[i].client
  OBVIOUS
<1>4. F[Len(G) + 1].kind = "button" /\ F[Len(G) + 1] = F[Len(F)]
  BY <1>2
<1> QED BY <1>2, <1>3, <1>4, ButtonAdded

-----------------------------------------------------------------------------
(* Every action keeps the invariant.                                         *)

\* What the invariant says, in the names of the variables.
LEMMA InvIs ==
  ASSUME IInv
  PROVE  /\ State \in States /\ Objects(State)
         /\ State.client = client /\ State.decor = decor /\ State.release = release /\ State.themed = themed
         /\ decor \in Seq(DecorRecs) /\ Len(decor) \in Nat
         /\ Shape(frames) /\ Points(frames, decor)
         /\ themes \in Nat /\ (misused = "button" => themes > 0)
         /\ Books(frames, State, themes)
         /\ \E down : Pointed(queue, held, Len(decor), themes, down) /\ Grabs(frames, release, down)
         /\ DOMAIN decor = 1..Len(decor) /\ DOMAIN frames = 1..Len(frames)
<1>1. State.client = client /\ State.decor = decor /\ State.release = release /\ State.themed = themed
  BY DEF State
<1>2. State \in States
  BY DEF IInv, Whole
<1>3. decor \in Seq(DecorRecs)
  BY <1>1, <1>2, StateIs
<1>4. frames \in Seq(FrameRecs)
  BY DEF IInv, Whole, Shape
<1>5. Len(decor) \in Nat /\ DOMAIN decor = 1..Len(decor) /\ DOMAIN frames = 1..Len(frames)
  BY <1>3, <1>4
<1> HIDE DEF State
<1> QED BY <1>1, <1>2, <1>3, <1>5 DEF IInv, Whole

\* The objects after a step.
LEMMA BecomesIs ==
  ASSUME NEW t \in States, Becomes(t)
  PROVE  State' = t
<1>1. t = [client |-> t.client, decor |-> t.decor, release |-> t.release, themed |-> t.themed]
  BY DEF States
<1> QED BY <1>1 DEF Becomes, State

\* The objects if no step changes them.
LEMMA StateStays ==
  ASSUME UNCHANGED <<client, decor, release, themed>>
  PROVE  State' = State
BY DEF State

\* The user or an application adds an event.
LEMMA ArrivalKeeps ==
  ASSUME IInv, NEW e \in EventRecs, queue' = Append(queue, e), Follows(e, held, held'),
         held' \in 0..Len(decor), themes' \in Nat, themes <= themes', Aimed(<<e>>, Len(decor), themes'),
         UNCHANGED <<client, decor, release, themed, frames, misused>>
  PROVE  IInv'
<1>1. PICK down : Pointed(queue, held, Len(decor), themes, down) /\ Grabs(frames, release, down)
  BY InvIs
<1>2. Pointed(queue, held, Len(decor), themes', down)
  BY <1>1, InvIs, PointedStays
<1>3. Pointed(queue', held', Len(decor), themes', down)
  BY <1>2, InvIs, PointedGrows
<1>4. State' = State /\ State.decor = decor /\ State.release = release /\ decor' = decor /\ release' = release
  BY InvIs, StateStays
<1>5. Books(frames, State, themes')
  BY InvIs DEF Books
<1>6. Whole(State, frames, queue', held', themes', misused)
  BY <1>1, <1>3, <1>4, <1>5, InvIs DEF Whole
<1>7. frames' = frames /\ misused' = misused
  OBVIOUS
<1> HIDE DEF State
<1> QED BY <1>4, <1>6, <1>7 DEF IInv

\* The user presses, moves and lets go, windows are withdrawn, the theme is set.
LEMMA EnvironmentKeeps ==
  ASSUME IInv, Environment
  PROVE  IInv'
<1> USE DEF Posted, EventRecs, Follows, IsPointer, None
<1>0. /\ held \in 0..Len(decor) /\ themes \in Nat /\ Len(decor) \in Nat
      /\ \A c \in Clients : Owns(State, c)
      /\ State.client = client /\ State.decor = decor
  BY InvIs DEF Pointed, Objects
<1>1. ASSUME NEW on \in {"button", "title"}, Move(on) PROVE IInv'
  <2> DEFINE e == [type |-> "Motion", target |-> held, on |-> on]
  <2>1. Aimed(<<e>>, Len(decor), themes')
    BY DEF Aimed
  <2>2. e \in EventRecs /\ Follows(e, held, held') /\ held' \in 0..Len(decor) /\ themes' = themes
    BY <1>0, <1>1 DEF Move
  <2>3. /\ queue' = Append(queue, e)
        /\ UNCHANGED <<client, decor, release, themed, frames, misused>>
    BY <1>1 DEF Move
  <2> HIDE DEF e, EventRecs, Follows
  <2> QED BY <1>0, <2>1, <2>2, <2>3, ArrivalKeeps
<1>2. ASSUME NEW on \in {"button", "title"}, NEW c \in Clients, Press(c, on) PROVE IInv'
  <2> DEFINE e == [type |-> "Press", target |-> client[c].decor, on |-> on]
  <2>1. client[c].decor \in 1..Len(decor) /\ held' = client[c].decor
    BY <1>0, <1>2 DEF Press, Owns
  <2>2. Aimed(<<e>>, Len(decor), themes')
    BY <2>1 DEF Aimed
  <2>3. e \in EventRecs /\ Follows(e, held, held') /\ held' \in 0..Len(decor) /\ themes' = themes
    BY <1>0, <1>2, <2>1 DEF Press
  <2>4. /\ queue' = Append(queue, e)
        /\ UNCHANGED <<client, decor, release, themed, frames, misused>>
    BY <1>2, <2>1 DEF Press
  <2> HIDE DEF e, EventRecs, Follows
  <2> QED BY <1>0, <2>2, <2>3, <2>4, ArrivalKeeps
<1>3. ASSUME NEW c \in Clients, Withdraw(c) PROVE IInv'
  <2> DEFINE e == [type |-> "Unmap", target |-> c, on |-> "window"]
  <2>1. Aimed(<<e>>, Len(decor), themes')
    BY DEF Aimed
  <2>2. e \in EventRecs /\ Follows(e, held, held') /\ held' \in 0..Len(decor) /\ themes' = themes
    BY <1>0, <1>3 DEF Withdraw
  <2>3. /\ queue' = Append(queue, e)
        /\ UNCHANGED <<client, decor, release, themed, frames, misused>>
    BY <1>3 DEF Withdraw
  <2> HIDE DEF e, EventRecs, Follows
  <2> QED BY <1>0, <2>1, <2>2, <2>3, ArrivalKeeps
<1>4. ASSUME NEW on \in {"button", "title"}, LetGo(on) PROVE IInv'
  <2> DEFINE e == [type |-> "Release", target |-> held, on |-> on]
  <2>1. Aimed(<<e>>, Len(decor), themes')
    BY DEF Aimed
  <2>2. e \in EventRecs /\ Follows(e, held, held') /\ held' \in 0..Len(decor) /\ themes' = themes
    BY <1>0, <1>4 DEF LetGo
  <2>3. /\ queue' = Append(queue, e)
        /\ UNCHANGED <<client, decor, release, themed, frames, misused>>
    BY <1>4 DEF LetGo
  <2> HIDE DEF e, EventRecs, Follows
  <2> QED BY <1>0, <2>1, <2>2, <2>3, ArrivalKeeps
<1>5. ASSUME SetTheme PROVE IInv'
  <2> DEFINE e == [type |-> "Theme", target |-> None, on |-> "root"]
  <2>1. themes' = themes + 1 /\ themes' > 0
    BY <1>0, <1>5 DEF SetTheme
  <2>2. Aimed(<<e>>, Len(decor), themes')
    BY <2>1 DEF Aimed
  <2>3. e \in EventRecs /\ Follows(e, held, held') /\ held' \in 0..Len(decor)
    BY <1>0, <1>5 DEF SetTheme
  <2>4. /\ queue' = Append(queue, e)
        /\ UNCHANGED <<client, decor, release, themed, frames, misused>>
    BY <1>5 DEF SetTheme
  <2>5. themes' \in Nat /\ themes <= themes'
    BY <1>0, <2>1
  <2> HIDE DEF e, EventRecs, Follows
  <2> QED BY <2>2, <2>3, <2>4, <2>5, ArrivalKeeps
<1> HIDE DEF Posted, EventRecs, Follows
<1> QED BY <1>1, <1>2, <1>3, <1>4, <1>5 DEF Environment, Release

\* The invariant after a step of the program that leaves the buttons' loops as
\* they are.
LEMMA StepKeeps ==
  ASSUME IInv, NEW t \in States, Objects(t), Onward(State, t), State' = t,
         \A c \in Clients : /\ t.client[c].refs = client[c].refs
                            /\ t.client[c].managed = client[c].managed,
         themes = 0 => \A c \in Clients : t.client[c].decor = client[c].decor,
         Shape(frames'), Points(frames', t.decor), SameButtons(frames, frames'),
         NEW down, Pointed(queue', held', Len(t.decor), themes, down), Grabs(frames', t.release, down),
         UNCHANGED <<themes, misused>>
  PROVE  IInv'
<1>1. Books(frames', t, themes)
  <2>1. Points(frames, State.decor) /\ State.client = client
    BY InvIs
  <2> HIDE DEF State
  <2> QED BY <2>1, InvIs, BooksStay
<1>2. Whole(t, frames', queue', held', themes, misused)
  BY <1>1, InvIs DEF Whole
<1> HIDE DEF State
<1> QED BY <1>2 DEF IInv

\* Objects that stay the same go on.
LEMMA SelfOnward ==
  ASSUME NEW s \in States
  PROVE  Onward(s, s)
BY StateIs DEF Onward

\* The innermost frame by itself.
LEMMA TopIs ==
  ASSUME NEW F, Shape(F), F # << >>
  PROVE  F[Len(F)] \in FrameRecs /\ Proper(F[Len(F)]) /\ Len(F) \in 1..Len(F)
<1>1. F \in Seq(FrameRecs)
  BY DEF Shape
<1>2. Len(F) \in 1..Len(F)
  BY <1>1
<1> QED BY <1>1, <1>2 DEF Shape

\* Nothing to do: the loop looks around again.
LEMMA IdleKeeps ==
  ASSUME IInv, Idle
  PROVE  IInv'
<1> DEFINE n == Len(frames)
           f == [frames[n] EXCEPT !.at = "look"]
<1>1. frames # << >> /\ frames[n].at = "spin" /\ frames' = WithTop(frames, f)
  BY DEF Idle, Goes, Top, Depth, Last, WithTop
<1>2. frames[n] \in FrameRecs /\ Proper(frames[n])
  BY <1>1, InvIs, TopIs
<1>3. IsLoop(frames[n])
  BY <1>1, <1>2 DEF Proper, IsLoop, FrameRecs
<1>4. /\ f \in FrameRecs /\ f.kind = frames[n].kind /\ f.decor = frames[n].decor
      /\ f.client = frames[n].client /\ f.todo = frames[n].todo /\ f.at = "look"
  BY <1>2 DEF FrameRecs
<1> HIDE DEF f
<1>6. /\ Shape(frames') /\ Points(frames', decor) /\ SameButtons(frames, frames')
      /\ Len(frames') = n /\ frames' # << >> /\ frames'[n] = f /\ IsLoop(frames'[Len(frames')])
  <2>1. f.at \in {"look", "spin"}
    BY <1>4
  <2>2. Shape(frames) /\ Points(frames, decor)
    BY InvIs
  <2> QED BY <1>1, <1>3, <1>4, <2>1, <2>2, LoopTurns
<1>7. PICK down : Pointed(queue, held, Len(decor), themes, down) /\ Grabs(frames, release, down)
  BY InvIs
<1>8. Grabs(frames', release, down)
  <2>1. Due(frames') = "none" /\ Innermost(frames') = n
    BY <1>6, DueIs
  <2>2. Due(frames) = "none" /\ Innermost(frames) = n
    BY <1>1, <1>3, InvIs, DueIs
  <2> HIDE DEF n
  <2> QED BY <1>4, <1>6, <1>7, <2>1, <2>2 DEF Grabs
<1>9. UNCHANGED <<client, decor, release, themed, held, queue, themes, misused>>
  BY DEF Idle
<1>10. State' = State
  BY <1>9, StateStays
<1> QED BY <1>6, <1>7, <1>8, <1>9, <1>10, InvIs, SelfOnward, StepKeeps

\* The event is handled, and mb_wm_sync realizes decors.
LEMMA DispatchedKeeps ==
  ASSUME IInv, Dispatched
  PROVE  IInv'
<1> DEFINE n == Len(frames)
           r(d) == IF decor[d].refs > 0 /\ client[decor[d].client].managed
                   THEN [decor[d] EXCEPT !.realized = TRUE] ELSE decor[d]
           t == [client |-> client, decor |-> decor', release |-> release, themed |-> themed]
<1>1. /\ frames # << >> /\ frames[n].kind = "dispatch" /\ frames[n].todo = << >>
      /\ frames' = Front(frames) /\ decor' = [d \in DOMAIN decor |-> r(d)]
      /\ UNCHANGED <<client, release, themed, held, queue, themes, misused>>
  BY DEF Dispatched, Top, Last, Ends
<1>2. State' = t
  BY <1>1 DEF State
<1>3. /\ State \in States /\ Objects(State)
      /\ State.client = client /\ State.decor = decor /\ State.release = release /\ State.themed = themed
      /\ decor \in Seq(DecorRecs) /\ Len(decor) \in Nat /\ DOMAIN decor = 1..Len(decor)
      /\ Shape(frames) /\ Points(frames, decor)
  BY InvIs
<1> HIDE DEF State
<1>4. ASSUME NEW d \in 1..Len(decor)
      PROVE  /\ r(d) \in DecorRecs
             /\ r(d).client = decor[d].client /\ r(d).refs = decor[d].refs
             /\ r(d).pressed = decor[d].pressed /\ r(d).releaseId = decor[d].releaseId
             /\ decor[d].refs = 0 => r(d) = decor[d]
  <2>1. decor[d] \in DecorRecs
    BY <1>3
  <2> DEFINE x == [decor[d] EXCEPT !.realized = TRUE]
  <2>2. /\ x \in DecorRecs
        /\ x.client = decor[d].client /\ x.refs = decor[d].refs
        /\ x.pressed = decor[d].pressed /\ x.releaseId = decor[d].releaseId
    BY <2>1 DEF DecorRecs
  <2> HIDE DEF x
  <2>3. (r(d) = x /\ decor[d].refs > 0) \/ r(d) = decor[d]
    BY DEF x
  <2>4. decor[d].refs = 0 => ~(decor[d].refs > 0)
    OBVIOUS
  <2> HIDE DEF r
  <2> QED BY <2>1, <2>2, <2>3, <2>4
<1> HIDE DEF r
<1>5. /\ decor' \in Seq(DecorRecs) /\ Len(decor') = Len(decor)
      /\ \A d \in 1..Len(decor) : decor'[d] = r(d)
  BY <1>1, <1>3, <1>4
<1>6. t \in States
  <2>1. client \in [Clients -> ClientRecs] /\ release \in SUBSET Listeners /\ themed \in Seq(Clients)
    BY <1>3, StateIs
  <2> QED BY <1>5, <2>1 DEF States
<1>7. t.client = client /\ t.decor = decor' /\ t.release = release /\ t.themed = themed
  OBVIOUS
<1> HIDE DEF t
<1>8. Heard(t)
  BY <1>3, <1>4, <1>5, <1>7 DEF Objects, Heard
<1>9. Objects(t)
  BY <1>3, <1>4, <1>5, <1>6, <1>7, <1>8, DecorsChange
<1>10. Onward(State, t)
  BY <1>3, <1>4, <1>5, <1>7 DEF Onward
<1>11. PICK down : Pointed(queue, held, Len(decor), themes, down) /\ Grabs(frames, release, down)
  BY InvIs
<1>12. /\ Shape(frames') /\ Points(frames', decor) /\ SameButtons(frames, frames')
       /\ Len(frames') = n - 1 /\ \A i \in 1..Len(frames') : frames'[i] = frames[i]
       /\ frames' = << >> \/ IsLoop(frames'[Len(frames')])
  BY <1>1, <1>3, TopGone
<1>13. Points(frames', t.decor)
  <2>1. \A d \in 1..Len(decor) : t.decor[d].client = decor[d].client /\ Len(t.decor) = Len(decor)
    BY <1>4, <1>5, <1>7
  <2>2. t.decor = decor' /\ Len(decor') = Len(decor)
    BY <1>5, <1>7
  <2> QED BY <1>12, <2>1, <2>2 DEF Points, PointsTo
<1>14. Grabs(frames', t.release, down)
  <2>1. Innermost(frames) = n - 1 /\ Due(frames) = "none" /\ n \in 1..n /\ n \in Nat
    BY <1>1, <1>3, DueIs, TopIs DEF Due
  <2>2. Due(frames') = "none" /\ Innermost(frames') = n - 1
    <3>1. CASE frames' = << >>
      BY <1>12, <3>1 DEF Due, Innermost
    <3>2. CASE frames' # << >>
      BY <1>12, <3>2, DueIs
    <3> QED BY <3>1, <3>2
  <2>3. n - 1 > 0 => frames'[n - 1] = frames[n - 1]
    BY <1>12, <2>1
  <2> HIDE DEF n
  <2> QED BY <1>7, <1>11, <2>1, <2>2, <2>3 DEF Grabs
<1> QED BY <1>1, <1>2, <1>3, <1>5, <1>6, <1>7, <1>9, <1>10, <1>11, <1>12, <1>13, <1>14, StepKeeps

\* What holds when a handler is about to be called.
LEMMA CallingIs ==
  ASSUME IInv, Calling
  PROVE  /\ [frames EXCEPT ![Depth] = Called] = Later(frames)
         /\ Shape(Later(frames)) /\ Points(Later(frames), decor) /\ SameButtons(frames, Later(frames))
         /\ Len(Later(frames)) = Len(frames) /\ Later(frames) # << >>
         /\ Later(frames)[Len(Later(frames))].kind = "dispatch"
         /\ OnlyDrags(Later(frames)[Len(Later(frames))].todo)
         /\ Due(Later(frames)) \in {"none", "drag"}
         /\ Handler = Head(frames[Len(frames)].todo)
         /\ Handler \in Calls /\ Handler.decor \in 1..Len(decor)
         /\ Due(frames) = Handler.kind
<1>1. /\ frames # << >> /\ frames[Len(frames)].kind = "dispatch" /\ frames[Len(frames)].todo # << >>
      /\ Handler = Head(frames[Len(frames)].todo)
  BY DEF Calling, Handler, Top, Last
<1>2. [frames EXCEPT ![Depth] = Called] = Later(frames)
  BY DEF Later, WithTop, Called, Top, Last, Depth
<1>3. Shape(frames) /\ Points(frames, decor)
  BY InvIs
<1>4. /\ Shape(Later(frames)) /\ Points(Later(frames), decor) /\ SameButtons(frames, Later(frames))
      /\ Len(Later(frames)) = Len(frames) /\ Later(frames) # << >>
      /\ Later(frames)[Len(Later(frames))].kind = "dispatch"
      /\ OnlyDrags(Later(frames)[Len(Later(frames))].todo)
      /\ Head(frames[Len(frames)].todo) \in Calls
      /\ Head(frames[Len(frames)].todo).decor \in 1..Len(decor)
      /\ Due(frames) = Head(frames[Len(frames)].todo).kind
  BY <1>1, <1>3, CallGone
<1>5. Due(Later(frames)) \in {"none", "drag"}
  BY <1>4, DueIs
<1> QED BY <1>1, <1>2, <1>4, <1>5

\* A handler that was removed: that of a release never is, as the only loop that
\* listens is the one the main loop runs in.
LEMMA CallNothingKeeps ==
  ASSUME IInv, CallNothing
  PROVE  IInv'
<1>1. /\ Calling /\ ~Installed(Handler) /\ frames' = Later(frames)
      /\ UNCHANGED <<client, decor, release, themed, held, queue, themes, misused>>
  BY CallingIs DEF CallNothing, Goes
<1>2. PICK down : Pointed(queue, held, Len(decor), themes, down) /\ Grabs(frames, release, down)
  BY InvIs
<1>3. Handler.kind # "release"
  <2> SUFFICES ASSUME Handler.kind = "release" PROVE FALSE
    OBVIOUS
  <2>1. PICK h \in release :
          frames[Len(frames)].todo = <<[kind |-> "release", decor |-> h.decor, id |-> h.id]>>
    BY <1>1, <1>2, CallingIs DEF Grabs
  <2>2. Handler = [kind |-> "release", decor |-> h.decor, id |-> h.id]
    BY <1>1, <2>1, CallingIs
  <2>3. h \in Listeners
    BY InvIs, StateIs
  <2>4. h = [id |-> h.id, decor |-> h.decor]
    BY <2>3 DEF Listeners
  <2> QED BY <1>1, <2>2, <2>4 DEF Installed
<1>4. release = {}
  <2>1. Handler.kind \in {"button", "drag"}
    BY <1>1, <1>3, CallingIs DEF Calls
  <2> QED BY <1>1, <1>2, <2>1, CallingIs DEF Grabs
<1>5. Grabs(frames', release, down)
  BY <1>1, <1>4, CallingIs, NothingGrabbed
<1>6. State' = State
  BY <1>1, StateStays
<1>7. Shape(frames') /\ Points(frames', decor) /\ SameButtons(frames, frames')
  BY <1>1, CallingIs
<1> QED BY <1>1, <1>2, <1>5, <1>6, <1>7, InvIs, SelfOnward, StepKeeps

\* The state with other clients and release handlers, and another d-th decor.
Remade(s, k, d, r, R) ==
  [client |-> k, decor |-> [s.decor EXCEPT ![d] = r], release |-> R, themed |-> s.themed]

\* The parts of such a state.
LEMMA DecorSet ==
  ASSUME NEW s \in States, NEW d \in 1..Len(s.decor), NEW r \in DecorRecs, NEW R \in SUBSET Listeners,
         NEW k \in [Clients -> ClientRecs]
  PROVE  LET t == Remade(s, k, d, r, R)
         IN  /\ t \in States /\ t.client = k /\ t.themed = s.themed /\ t.release = R
             /\ Len(t.decor) = Len(s.decor) /\ t.decor[d] = r
             /\ \A i \in 1..Len(s.decor) : i # d => t.decor[i] = s.decor[i]
<1>1. s.decor \in Seq(DecorRecs) /\ s.themed \in Seq(Clients)
  BY StateIs
<1>2. [s.decor EXCEPT ![d] = r] \in Seq(DecorRecs) /\ Len([s.decor EXCEPT ![d] = r]) = Len(s.decor)
  BY <1>1
<1>3. /\ [s.decor EXCEPT ![d] = r][d] = r
      /\ \A i \in 1..Len(s.decor) : i # d => [s.decor EXCEPT ![d] = r][i] = s.decor[i]
  BY <1>1
<1> QED BY <1>1, <1>2, <1>3 DEF States, Remade

\* The handler for the release is removed.
LEMMA UnlistenedIs ==
  ASSUME NEW s \in States, Objects(s), NEW d \in 1..Len(s.decor), s.decor[d].refs # 0
  PROVE  LET t == Unlistened(s, d)
         IN  /\ t \in States /\ Objects(t) /\ Onward(s, t)
             /\ t.client = s.client /\ t.themed = s.themed /\ Len(t.decor) = Len(s.decor)
             /\ \A i \in 1..Len(s.decor) : /\ t.decor[i].client = s.decor[i].client
                                           /\ t.decor[i].refs = s.decor[i].refs
                                           /\ t.decor[i].pressed = s.decor[i].pressed
             /\ t.release = {h \in s.release : h.id # s.decor[d].releaseId}
<1> DEFINE t == Unlistened(s, d)
           k == s.decor[d]
           r == [k EXCEPT !.releaseId = None]
           R == {h \in s.release : h.id # k.releaseId}
<1>1. s.decor \in Seq(DecorRecs) /\ k \in DecorRecs
  BY StateIs
<1>2. /\ r \in DecorRecs /\ r.client = k.client /\ r.refs = k.refs /\ r.pressed = k.pressed
  BY <1>1 DEF DecorRecs, None
<1>3. R \in SUBSET Listeners /\ s.client \in [Clients -> ClientRecs]
  BY StateIs
<1>4. t = Remade(s, s.client, d, r, R)
  <2>1. t = [s EXCEPT !.release = R, !.decor = [s.decor EXCEPT ![d] = r]]
    BY <1>1 DEF Unlistened, States
  <2> HIDE DEF t, r, R, k
  <2> QED BY <2>1 DEF States, Remade
<1> HIDE DEF t, r, R, k
<1>5. /\ t \in States /\ t.client = s.client /\ t.themed = s.themed /\ t.release = R
      /\ Len(t.decor) = Len(s.decor) /\ t.decor[d] = r
      /\ \A i \in 1..Len(s.decor) : i # d => t.decor[i] = s.decor[i]
  BY <1>2, <1>3, <1>4, DecorSet
<1>6. ASSUME NEW i \in 1..Len(s.decor)
      PROVE  /\ t.decor[i].client = s.decor[i].client
             /\ t.decor[i].refs = s.decor[i].refs
             /\ t.decor[i].pressed = s.decor[i].pressed
             /\ s.decor[i].refs = 0 => t.decor[i] = s.decor[i]
  BY <1>2, <1>5 DEF k
<1>7. Heard(t)
  <2>1. Heard(s)
    BY DEF Objects
  <2>2. ASSUME NEW h \in R PROVE h \in s.release /\ h.decor # d
    BY <2>1, <2>2 DEF R, k, Heard
  <2> QED BY <1>5, <2>1, <2>2 DEF Heard
<1>8. Objects(t)
  BY <1>5, <1>6, <1>7, DecorsChange
<1>9. Onward(s, t)
  <2>1. R \subseteq s.release /\ Len(s.decor) \in Nat
    BY StateIs DEF R
  <2> QED BY <1>5, <1>6, <2>1 DEF Onward
<1> QED BY <1>5, <1>6, <1>8, <1>9 DEF t, R, k

\* The main loop handles the release: the loop below it is deaf from now on.
LEMMA ReleaseElsewhereKeeps ==
  ASSUME IInv, ReleaseElsewhere
  PROVE  IInv'
<1> DEFINE d == Handler.decor
           t == Unlistened(State, d)
<1>1. /\ Calling /\ Handler.kind = "release" /\ Becomes(t) /\ frames' = Later(frames)
      /\ [id |-> Handler.id, decor |-> d] \in release
      /\ UNCHANGED <<held, queue, themes, misused>>
  BY CallingIs DEF ReleaseElsewhere, Goes, Installed
<1>2. PICK down : Pointed(queue, held, Len(decor), themes, down) /\ Grabs(frames, release, down)
  BY InvIs
<1>3. /\ State \in States /\ Objects(State)
      /\ State.client = client /\ State.decor = decor /\ State.release = release
      /\ d \in 1..Len(decor)
  BY <1>1, InvIs, CallingIs
<1> HIDE DEF d
<1>4. decor[d].releaseId = Handler.id /\ Handler.id # None /\ \A h \in release : h.id = Handler.id
  <2>1. [id |-> Handler.id, decor |-> d] \in Listeners
    BY <1>1, <1>3, StateIs
  <2>2. Handler.id # None
    BY <2>1 DEF Listeners, None
  <2>3. Heard(State)
    BY <1>3 DEF Objects
  <2> DEFINE g == [id |-> Handler.id, decor |-> d]
  <2>4. g \in release /\ g.id = Handler.id /\ g.decor = d
    BY <1>1
  <2> HIDE DEF g, State
  <2> QED BY <1>3, <2>2, <2>3, <2>4 DEF Heard
<1>5. decor[d].refs # 0
  <2>1. Owned(State, d)
    BY <1>3 DEF Objects
  <2> HIDE DEF State
  <2> QED BY <1>3, <1>4, <2>1 DEF Owned
<1> HIDE DEF State
<1>6. /\ t \in States /\ Objects(t) /\ Onward(State, t)
      /\ t.client = client /\ Len(t.decor) = Len(decor)
      /\ \A i \in 1..Len(decor) : t.decor[i].client = decor[i].client
      /\ t.release = {h \in release : h.id # decor[d].releaseId}
  BY <1>3, <1>5, UnlistenedIs
<1> HIDE DEF t
<1>7. t.release = {}
  BY <1>4, <1>6
<1>8. State' = t
  BY <1>1, <1>6, BecomesIs
<1>9. Points(frames', t.decor)
  <2>1. Points(frames', decor)
    BY <1>1, CallingIs
  <2> QED BY <1>6, <2>1 DEF Points, PointsTo
<1>10. Grabs(frames', t.release, down)
  BY <1>1, <1>7, CallingIs, NothingGrabbed
<1>11. Shape(frames') /\ SameButtons(frames, frames')
  BY <1>1, CallingIs
<1> QED BY <1>1, <1>2, <1>6, <1>8, <1>9, <1>10, <1>11, StepKeeps

\* A loop looks around.
LEMMA LookingIs ==
  ASSUME IInv, NEW kind \in {"button", "drag"}, Looking(kind)
  PROVE  /\ frames # << >> /\ Top = frames[Len(frames)] /\ Len(frames) \in 1..Len(frames)
         /\ Top \in FrameRecs /\ Top.kind = kind /\ Top.at = "look" /\ IsLoop(Top)
         /\ Top.decor \in 1..Len(decor) /\ Top.client = decor[Top.decor].client /\ Top.client \in Clients
         /\ Alive(Top.decor) => decor[Top.decor].refs # 0
<1>1. frames # << >> /\ Top = frames[Len(frames)] /\ Top.kind = kind /\ Top.at = "look"
  BY DEF Looking, Top, Last
<1>2. Top \in FrameRecs /\ Len(frames) \in 1..Len(frames)
  BY <1>1, InvIs, TopIs
<1>3. IsLoop(Top)
  BY <1>1 DEF IsLoop
<1>4. PointsTo(Top, decor)
  BY <1>1, <1>2, InvIs DEF Points
<1>5. Top.decor \in 1..Len(decor) /\ Top.client = decor[Top.decor].client
  BY <1>3, <1>4 DEF PointsTo
<1>6. Top.client \in Clients
  BY <1>5, InvIs, StateIs
<1>7. Alive(Top.decor) => decor[Top.decor].refs # 0
  <2>1. Top.decor # None
    BY <1>5 DEF None
  <2> QED BY <2>1 DEF Alive
<1> QED BY <1>1, <1>2, <1>3, <1>5, <1>6, <1>7

\* A loop finds its decor freed: that of a button only after a change of the theme.
LEMMA MisuseKeeps ==
  ASSUME IInv, NEW kind \in {"button", "drag"}, Misuse(kind)
  PROVE  IInv'
<1>1. /\ Looking(kind) /\ ~Alive(Top.decor) /\ misused' = kind
      /\ UNCHANGED <<client, decor, release, themed, frames, held, queue, themes>>
  BY DEF Misuse
<1>2. misused' = "button" => themes > 0
  <2> SUFFICES ASSUME kind = "button", ~(themes > 0) PROVE FALSE
    BY <1>1
  <2>1. themes = 0
    BY InvIs
  <2>2. Kept(frames, State)
    BY <2>1, InvIs DEF Books
  <2>3. client[Top.client].decor = Top.decor
    BY <1>1, <2>2, LookingIs, InvIs DEF Kept
  <2>4. Owns(State, Top.client)
    BY <1>1, LookingIs, InvIs DEF Objects
  <2>5. Top.decor # None /\ Alive(Top.decor)
    BY <2>3, <2>4, <1>1, LookingIs, InvIs DEF Owns, Alive, None
  <2> QED BY <1>1, <2>5
<1>3. State' = State
  BY <1>1, StateStays
<1>4. Whole(State, frames, queue, held, themes, misused')
  BY <1>2, InvIs DEF Whole
<1> HIDE DEF State
<1> QED BY <1>1, <1>3, <1>4 DEF IInv

\* The loop of a button hands control to the main loop: in it, the pointer's
\* release is still to come.
LEMMA ButtonSpinsKeeps ==
  ASSUME IInv, ButtonSpins
  PROVE  IInv'
<1> DEFINE n == Len(frames)
           f == [Top EXCEPT !.at = "spin"]
<1>1. /\ Looking("button") /\ frames' = WithTop(frames, f)
      /\ UNCHANGED <<client, decor, release, themed, held, queue, themes, misused>>
  BY DEF ButtonSpins, Goes, WithTop, Depth
<1>2. /\ frames # << >> /\ Top = frames[n] /\ Top \in FrameRecs /\ Top.kind = "button" /\ IsLoop(Top)
  BY <1>1, LookingIs
<1>3. /\ f \in FrameRecs /\ f.kind = Top.kind /\ f.decor = Top.decor
      /\ f.client = Top.client /\ f.todo = Top.todo /\ f.at = "spin"
  BY <1>2 DEF FrameRecs
<1> HIDE DEF f, Top
<1>4. Shape(frames) /\ Points(frames, decor)
  BY InvIs
<1>5. /\ Shape(frames') /\ Points(frames', decor) /\ SameButtons(frames, frames')
      /\ Len(frames') = n /\ frames' # << >> /\ frames'[n] = f /\ IsLoop(frames'[Len(frames')])
  <2>1. f.at \in {"look", "spin"}
    BY <1>3
  <2> QED BY <1>1, <1>2, <1>3, <1>4, <2>1, LoopTurns
<1>6. PICK down : Pointed(queue, held, Len(decor), themes, down) /\ Grabs(frames, release, down)
  BY InvIs
<1>7. Grabs(frames', release, down)
  <2>1. Due(frames') = "none" /\ Innermost(frames') = n
    BY <1>5, DueIs
  <2>2. Due(frames) = "none" /\ Innermost(frames) = n
    BY <1>2, <1>4, DueIs
  <2> HIDE DEF n
  <2> QED BY <1>2, <1>3, <1>5, <1>6, <2>1, <2>2 DEF Grabs
<1>8. State' = State
  BY <1>1, StateStays
<1> QED BY <1>1, <1>5, <1>6, <1>7, <1>8, InvIs, SelfOnward, StepKeeps

\* A loop ends that no longer listens: the frame below is one of the main loop.
LEMMA LoopEnds ==
  ASSUME IInv, NEW kind \in {"button", "drag"}, Looking(kind)
  PROVE  /\ Shape(Front(frames)) /\ Points(Front(frames), decor)
         /\ Len(Front(frames)) = Len(frames) - 1
         /\ \A i \in 1..Len(Front(frames)) : Front(frames)[i] = frames[i]
         /\ kind # "button" => SameButtons(frames, Front(frames))
         /\ \A down : Grabs(Front(frames), {}, down)
<1>1. frames # << >> /\ Top = frames[Len(frames)] /\ IsLoop(Top) /\ Top.kind = kind
  BY LookingIs
<1>2. Shape(frames) /\ Points(frames, decor)
  BY InvIs
<1>3. /\ Shape(Front(frames)) /\ Points(Front(frames), decor)
      /\ Len(Front(frames)) = Len(frames) - 1
      /\ \A i \in 1..Len(Front(frames)) : Front(frames)[i] = frames[i]
      /\ kind # "button" => SameButtons(frames, Front(frames))
      /\ Front(frames) # << >> /\ OnlyDrags(Front(frames)[Len(Front(frames))].todo)
  BY <1>1, <1>2, TopGone
<1>4. Due(Front(frames)) \in {"none", "drag"}
  BY <1>3, DueIs
<1> QED BY <1>3, <1>4, NothingGrabbed

\* A drag ends as its release was handled by the main loop.
LEMMA DragReleasedElsewhereKeeps ==
  ASSUME IInv, DragReleasedElsewhere
  PROVE  IInv'
<1>1. /\ Looking("drag") /\ Alive(Top.decor) /\ decor[Top.decor].releaseId = None
      /\ frames' = Front(frames)
      /\ UNCHANGED <<client, decor, release, themed, held, queue, themes, misused>>
  BY DEF DragReleasedElsewhere, Ends
<1>2. PICK down : Pointed(queue, held, Len(decor), themes, down) /\ Grabs(frames, release, down)
  BY InvIs
<1>3. release = {}
  <2>1. frames # << >> /\ IsLoop(frames[Len(frames)]) /\ decor[frames[Len(frames)].decor].releaseId = None
    BY <1>1, LookingIs
  <2>2. Shape(frames) /\ State \in States /\ Objects(State) /\ State.release = release /\ State.decor = decor
    BY InvIs
  <2> HIDE DEF State
  <2>3. Grabs(frames, State.release, down)
    BY <1>2, <2>2
  <2> QED BY <2>1, <2>2, <2>3, LoopDeaf
<1>4. Grabs(frames', release, down)
  BY <1>1, <1>3, LoopEnds
<1>5. Shape(frames') /\ Points(frames', decor) /\ SameButtons(frames, frames')
  BY <1>1, LoopEnds
<1>6. State' = State
  BY <1>1, StateStays
<1> QED BY <1>1, <1>2, <1>4, <1>5, <1>6, InvIs, SelfOnward, StepKeeps

\* XCheckMaskEvent and XMaskEvent take the first event of the pointer.
LEMMA NextPointerIs ==
  ASSUME IInv, PointerEvents # {}
  PROVE  /\ NextPointer \in 1..Len(queue)
         /\ queue[NextPointer].type \in {"Press", "Motion", "Release"}
         /\ \A i \in 1..(NextPointer - 1) : ~IsPointer(queue[i])
<1>1. queue \in Seq(EventRecs) /\ Len(queue) \in Nat /\ DOMAIN queue = 1..Len(queue)
  <2>1. queue \in Seq(EventRecs)
    BY InvIs DEF Pointed
  <2> QED BY <2>1
<1>2. PointerEvents \in SUBSET Nat /\ PointerEvents \subseteq 1..Len(queue)
  BY <1>1 DEF PointerEvents
<1>3. \E i \in PointerEvents : \A j \in PointerEvents : i <= j
  BY <1>2, LeastNumber
<1>4. NextPointer \in PointerEvents /\ \A j \in PointerEvents : NextPointer <= j
  BY <1>3 DEF NextPointer
<1>5. ASSUME NEW i \in 1..(NextPointer - 1) PROVE ~IsPointer(queue[i])
  <2>1. NextPointer \in 1..Len(queue)
    BY <1>2, <1>4
  <2>2. i \in 1..Len(queue) /\ ~(NextPointer <= i)
    BY <1>1, <2>1
  <2>3. i \notin PointerEvents
    BY <1>4, <2>2
  <2> QED BY <1>1, <2>2, <2>3 DEF PointerEvents, IsPointer
<1> QED BY <1>2, <1>4, <1>5 DEF PointerEvents

\* A drag takes an event of the pointer out of the queue.
LEMMA DragLoopKeeps ==
  ASSUME IInv, DragLoop
  PROVE  IInv'
<1> DEFINE n == Len(frames)
           k == NextPointer
           e == queue[k]
           f == [Top EXCEPT !.at = "spin", !.spins = Spins]
           t == Unlistened(State, Top.decor)
<1>1. /\ Looking("drag") /\ Alive(Top.decor) /\ PointerEvents # {}
      /\ queue' = RemoveAt(queue, k)
      /\ UNCHANGED <<held, themes, misused>>
  BY DEF DragLoop
<1>2. /\ frames # << >> /\ Top = frames[n] /\ Top \in FrameRecs /\ Top.kind = "drag" /\ Top.at = "look"
      /\ IsLoop(Top) /\ Top.decor \in 1..Len(decor) /\ decor[Top.decor].refs # 0
  BY <1>1, LookingIs
<1>3. /\ Shape(frames) /\ Points(frames, decor) /\ State \in States /\ Objects(State)
      /\ State.client = client /\ State.decor = decor /\ State.release = release
      /\ Len(decor) \in Nat /\ themes \in Nat
  BY InvIs
<1>4. PICK down : Pointed(queue, held, Len(decor), themes, down) /\ Grabs(frames, release, down)
  BY InvIs
<1>5. k \in 1..Len(queue) /\ e.type \in {"Press", "Motion", "Release"} /\ \A i \in 1..(k - 1) : ~IsPointer(queue[i])
  BY <1>1, NextPointerIs
<1>6. \E after : /\ Pointed(RemoveAt(queue, k), held, Len(decor), themes, after)
                 /\ e.type = "Motion" => after
  BY <1>3, <1>4, <1>5, PointedNext
<1>7. PICK after : /\ Pointed(queue', held', Len(decor), themes, after)
                   /\ e.type = "Motion" => after
  BY <1>1, <1>6
<1>8. Due(frames) = "none" /\ Innermost(frames) = n
  BY <1>2, <1>3, DueIs
<1>9. CASE e.type = "Release"
  <2>1. Becomes(t) /\ frames' = Front(frames)
    BY <1>9 DEF DragLoop, Ends
  <2> HIDE DEF State, Top
  <2>2. /\ t \in States /\ Objects(t) /\ Onward(State, t)
        /\ t.client = client /\ Len(t.decor) = Len(decor)
        /\ \A i \in 1..Len(decor) : t.decor[i].client = decor[i].client
        /\ t.release = {h \in release : h.id # decor[Top.decor].releaseId}
    BY <1>2, <1>3, UnlistenedIs
  <2> HIDE DEF t
  <2>3. State' = t
    BY <2>1, <2>2, BecomesIs
  <2>4. t.release = {}
    <3>1. Grabs(frames, State.release, down)
      BY <1>3, <1>4
    <3> HIDE DEF n
    <3>2. {h \in State.release : h.id # State.decor[frames[Len(frames)].decor].releaseId} = {}
      BY <1>2, <1>3, <3>1, LoopDeaf DEF n
    <3> QED BY <1>2, <1>3, <2>2, <3>2 DEF n
  <2>5. Shape(frames') /\ Points(frames', decor) /\ SameButtons(frames, frames') /\ Grabs(frames', {}, after)
    BY <1>1, <2>1, LoopEnds
  <2>6. Points(frames', t.decor)
    BY <2>2, <2>5 DEF Points, PointsTo
  <2>7. Pointed(queue', held', Len(t.decor), themes, after) /\ Grabs(frames', t.release, after)
    BY <1>7, <2>2, <2>4, <2>5
  <2> HIDE DEF e
  <2> QED BY <1>1, <2>2, <2>3, <2>5, <2>6, <2>7, StepKeeps
<1>10. CASE e.type = "Motion"
  <2>1. frames' = WithTop(frames, f) /\ UNCHANGED <<client, decor, release, themed>>
    BY <1>10 DEF DragLoop, Goes, WithTop, Depth
  <2>2. Spins \in Nat
    BY DecorationsAssumption
  <2>3. /\ f \in FrameRecs /\ f.kind = Top.kind /\ f.decor = Top.decor
        /\ f.client = Top.client /\ f.todo = Top.todo /\ f.at = "spin"
    BY <1>2, <2>2 DEF FrameRecs
  <2> HIDE DEF f, Top
  <2>4. /\ Shape(frames') /\ Points(frames', decor) /\ SameButtons(frames, frames')
        /\ Len(frames') = n /\ frames' # << >> /\ frames'[n] = f /\ IsLoop(frames'[Len(frames')])
    <3>1. f.at \in {"look", "spin"}
      BY <2>3
    <3> QED BY <1>2, <1>3, <2>1, <2>3, <3>1, LoopTurns
  <2>5. Grabs(frames', release, after)
    <3>1. Due(frames') = "none" /\ Innermost(frames') = n
      BY <2>4, DueIs
    <3>2. after
      BY <1>7, <1>10
    <3> HIDE DEF n, e
    <3> QED BY <1>2, <1>4, <1>8, <2>3, <2>4, <3>1, <3>2 DEF Grabs
  <2>6. State' = State
    BY <2>1, StateStays
  <2> HIDE DEF e
  <2> QED BY <1>1, <1>7, <2>1, <2>4, <2>5, <2>6, InvIs, SelfOnward, StepKeeps
<1>11. CASE e.type = "Press"
  <2>1. UNCHANGED <<client, decor, release, themed, frames>>
    BY <1>11 DEF DragLoop
  <2>2. Grabs(frames, release, after)
    <3> HIDE DEF n, e
    <3> QED BY <1>2, <1>4, <1>8 DEF Grabs
  <2>3. State' = State
    BY <2>1, StateStays
  <2>4. SameButtons(frames, frames)
    BY DEF SameButtons
  <2> HIDE DEF e
  <2> QED BY <1>1, <1>3, <1>7, <2>1, <2>2, <2>3, <2>4, InvIs, SelfOnward, StepKeeps
<1> QED BY <1>5, <1>9, <1>10, <1>11

\* The handler of a press: its decor has a window, so that it is not freed.
LEMMA PressIs ==
  ASSUME IInv, Calling, Installed(Handler), Handler.kind \in {"button", "drag"}
  PROVE  LET d == Handler.decor
             c == decor[d].client
         IN  /\ d \in 1..Len(decor) /\ c \in Clients /\ decor[d] \in DecorRecs
             /\ decor[d].refs # 0 /\ client[c].decor = d /\ client[c] \in ClientRecs /\ client[c].refs > 0
             /\ release = {} /\ FreshId = 1
             /\ Proper(Loop(Handler.kind, d)) /\ PointsTo(Loop(Handler.kind, d), decor)
<1> DEFINE d == Handler.decor
           c == decor[d].client
<1>1. /\ State \in States /\ Objects(State)
      /\ State.client = client /\ State.decor = decor /\ State.release = release
      /\ d \in 1..Len(decor) /\ Due(frames) = Handler.kind
  BY InvIs, CallingIs
<1> HIDE DEF State, d
<1>2. c \in Clients /\ decor[d] \in DecorRecs
  BY <1>1, StateIs
<1>3. decor[d].realized
  BY DEF Installed, d
<1>4. decor[d].refs # 0 /\ client[c].decor = d
  <2>1. Owned(State, d)
    BY <1>1 DEF Objects
  <2> QED BY <1>1, <1>3, <2>1 DEF Owned
<1>5. client[c] \in ClientRecs
  BY <1>1, <1>2, StateIs
<1>6. client[c].refs > 0
  <2>1. Owns(State, c)
    BY <1>1, <1>2 DEF Objects
  <2> QED BY <1>1, <1>4, <2>1 DEF Owns, None
<1>7. release = {}
  BY <1>1, InvIs DEF Grabs
<1>8. FreshId = 1
  <2>1. Cardinality(release) = 0
    BY <1>7, FS_EmptySet
  <2>2. \E i \in 1..(Cardinality(release) + 1) : \A h \in release : h.id # i
    BY <1>7, <2>1
  <2>3. FreshId \in 1..(Cardinality(release) + 1)
    BY <2>2 DEF FreshId
  <2> QED BY <2>1, <2>3
<1>9. Proper(Loop(Handler.kind, d)) /\ PointsTo(Loop(Handler.kind, d), decor)
  <2> DEFINE f == Loop(Handler.kind, d)
  <2>1. f = [kind |-> Handler.kind, at |-> "look", decor |-> d, client |-> c, todo |-> << >>, spins |-> 1]
    BY DEF Loop
  <2>2. << >> \in Seq(Calls) /\ Len(<< >>) = 0
    OBVIOUS
  <2>3. f \in FrameRecs
    BY <1>1, <1>2, <2>1, <2>2 DEF FrameRecs
  <2>4. f.kind = Handler.kind /\ f.at = "look" /\ f.decor = d /\ f.client = c /\ f.todo = << >>
    BY <2>1
  <2> HIDE DEF f
  <2>5. Proper(f)
    BY <2>3, <2>4 DEF Proper, IsLoop
  <2>6. PointsTo(f, decor)
    BY <1>1, <2>2, <2>4 DEF PointsTo
  <2> QED BY <2>5, <2>6 DEF f
<1> QED BY <1>1, <1>2, <1>4, <1>5, <1>6, <1>7, <1>8, <1>9 DEF d

\* A drag begins.
LEMMA PressTitleKeeps ==
  ASSUME IInv, PressTitle
  PROVE  IInv'
<1> DEFINE n == Len(frames)
           d == Handler.decor
           l == Loop("drag", d)
           g == [id |-> FreshId, decor |-> d]
           r == [decor[d] EXCEPT !.releaseId = FreshId]
           t == Remade(State, client, d, r, {g})
           F == Later(frames)
<1>1. /\ Calling /\ Installed(Handler) /\ Handler.kind = "drag"
      /\ Becomes(Grabbed(State, d)) /\ frames' = Append(F, l)
      /\ UNCHANGED <<held, queue, themes, misused>>
  BY CallingIs DEF PressTitle
<1>2. /\ d \in 1..Len(decor) /\ decor[d] \in DecorRecs /\ decor[d].refs # 0
      /\ release = {} /\ FreshId = 1 /\ Proper(l) /\ PointsTo(l, decor)
  BY <1>1, PressIs
<1>3. /\ State \in States /\ Objects(State)
      /\ State.client = client /\ State.decor = decor /\ State.release = release /\ State.themed = themed
      /\ Len(decor) \in Nat /\ client \in [Clients -> ClientRecs]
  BY InvIs, StateIs
<1>4. g \in Listeners /\ g.id = 1 /\ g.decor = d
  BY <1>2 DEF Listeners
<1>5. /\ r \in DecorRecs /\ r.client = decor[d].client /\ r.refs = decor[d].refs
      /\ r.pressed = decor[d].pressed /\ r.releaseId = 1
  BY <1>2 DEF DecorRecs
<1>6. Becomes(t)
  <2>1. release \cup {g} = {g}
    BY <1>2
  <2> QED BY <1>1, <2>1 DEF Becomes, Grabbed, Remade, State
<1>7. l.kind = "drag" /\ l.decor = d /\ l.at = "look"
  BY DEF Loop
<1> HIDE DEF State, d, g, r, l
<1>8. /\ t \in States /\ t.client = client /\ t.themed = themed /\ t.release = {g}
      /\ Len(t.decor) = Len(decor) /\ t.decor[d] = r
      /\ \A i \in 1..Len(decor) : i # d => t.decor[i] = decor[i]
  <2>1. {g} \in SUBSET Listeners
    BY <1>4
  <2> QED BY <1>2, <1>3, <1>5, <2>1, DecorSet
<1> HIDE DEF t
<1>9. ASSUME NEW i \in 1..Len(decor)
      PROVE  /\ t.decor[i].client = decor[i].client /\ t.decor[i].refs = decor[i].refs
             /\ t.decor[i].pressed = decor[i].pressed
             /\ decor[i].refs = 0 => t.decor[i] = decor[i]
  BY <1>2, <1>5, <1>8
<1>10. Heard(t)
  BY <1>2, <1>4, <1>5, <1>8 DEF Heard
<1>11. Objects(t)
  BY <1>3, <1>8, <1>9, <1>10, DecorsChange
<1>12. State' = t
  BY <1>6, <1>8, BecomesIs
<1>13. /\ Shape(F) /\ Points(F, decor) /\ SameButtons(frames, F) /\ Len(F) = n /\ F # << >>
       /\ F[Len(F)].kind = "dispatch" /\ OnlyDrags(F[Len(F)].todo)
  BY <1>1, CallingIs
<1> HIDE DEF F
<1>14. /\ Shape(frames') /\ Points(frames', decor) /\ Len(frames') = Len(F) + 1
       /\ frames'[Len(F) + 1] = l /\ SameButtons(F, frames')
  BY <1>1, <1>2, <1>7, <1>13, TopAdded DEF IsLoop
<1>15. Books(F, State, themes)
  BY <1>3, <1>13, InvIs, SelfOnward, BooksStay
<1>16. Books(frames', t, themes)
  <2>1. \A c \in Clients : /\ t.client[c].refs = State.client[c].refs
                           /\ t.client[c].managed = State.client[c].managed
                           /\ t.client[c].decor = State.client[c].decor
                           /\ t.client[c].onPress = State.client[c].onPress
    BY <1>3, <1>8
  <2>2. Pressed(frames', t)
    <3> SUFFICES ASSUME NEW e \in 1..Len(t.decor), t.decor[e].pressed
                 PROVE  \/ \E i \in 1..Len(frames') : frames'[i].kind = "button" /\ frames'[i].decor = e
                        \/ t.client[t.decor[e].client].onPress
      BY DEF Pressed
    <3>1. e \in 1..Len(decor) /\ decor[e].pressed /\ t.decor[e].client = decor[e].client
      BY <1>8, <1>9
    <3>2. \/ \E i \in 1..Len(F) : F[i].kind = "button" /\ F[i].decor = e
          \/ client[decor[e].client].onPress
      BY <1>3, <1>15, <3>1 DEF Books, Pressed
    <3> QED BY <1>8, <1>14, <3>1, <3>2 DEF SameButtons
  <2>3. Refs(frames', t)
    <3>1. ASSUME NEW c \in Clients PROVE ButtonsFor(frames', c) = ButtonsFor(F, c)
      BY <1>14 DEF ButtonsFor, SameButtons
    <3> QED BY <1>15, <2>1, <3>1 DEF Books, Refs
  <2>4. ASSUME themes = 0 PROVE Kept(frames', t)
    <3>1. Kept(F, State)
      BY <1>15, <2>4 DEF Books
    <3> QED BY <1>3, <1>8, <1>14, <3>1 DEF Kept, SameButtons
  <2> QED BY <2>2, <2>3, <2>4 DEF Books
<1>17. PICK down : Pointed(queue, held, Len(decor), themes, down) /\ Grabs(frames, release, down)
  BY InvIs
<1>18. Grabs(frames', t.release, down)
  <2>1. frames' # << >> /\ frames'[Len(frames')] = l /\ IsLoop(l)
    <3>1. Len(F) \in Nat
      BY <1>13 DEF Shape
    <3> QED BY <1>7, <1>14, <3>1 DEF IsLoop
  <2>2. Due(frames') = "none" /\ Innermost(frames') = Len(frames') /\ Len(frames') > 0
    BY <1>14, <2>1, DueIs, TopIs
  <2> QED BY <1>4, <1>7, <1>8, <2>1, <2>2 DEF Grabs
<1>19. Points(frames', t.decor)
  BY <1>8, <1>9, <1>14 DEF Points, PointsTo
<1>20. Whole(t, frames', queue', held', themes', misused')
  BY <1>1, <1>8, <1>11, <1>14, <1>16, <1>17, <1>18, <1>19, InvIs DEF Whole
<1> QED BY <1>12, <1>20 DEF IInv

\* The button acts on the press.
LEMMA PressActsKeeps ==
  ASSUME IInv, PressButton, client[decor[Handler.decor].client].onPress
  PROVE  IInv'
<1> DEFINE d == Handler.decor
           c == decor[d].client
           r == [decor[d] EXCEPT !.pressed = TRUE]
           t == Remade(State, client, d, r, release)
           F == Later(frames)
<1>1. /\ Calling /\ Installed(Handler) /\ Handler.kind = "button"
      /\ Becomes([State EXCEPT !.decor[d].pressed = TRUE]) /\ frames' = F
      /\ queue' = Act(c, queue)
      /\ UNCHANGED <<held, themes, misused>>
  BY CallingIs DEF PressButton, Goes
<1>2. /\ d \in 1..Len(decor) /\ decor[d] \in DecorRecs /\ decor[d].refs # 0
      /\ release = {} /\ c \in Clients
  BY <1>1, PressIs
<1>3. /\ State \in States /\ Objects(State)
      /\ State.client = client /\ State.decor = decor /\ State.release = release /\ State.themed = themed
      /\ Len(decor) \in Nat /\ client \in [Clients -> ClientRecs]
  BY InvIs, StateIs
<1>4. /\ r \in DecorRecs /\ r.client = c /\ r.refs = decor[d].refs
  BY <1>2 DEF DecorRecs
<1>5. Becomes(t)
  BY <1>1 DEF Becomes, Remade, State
<1> HIDE DEF State, d, r
<1>6. /\ t \in States /\ t.client = client /\ t.themed = themed /\ t.release = {}
      /\ Len(t.decor) = Len(decor) /\ t.decor[d] = r
      /\ \A i \in 1..Len(decor) : i # d => t.decor[i] = decor[i]
  <2>1. release \in SUBSET Listeners
    BY <1>2
  <2> QED BY <1>2, <1>3, <1>4, <2>1, DecorSet
<1> HIDE DEF t
<1>7. ASSUME NEW i \in 1..Len(decor)
      PROVE  /\ t.decor[i].client = decor[i].client /\ t.decor[i].refs = decor[i].refs
             /\ decor[i].refs = 0 => t.decor[i] = decor[i]
  BY <1>2, <1>4, <1>6
<1>8. Heard(t)
  BY <1>6 DEF Heard
<1>9. Objects(t)
  BY <1>3, <1>6, <1>7, <1>8, DecorsChange
<1>10. State' = t
  BY <1>5, <1>6, BecomesIs
<1>11. /\ Shape(F) /\ Points(F, decor) /\ SameButtons(frames, F) /\ Due(F) \in {"none", "drag"}
  BY <1>1, CallingIs
<1> HIDE DEF F
<1>12. Books(F, State, themes)
  BY <1>3, <1>11, InvIs, SelfOnward, BooksStay
<1>13. Books(F, t, themes)
  <2>1. Pressed(F, t)
    <3> SUFFICES ASSUME NEW e \in 1..Len(t.decor), t.decor[e].pressed
                 PROVE  \/ \E i \in 1..Len(F) : F[i].kind = "button" /\ F[i].decor = e
                        \/ t.client[t.decor[e].client].onPress
      BY DEF Pressed
    <3>1. CASE e = d
      <4>1. client[decor[d].client].onPress
        BY DEF d
      <4> QED BY <1>6, <1>7, <3>1, <4>1
    <3>2. CASE e # d
      <4>1. e \in 1..Len(decor) /\ decor[e].pressed /\ t.decor[e].client = decor[e].client
        BY <1>6, <3>2
      <4> QED BY <1>3, <1>6, <1>12, <4>1 DEF Books, Pressed
    <3> QED BY <3>1, <3>2
  <2> QED BY <1>3, <1>6, <1>12, <2>1 DEF Books, Refs, Kept
<1>14. PICK down : Pointed(queue, held, Len(decor), themes, down) /\ Grabs(frames, release, down)
  BY InvIs
<1>15. Pointed(queue', held', Len(t.decor), themes, down)
  BY <1>1, <1>2, <1>3, <1>6, <1>14, InvIs, PointedActs
<1>16. Grabs(frames', t.release, down)
  BY <1>1, <1>6, <1>11, NothingGrabbed
<1>17. Points(frames', t.decor)
  BY <1>1, <1>6, <1>7, <1>11 DEF Points, PointsTo
<1>18. Whole(t, frames', queue', held', themes', misused')
  BY <1>1, <1>6, <1>9, <1>11, <1>13, <1>15, <1>16, <1>17, InvIs DEF Whole
<1> QED BY <1>10, <1>18 DEF IInv

\* The button waits for the release, with a reference to its client.
LEMMA PressWaitsKeeps ==
  ASSUME IInv, PressButton, ~client[decor[Handler.decor].client].onPress
  PROVE  IInv'
<1> DEFINE n == Len(frames)
           d == Handler.decor
           c == decor[d].client
           l == Loop("button", d)
           g == [id |-> FreshId, decor |-> d]
           r == [decor[d] EXCEPT !.pressed = TRUE, !.releaseId = FreshId]
           x == [client[c] EXCEPT !.refs = @ + 1]
           k == [client EXCEPT ![c] = x]
           t == Remade(State, k, d, r, {g})
           F == Later(frames)
<1>1. /\ Calling /\ Installed(Handler) /\ Handler.kind = "button"
      /\ Becomes([Grabbed([State EXCEPT !.decor[d].pressed = TRUE], d) EXCEPT !.client[c].refs = @ + 1])
      /\ frames' = Append(F, l)
      /\ UNCHANGED <<held, queue, themes, misused>>
  BY CallingIs DEF PressButton
<1>2. /\ d \in 1..Len(decor) /\ decor[d] \in DecorRecs /\ decor[d].refs # 0
      /\ c \in Clients /\ client[c].decor = d /\ client[c] \in ClientRecs /\ client[c].refs > 0
      /\ release = {} /\ FreshId = 1 /\ Proper(l) /\ PointsTo(l, decor)
  BY <1>1, PressIs
<1>3. /\ State \in States /\ Objects(State)
      /\ State.client = client /\ State.decor = decor /\ State.release = release /\ State.themed = themed
      /\ decor \in Seq(DecorRecs) /\ Len(decor) \in Nat /\ client \in [Clients -> ClientRecs]
  BY InvIs, StateIs
<1>4. g \in Listeners /\ g.id = 1 /\ g.decor = d
  BY <1>2 DEF Listeners
<1>5. /\ r \in DecorRecs /\ r.client = c /\ r.refs = decor[d].refs /\ r.releaseId = 1
  BY <1>2 DEF DecorRecs
<1>6. Becomes(t)
  <2>1. release \cup {g} = {g}
    BY <1>2
  <2>2. \A y \in DecorRecs : [[y EXCEPT !.pressed = TRUE] EXCEPT !.releaseId = FreshId]
                             = [y EXCEPT !.pressed = TRUE, !.releaseId = FreshId]
    BY DEF DecorRecs
  <2>3. decor[d] \in DecorRecs /\ d \in DOMAIN decor /\ decor \in Seq(DecorRecs)
    BY <1>2, <1>3
  <2>4. [[decor EXCEPT ![d].pressed = TRUE] EXCEPT ![d].releaseId = FreshId] = [decor EXCEPT ![d] = r]
    <3>1. [[decor EXCEPT ![d] = [@ EXCEPT !.pressed = TRUE]] EXCEPT ![d] = [@ EXCEPT !.releaseId = FreshId]]
          = [decor EXCEPT ![d] = [[decor[d] EXCEPT !.pressed = TRUE] EXCEPT !.releaseId = FreshId]]
      <4> HIDE DEF d
      <4> QED BY <2>3
    <3> QED BY <2>2, <2>3, <3>1
  <2>5. [client EXCEPT ![c].refs = @ + 1] = k
    OBVIOUS
  <2>6. t = [client |-> k, decor |-> [decor EXCEPT ![d] = r], release |-> {g}, themed |-> themed]
    BY DEF Remade, State
  <2> HIDE DEF d, r, k, g, t, x
  <2>7. /\ client' = [client EXCEPT ![c].refs = @ + 1]
        /\ decor' = [[decor EXCEPT ![d].pressed = TRUE] EXCEPT ![d].releaseId = FreshId]
        /\ release' = release \cup {[id |-> FreshId, decor |-> d]}
        /\ themed' = themed
    BY <1>1 DEF Becomes, Grabbed, State
  <2>8. t.client = k /\ t.decor = [decor EXCEPT ![d] = r] /\ t.release = {g} /\ t.themed = themed
    BY <2>6
  <2> QED BY <2>1, <2>4, <2>5, <2>7, <2>8 DEF Becomes, g
<1>7. l.kind = "button" /\ l.decor = d /\ l.at = "look" /\ l.client = c
  BY DEF Loop
<1>8. /\ x \in ClientRecs /\ x.refs = client[c].refs + 1 /\ x.decor = client[c].decor
      /\ x.managed = client[c].managed /\ x.onPress = client[c].onPress
  <2>1. client[c].refs + 1 \in Nat
    BY <1>2 DEF ClientRecs
  <2>2. \A z \in Nat : LET y == [client[c] EXCEPT !.refs = z]
                       IN  /\ y \in ClientRecs /\ y.refs = z /\ y.decor = client[c].decor
                           /\ y.managed = client[c].managed /\ y.onPress = client[c].onPress
    BY <1>2 DEF ClientRecs
  <2> QED BY <2>1, <2>2
<1> HIDE DEF x
<1>9. k \in [Clients -> ClientRecs] /\ k[c] = x /\ \A e \in Clients : e # c => k[e] = client[e]
  BY <1>2, <1>3, <1>8
<1> HIDE DEF State, d, g, r, l, k
<1>10. /\ t \in States /\ t.client = k /\ t.themed = themed /\ t.release = {g}
       /\ Len(t.decor) = Len(decor) /\ t.decor[d] = r
       /\ \A i \in 1..Len(decor) : i # d => t.decor[i] = decor[i]
  <2>1. {g} \in SUBSET Listeners
    BY <1>4
  <2> QED BY <1>2, <1>3, <1>5, <1>9, <2>1, DecorSet
<1> HIDE DEF t
<1>11. ASSUME NEW i \in 1..Len(decor)
       PROVE  /\ t.decor[i].client = decor[i].client /\ t.decor[i].refs = decor[i].refs
              /\ decor[i].refs = 0 => t.decor[i] = decor[i]
  BY <1>2, <1>5, <1>10
<1>12. ASSUME NEW e \in Clients
       PROVE  /\ t.client[e].decor = client[e].decor /\ t.client[e].managed = client[e].managed
              /\ t.client[e].onPress = client[e].onPress
              /\ t.client[e].refs = client[e].refs + (IF e = c THEN 1 ELSE 0)
              /\ t.client[e].refs > 0 <=> client[e].refs > 0
  <2>1. client[e].refs \in Nat
    BY <1>3 DEF ClientRecs
  <2>2. CASE e = c
    BY <1>2, <1>8, <1>9, <1>10, <2>1, <2>2
  <2>3. CASE e # c
    BY <1>9, <1>10, <2>1, <2>3
  <2> QED BY <2>2, <2>3
<1>13. Heard(t)
  BY <1>2, <1>4, <1>5, <1>10 DEF Heard
<1>14. Objects(t)
  BY <1>3, <1>10, <1>11, <1>12, <1>13, ObjectsStay
<1>15. State' = t
  BY <1>6, <1>10, BecomesIs
<1>16. /\ Shape(F) /\ Points(F, decor) /\ SameButtons(frames, F) /\ Len(F) = n /\ F # << >>
       /\ F[Len(F)].kind = "dispatch" /\ OnlyDrags(F[Len(F)].todo)
  BY <1>1, CallingIs
<1> HIDE DEF F
<1>17. /\ Shape(frames') /\ Points(frames', decor) /\ Len(frames') = Len(F) + 1
       /\ frames'[Len(F) + 1] = l /\ \A i \in 1..Len(F) : frames'[i] = F[i]
  <2>1. IsLoop(l) /\ l.kind # "dispatch" /\ frames' = Append(F, l)
    BY <1>1, <1>7 DEF IsLoop
  <2>2. Proper(l) /\ PointsTo(l, decor)
    BY <1>2
  <2> QED BY <1>16, <2>1, <2>2, TopAdded
<1>18. Books(F, State, themes)
  BY <1>3, <1>16, InvIs, SelfOnward, BooksStay
<1>19. Len(F) \in Nat /\ Len(F) + 1 \in 1..Len(frames') /\ \A i \in 1..Len(F) : i \in 1..Len(frames')
  <2>1. Len(F) \in Nat
    BY <1>16 DEF Shape
  <2> QED BY <1>17, <2>1
<1>20. Books(frames', t, themes)
  <2>1. Pressed(frames', t)
    <3> SUFFICES ASSUME NEW e \in 1..Len(t.decor), t.decor[e].pressed
                 PROVE  \/ \E i \in 1..Len(frames') : frames'[i].kind = "button" /\ frames'[i].decor = e
                        \/ t.client[t.decor[e].client].onPress
      BY DEF Pressed
    <3>1. CASE e = d
      BY <1>7, <1>17, <1>19, <3>1
    <3>2. CASE e # d
      <4>1. e \in 1..Len(decor) /\ decor[e].pressed /\ t.decor[e].client = decor[e].client
            /\ decor[e].client \in Clients
        BY <1>3, <1>10, <3>2, StateIs
      <4>2. \/ \E i \in 1..Len(F) : F[i].kind = "button" /\ F[i].decor = e
            \/ client[decor[e].client].onPress
        BY <1>3, <1>18, <4>1 DEF Books, Pressed
      <4> QED BY <1>12, <1>17, <1>19, <4>1, <4>2
    <3> QED BY <3>1, <3>2
  <2>2. Refs(frames', t)
    <3> SUFFICES ASSUME NEW e \in Clients
                 PROVE  t.client[e].refs = Cardinality(ButtonsFor(frames', e))
                                           + (IF t.client[e].managed THEN 1 ELSE 0)
      BY DEF Refs
    <3>1. Cardinality(ButtonsFor(frames', e)) = Cardinality(ButtonsFor(F, e)) + (IF e = c THEN 1 ELSE 0)
      <4>1. \A i \in 1..Len(F) : frames'[i].kind = F[i].kind /\ frames'[i].client = F[i].client
        BY <1>17
      <4>2. frames'[Len(F) + 1].kind = "button" /\ frames'[Len(F) + 1].client = c
        BY <1>7, <1>17
      <4>3. Cardinality(ButtonsFor(frames', e)) = Cardinality(ButtonsFor(F, e))
              + (IF e = frames'[Len(F) + 1].client THEN 1 ELSE 0)
        BY <1>16, <1>17, <4>1, <4>2, ButtonAdded, SMTT(60)
      <4> QED BY <4>2, <4>3
    <3>2. client[e].refs = Cardinality(ButtonsFor(F, e)) + (IF client[e].managed THEN 1 ELSE 0)
      BY <1>3, <1>18 DEF Books, Refs
    <3>3. Cardinality(ButtonsFor(F, e)) \in Nat
      BY <1>16, ButtonsForIs
    <3> QED BY <1>12, <3>1, <3>2, <3>3
  <2>3. ASSUME themes = 0 PROVE Kept(frames', t)
    <3> SUFFICES ASSUME NEW i \in 1..Len(frames'), frames'[i].kind = "button"
                 PROVE  t.client[frames'[i].client].decor = frames'[i].decor
      BY DEF Kept
    <3>1. CASE i = Len(F) + 1
      BY <1>2, <1>7, <1>12, <1>17, <3>1
    <3>2. CASE i # Len(F) + 1
      <4>1. i \in 1..Len(F)
        BY <1>17, <1>19, <3>2
      <4>2. client[F[i].client].decor = F[i].decor
        BY <1>3, <1>17, <1>18, <2>3, <4>1 DEF Books, Kept
      <4>3. F[i].client \in Clients
        BY <1>3, <1>16, <1>17, <4>1, StateIs DEF Points, PointsTo, IsLoop
      <4> QED BY <1>12, <1>17, <4>1, <4>2, <4>3
    <3> QED BY <3>1, <3>2
  <2> QED BY <2>1, <2>2, <2>3 DEF Books
<1>21. PICK down : Pointed(queue, held, Len(decor), themes, down) /\ Grabs(frames, release, down)
  BY InvIs
<1>22. down
  <2>1. Due(frames) = "button"
    BY <1>1, CallingIs
  <2> QED BY <1>21, <2>1 DEF Grabs
<1>23. Grabs(frames', t.release, down)
  <2>1. frames' # << >> /\ frames'[Len(frames')] = l /\ IsLoop(l)
    BY <1>7, <1>17, <1>19 DEF IsLoop
  <2>2. Due(frames') = "none" /\ Innermost(frames') = Len(frames') /\ Len(frames') > 0
    BY <1>17, <2>1, DueIs, TopIs
  <2> QED BY <1>4, <1>7, <1>10, <1>22, <2>1, <2>2 DEF Grabs
<1>24. Points(frames', t.decor)
  BY <1>10, <1>11, <1>17 DEF Points, PointsTo
<1>25. Whole(t, frames', queue', held', themes', misused')
  BY <1>1, <1>10, <1>14, <1>17, <1>20, <1>21, <1>23, <1>24, InvIs DEF Whole
<1> QED BY <1>15, <1>25 DEF IInv

\* The button is pressed.
LEMMA PressButtonKeeps ==
  ASSUME IInv, PressButton
  PROVE  IInv'
BY PressActsKeeps, PressWaitsKeeps

\* A set of loops of buttons that is not empty.
LEMMA SomeButton ==
  ASSUME NEW F, Shape(F), NEW c, NEW i \in ButtonsFor(F, c)
  PROVE  Cardinality(ButtonsFor(F, c)) > 0
<1>1. IsFiniteSet(ButtonsFor(F, c)) /\ Cardinality(ButtonsFor(F, c)) \in Nat
  BY ButtonsForIs
<1>2. Cardinality(ButtonsFor(F, c)) # 0
  BY <1>1, FS_EmptySet
<1> QED BY <1>1, <1>2

\* A state with other decors.
LEMMA DecorPut ==
  ASSUME NEW s \in States, NEW w
  PROVE  [s EXCEPT !.decor = w]
           = [client |-> s.client, decor |-> w, release |-> s.release, themed |-> s.themed]
BY DEF States

\* The loop of a button ends, in a state s that differs from the present one in
\* who listens to the release: nobody.
LEMMA LeaveKeeps ==
  ASSUME IInv, Looking("button"), Alive(Top.decor), NEW s \in States, Objects(s), s.client = client,
         s.release = {}, Len(s.decor) = Len(decor),
         \A i \in 1..Len(decor) : /\ s.decor[i].client = decor[i].client
                                  /\ s.decor[i].refs = decor[i].refs
                                  /\ s.decor[i].pressed = decor[i].pressed,
         LeaveButton(s), NEW down, Pointed(queue', held', Len(decor), themes, down),
         UNCHANGED <<themes, misused>>
  PROVE  IInv'
<1> DEFINE n == Len(frames)
           d == Top.decor
           c == Top.client
           r == [s.decor[d] EXCEPT !.pressed = FALSE]
           u == Remade(s, client, d, r, {})
           t == ClientUnref(u, c)
           G == Front(frames)
<1>1. /\ frames # << >> /\ Top = frames[n] /\ Top.kind = "button" /\ n \in 1..n
      /\ d \in 1..Len(decor) /\ c = decor[d].client /\ c \in Clients /\ decor[d].refs # 0
  BY LookingIs
<1>2. /\ State \in States /\ State.client = client /\ State.decor = decor /\ Len(decor) \in Nat
      /\ Shape(frames) /\ Points(frames, decor) /\ Books(frames, State, themes) /\ themes \in Nat
      /\ client \in [Clients -> ClientRecs]
  BY InvIs, StateIs
<1>3. /\ r \in DecorRecs /\ r.client = s.decor[d].client /\ r.refs = s.decor[d].refs
      /\ ~r.pressed /\ r.releaseId = s.decor[d].releaseId
  <2>1. s.decor[d] \in DecorRecs
    BY <1>1, StateIs
  <2> QED BY <2>1 DEF DecorRecs
<1>4. [s EXCEPT !.decor[d].pressed = FALSE] = u
  <2> DEFINE w == [s.decor EXCEPT ![d] = r]
  <2>1. [s EXCEPT !.decor[d].pressed = FALSE] = [s EXCEPT !.decor = w]
    BY DEF States
  <2>2. u = Remade(s, s.client, d, r, s.release)
    BY DEF Remade
  <2>3. Remade(s, s.client, d, r, s.release)
          = [client |-> s.client, decor |-> w, release |-> s.release, themed |-> s.themed]
    BY DEF Remade
  <2> HIDE DEF u, w, r, d
  <2>4. [s EXCEPT !.decor = w]
          = [client |-> s.client, decor |-> w, release |-> s.release, themed |-> s.themed]
    BY DecorPut
  <2> QED BY <2>1, <2>2, <2>3, <2>4
<1>5. Becomes(t) /\ frames' = G
  BY <1>4 DEF LeaveButton, Ends
<1> HIDE DEF State, Top, r
<1>6. /\ u \in States /\ u.client = client /\ u.themed = s.themed /\ u.release = {}
      /\ Len(u.decor) = Len(decor) /\ u.decor[d] = r
      /\ \A i \in 1..Len(decor) : i # d => u.decor[i] = s.decor[i]
  <2>1. {} \in SUBSET Listeners
    OBVIOUS
  <2> QED BY <1>1, <1>2, <1>3, <2>1, DecorSet, SMTT(60)
<1> HIDE DEF u
<1>7. ASSUME NEW i \in 1..Len(decor)
      PROVE  /\ u.decor[i].client = s.decor[i].client /\ u.decor[i].refs = s.decor[i].refs
             /\ s.decor[i].refs = 0 => u.decor[i] = s.decor[i]
  BY <1>1, <1>3, <1>6
<1>8. Heard(u)
  BY <1>6 DEF Heard
<1>9. Objects(u)
  BY <1>6, <1>7, <1>8, DecorsChange
<1>10. /\ Shape(G) /\ Points(G, decor) /\ Len(G) = n - 1
       /\ \A i \in 1..Len(G) : G[i] = frames[i]
       /\ Grabs(G, {}, down)
  BY LoopEnds
<1> HIDE DEF G
<1>11. ASSUME NEW e \in Clients
       PROVE  /\ Cardinality(ButtonsFor(G, e)) \in Nat
              /\ client[e].refs = Cardinality(ButtonsFor(G, e)) + (IF e = c THEN 1 ELSE 0)
                                  + (IF client[e].managed THEN 1 ELSE 0)
  <2>1. Cardinality(ButtonsFor(frames, e)) = Cardinality(ButtonsFor(G, e))
                                             + (IF e = frames[Len(frames)].client THEN 1 ELSE 0)
    <3>1. frames[Len(frames)].kind = "button" /\ Len(G) = Len(frames) - 1
      BY <1>1, <1>10
    <3>2. \A z : Cardinality(ButtonsFor(frames, z)) = Cardinality(ButtonsFor(G, z))
                    + (IF z = frames[Len(frames)].client THEN 1 ELSE 0)
      <4>1. /\ Shape(frames) /\ frames # << >> /\ Shape(G)
            /\ \A i \in 1..Len(G) : G[i] = frames[i]
        BY <1>1, <1>2, <1>10
      <4> HIDE DEF n
      <4> QED BY <3>1, <4>1, ButtonGone
    <3> QED BY <3>2
  <2>2. client[e].refs = Cardinality(ButtonsFor(frames, e)) + (IF client[e].managed THEN 1 ELSE 0)
    BY <1>2 DEF Books, Refs
  <2>3. Cardinality(ButtonsFor(G, e)) \in Nat
    BY <1>10, ButtonsForIs
  <2> QED BY <1>1, <2>1, <2>2, <2>3
<1>12. client[c].refs > 0
  BY <1>1, <1>11
<1>13. /\ t \in States /\ Objects(t) /\ Onward(u, t)
       /\ t.client[c].refs = client[c].refs - 1
       /\ t.client[c].managed = client[c].managed
       /\ client[c].refs > 1 => t.client[c].decor = client[c].decor
       /\ \A e \in Clients : e # c => t.client[e] = client[e]
  <2> HIDE DEF c
  <2>1. c \in Clients /\ u \in States /\ u.client[c].refs > 0
    BY <1>1, <1>6, <1>12
  <2>2. /\ t \in States /\ Objects(t) /\ Onward(u, t)
        /\ t.client[c].refs = u.client[c].refs - 1
        /\ t.client[c].managed = u.client[c].managed
        /\ u.client[c].refs > 1 => t.client[c].decor = u.client[c].decor
        /\ \A e \in Clients : e # c => t.client[e] = u.client[e]
    BY <1>9, <2>1, ClientUnrefKeeps
  <2> QED BY <1>6, <2>1, <2>2
<1> HIDE DEF t, c
<1>14. State' = t
  BY <1>5, <1>13, BecomesIs
<1>15. ASSUME NEW i \in 1..Len(decor)
       PROVE  /\ i \in 1..Len(t.decor) /\ t.decor[i].client = decor[i].client
              /\ t.decor[i].pressed => i # d /\ decor[i].pressed
  <2>1. i \in 1..Len(t.decor)
    <3>1. Len(t.decor) \in Nat
      BY <1>13, StateIs
    <3> QED BY <1>2, <1>6, <1>13, <3>1 DEF Onward
  <2>2. t.decor[i].client = u.decor[i].client /\ (t.decor[i].pressed => u.decor[i].pressed)
    BY <1>6, <1>13 DEF Onward
  <2>3. u.decor[i].pressed => i # d /\ decor[i].pressed
    BY <1>3, <1>6
  <2> QED BY <1>7, <2>1, <2>2, <2>3
<1>16. n \in Nat /\ \A i \in 1..n : i # n => i \in 1..Len(G)
  BY <1>1, <1>10
<1>17. Pressed(G, t)
  <2> SUFFICES ASSUME NEW e \in 1..Len(t.decor), t.decor[e].pressed
               PROVE  \/ \E i \in 1..Len(G) : G[i].kind = "button" /\ G[i].decor = e
                      \/ t.client[t.decor[e].client].onPress
    BY DEF Pressed
  <2>1. e \in 1..Len(decor)
    <3>1. ~(e > Len(decor))
      BY <1>6, <1>13 DEF Onward
    <3> QED BY <1>2, <3>1
  <2>2. e # d /\ decor[e].pressed /\ t.decor[e].client = decor[e].client /\ decor[e].client \in Clients
    BY <1>2, <1>15, <2>1, StateIs
  <2>3. \/ \E i \in 1..n : frames[i].kind = "button" /\ frames[i].decor = e
        \/ client[decor[e].client].onPress
    BY <1>2, <2>1, <2>2 DEF Books, Pressed
  <2>4. ASSUME NEW i \in 1..n, frames[i].decor = e PROVE i \in 1..Len(G) /\ G[i] = frames[i]
    BY <1>1, <1>10, <1>16, <2>2, <2>4
  <2>5. t.client[decor[e].client].onPress = client[decor[e].client].onPress
    BY <1>6, <1>13, <2>2 DEF Onward
  <2> HIDE DEF n, d
  <2> QED BY <2>2, <2>3, <2>4, <2>5
<1>18. Refs(G, t)
  <2> SUFFICES ASSUME NEW e \in Clients
               PROVE  t.client[e].refs = Cardinality(ButtonsFor(G, e))
                                         + (IF t.client[e].managed THEN 1 ELSE 0)
    BY DEF Refs
  <2>1. CASE e = c
    BY <1>11, <1>13, <2>1
  <2>2. CASE e # c
    BY <1>11, <1>13, <2>2
  <2> QED BY <2>1, <2>2
<1>19. ASSUME themes = 0 PROVE Kept(G, t)
  <2> SUFFICES ASSUME NEW i \in 1..Len(G), G[i].kind = "button"
               PROVE  t.client[G[i].client].decor = G[i].decor
    BY DEF Kept
  <2>1. i \in 1..n /\ G[i] = frames[i]
    BY <1>10, <1>16
  <2>2. client[G[i].client].decor = G[i].decor
    BY <1>2, <1>19, <2>1 DEF Books, Kept
  <2>3. G[i].client \in Clients
    <3>1. G[i].decor \in 1..Len(decor) /\ G[i].client = decor[G[i].decor].client
      BY <1>10 DEF Points, PointsTo, IsLoop
    <3> QED BY <1>2, <3>1, StateIs
  <2>4. CASE G[i].client = c
    <3>1. i \in ButtonsFor(G, c)
      BY <2>4 DEF ButtonsFor
    <3>2. Cardinality(ButtonsFor(G, c)) > 0
      BY <1>10, <3>1, SomeButton
    <3>3. client[c].refs > 1
      BY <1>1, <1>11, <3>2
    <3> QED BY <1>13, <2>2, <2>4, <3>3
  <2>5. CASE G[i].client # c
    BY <1>13, <2>2, <2>3, <2>5
  <2> QED BY <2>4, <2>5
<1>20. Pointed(queue', held', Len(t.decor), themes, down)
  <2>1. Len(t.decor) \in Nat /\ Len(decor) <= Len(t.decor)
    BY <1>6, <1>13, StateIs DEF Onward
  <2> QED BY <1>2, <2>1, PointedStays
<1>21. Grabs(G, t.release, down)
  <2>1. t.release = {}
    BY <1>6, <1>13 DEF Onward
  <2> QED BY <1>10, <2>1
<1>22. Points(G, t.decor)
  BY <1>10, <1>15 DEF Points, PointsTo
<1>23. Whole(t, frames', queue', held', themes', misused')
  BY <1>5, <1>10, <1>13, <1>17, <1>18, <1>19, <1>20, <1>21, <1>22, InvIs DEF Whole, Books
<1> QED BY <1>14, <1>23 DEF IInv

\* The loop of a button ends as its release was handled by the main loop.
LEMMA ButtonReleasedElsewhereKeeps ==
  ASSUME IInv, ButtonReleasedElsewhere
  PROVE  IInv'
<1>1. /\ Looking("button") /\ Alive(Top.decor) /\ decor[Top.decor].releaseId = None
      /\ LeaveButton(State) /\ UNCHANGED <<held, queue, themes, misused>>
  BY DEF ButtonReleasedElsewhere
<1>2. PICK down : Pointed(queue, held, Len(decor), themes, down) /\ Grabs(frames, release, down)
  BY InvIs
<1>3. /\ State \in States /\ Objects(State) /\ State.client = client
      /\ State.decor = decor /\ State.release = release /\ Shape(frames)
  BY InvIs
<1>4. frames # << >> /\ IsLoop(frames[Len(frames)]) /\ decor[frames[Len(frames)].decor].releaseId = None
  BY <1>1, LookingIs
<1> HIDE DEF State
<1>5. release = {}
  <2>1. Grabs(frames, State.release, down)
    BY <1>2, <1>3
  <2> QED BY <1>3, <1>4, <2>1, LoopDeaf
<1>6. Pointed(queue', held', Len(decor), themes, down)
  BY <1>1, <1>2
<1> QED BY <1>1, <1>3, <1>5, <1>6, LeaveKeeps

\* The loop takes an event of the pointer out of the queue.
LEMMA ButtonLoopKeeps ==
  ASSUME IInv, ButtonLoop
  PROVE  IInv'
<1> DEFINE n == Len(frames)
           k == NextPointer
           e == queue[k]
           rest == RemoveAt(queue, k)
           d == Top.decor
           s == Unlistened(State, d)
<1>1. /\ Looking("button") /\ Alive(Top.decor) /\ PointerEvents # {}
      /\ UNCHANGED <<held, themes, misused>>
  BY DEF ButtonLoop
<1>2. /\ frames # << >> /\ Top = frames[n] /\ Top.kind = "button" /\ Top.at = "look" /\ n \in 1..n
      /\ IsLoop(Top) /\ Top.decor \in 1..Len(decor) /\ decor[Top.decor].refs # 0
      /\ Top.client \in Clients
  BY <1>1, LookingIs
<1>3. /\ Shape(frames) /\ Points(frames, decor) /\ State \in States /\ Objects(State)
      /\ State.client = client /\ State.decor = decor /\ State.release = release /\ State.themed = themed
      /\ Len(decor) \in Nat /\ themes \in Nat /\ client \in [Clients -> ClientRecs]
      /\ decor \in Seq(DecorRecs)
  BY InvIs, StateIs
<1>4. PICK down : Pointed(queue, held, Len(decor), themes, down) /\ Grabs(frames, release, down)
  BY InvIs
<1>5. k \in 1..Len(queue) /\ e.type \in {"Press", "Motion", "Release"} /\ \A i \in 1..(k - 1) : ~IsPointer(queue[i])
  BY <1>1, NextPointerIs
<1>6. \E after : /\ Pointed(RemoveAt(queue, k), held, Len(decor), themes, after)
                 /\ e.type = "Motion" => after
                 /\ e.type = "Press" => after
  BY <1>3, <1>4, <1>5, PointedNext
<1>7. PICK after : /\ Pointed(rest, held', Len(decor), themes, after)
                   /\ e.type = "Motion" => after
                   /\ e.type = "Press" => after
  BY <1>1, <1>6
<1>8. Due(frames) = "none" /\ Innermost(frames) = n
  BY <1>2, <1>3, DueIs
<1>9. CASE e.type = "Release"
  <2>1. /\ LeaveButton(s)
        /\ queue' = IF e.on = "button" THEN Act(Top.client, rest) ELSE rest
    BY <1>9 DEF ButtonLoop
  <2> HIDE DEF State, Top, rest, e
  <2>2. /\ s \in States /\ Objects(s)
        /\ s.client = client /\ Len(s.decor) = Len(decor)
        /\ \A i \in 1..Len(decor) : /\ s.decor[i].client = decor[i].client
                                    /\ s.decor[i].refs = decor[i].refs
                                    /\ s.decor[i].pressed = decor[i].pressed
        /\ s.release = {h \in release : h.id # decor[Top.decor].releaseId}
    BY <1>2, <1>3, UnlistenedIs
  <2> HIDE DEF s, d
  <2>3. s.release = {}
    <3>1. Grabs(frames, State.release, down)
      BY <1>3, <1>4
    <3> HIDE DEF n
    <3>2. {h \in State.release : h.id # State.decor[frames[Len(frames)].decor].releaseId} = {}
      BY <1>2, <1>3, <3>1, LoopDeaf DEF n
    <3> QED BY <1>2, <1>3, <2>2, <3>2 DEF n
  <2>4. Pointed(queue', held', Len(decor), themes, after)
    <3>1. Pointed(Act(Top.client, rest), held', Len(decor), themes, after)
      BY <1>2, <1>3, <1>7, PointedActs
    <3> QED BY <1>7, <2>1, <3>1
  <2> QED BY <1>1, <2>1, <2>2, <2>3, <2>4, LeaveKeeps
<1>10. CASE e.type # "Release"
  <2> DEFINE p == IF e.type = "Motion" THEN e.on = "button" ELSE decor[d].pressed
             r == [decor[d] EXCEPT !.pressed = p]
             t == Remade(State, client, d, r, release)
  <2>1. /\ decor' = [decor EXCEPT ![d].pressed = IF e.type = "Motion" THEN e.on = "button" ELSE @]
        /\ queue' = rest
        /\ UNCHANGED <<client, release, themed, frames>>
    BY <1>10 DEF ButtonLoop
  <2>2. decor[d] \in DecorRecs
    BY <1>2, <1>3, StateIs
  <2>3. p \in BOOLEAN
    BY <2>2 DEF DecorRecs
  <2>4. decor' = [decor EXCEPT ![d] = r]
    BY <2>1
  <2> HIDE DEF p
  <2>5. /\ r \in DecorRecs /\ r.client = decor[d].client /\ r.refs = decor[d].refs
        /\ r.releaseId = decor[d].releaseId
    BY <2>2, <2>3 DEF DecorRecs
  <2> HIDE DEF r, Top, State
  <2>6. State' = t
    BY <1>3, <2>1, <2>4 DEF State, Remade
  <2>7. /\ t \in States /\ t.client = client /\ t.themed = themed /\ t.release = release
        /\ Len(t.decor) = Len(decor) /\ t.decor[d] = r
        /\ \A i \in 1..Len(decor) : i # d => t.decor[i] = decor[i]
    <3>1. release \in SUBSET Listeners
      BY <1>3, StateIs
    <3> QED BY <1>2, <1>3, <2>5, <3>1, DecorSet
  <2> HIDE DEF t
  <2>8. ASSUME NEW i \in 1..Len(decor)
        PROVE  /\ t.decor[i].client = decor[i].client /\ t.decor[i].refs = decor[i].refs
               /\ t.decor[i].releaseId = decor[i].releaseId
               /\ decor[i].refs = 0 => t.decor[i] = decor[i]
    BY <1>2, <2>5, <2>7
  <2>9. Heard(t)
    BY <1>3, <2>7, <2>8 DEF Objects, Heard
  <2>10. Objects(t)
    BY <1>3, <2>7, <2>8, <2>9, DecorsChange
  <2>11. Books(frames, State, themes)
    BY InvIs
  <2>12. Pressed(frames, t)
    <3> SUFFICES ASSUME NEW i \in 1..Len(t.decor), t.decor[i].pressed
                 PROVE  \/ \E j \in 1..n : frames[j].kind = "button" /\ frames[j].decor = i
                        \/ t.client[t.decor[i].client].onPress
      BY DEF Pressed
    <3>1. CASE i = d
      BY <1>2, <3>1
    <3>2. CASE i # d
      <4>1. i \in 1..Len(decor) /\ decor[i].pressed /\ t.decor[i].client = decor[i].client
        BY <2>7, <3>2
      <4> QED BY <1>3, <2>7, <2>11, <4>1 DEF Books, Pressed
    <3> QED BY <3>1, <3>2
  <2>13. Books(frames, t, themes)
    BY <1>3, <2>7, <2>11, <2>12 DEF Books, Refs, Kept
  <2>14. Grabs(frames, release, after)
    <3>1. after
      BY <1>5, <1>7, <1>10
    <3> HIDE DEF n, e
    <3> QED BY <1>4, <1>8, <3>1 DEF Grabs
  <2>15. Points(frames, t.decor)
    BY <1>3, <2>7, <2>8 DEF Points, PointsTo
  <2> HIDE DEF rest, d
  <2>16. Whole(t, frames', queue', held', themes', misused')
    BY <1>1, <1>3, <1>7, <2>1, <2>7, <2>10, <2>13, <2>14, <2>15, InvIs DEF Whole
  <2> QED BY <2>6, <2>16 DEF IInv
<1> QED BY <1>9, <1>10

\* A finite set in some order, as SetToSeq chooses it.
LEMMA OrderOf ==
  ASSUME NEW S, IsFiniteSet(S)
  PROVE  LET n == Cardinality(S)
             f == SetToSeq(S)
         IN  /\ n \in Nat /\ f \in [1..n -> S] /\ f \in Seq(S) /\ Len(f) = n
             /\ Distinct(f)
             /\ \A x \in S : \E i \in 1..n : f[i] = x
<1> DEFINE n == Cardinality(S)
           f == SetToSeq(S)
<1>1. n \in Nat /\ ExistsBijection(1..n, S)
  BY FS_CardinalityType
<1>2. PICK g \in [1..n -> S] : IsInjective(g)
  BY <1>1 DEF ExistsBijection, Bijection, Injection
<1>3. f \in [1..n -> S] /\ IsInjective(f)
  BY <1>2 DEF SetToSeq
<1> HIDE DEF f
<1>4. f \in Injection(1..n, S)
  BY <1>3 DEF Injection
<1>5. IsFiniteSet(1..n) /\ Cardinality(1..n) = n
  BY <1>1, FS_Interval
<1>6. f \in Surjection(1..n, S)
  BY <1>4, <1>5, FS_Injection
<1>7. \A x \in S : \E i \in 1..n : f[i] = x
  BY <1>6 DEF Surjection
<1>8. f \in Seq(S) /\ Len(f) = n
  BY <1>1, <1>3
<1>9. Distinct(f)
  BY <1>3, <1>8 DEF Distinct, IsInjective
<1> QED BY <1>1, <1>3, <1>7, <1>8, <1>9 DEF f

\* The handlers of an event: a button's first, and drags or a release otherwise.
LEMMA HandlersIs ==
  ASSUME IInv, NEW e \in EventRecs, e.type = "Press" => e.target \in 1..Len(decor)
  PROVE  LET b == HandlersOf(e)
         IN  /\ b \in Seq(Calls)
             /\ b # << >> => OnlyDrags(Tail(b))
             /\ \A j \in 1..Len(b) : b[j].decor \in 1..Len(decor)
             /\ e.type = "Press" /\ b # << >> => b[1].kind \in {"button", "drag"}
             /\ e.type = "Release" =>
                  /\ release = {} => b = << >>
                  /\ release # {} =>
                       \E h \in release : b = <<[kind |-> "release", decor |-> h.decor, id |-> h.id]>>
             /\ e.type \notin {"Press", "Release"} => b = << >>
<1> DEFINE b == HandlersOf(e)
<1>1. Len(<< >>) = 0 /\ << >> \in Seq(Calls)
  OBVIOUS
<1>2. CASE e.type = "Press"
  <2> DEFINE x == [kind |-> "button", decor |-> e.target, id |-> None]
             y == [kind |-> "drag", decor |-> e.target, id |-> None]
  <2>1. /\ x \in Calls /\ x.kind = "button" /\ x.decor = e.target
        /\ y \in Calls /\ y.kind = "drag" /\ y.decor = e.target
    BY <1>2 DEF Calls, None
  <2> DEFINE p == IF e.on = "button" THEN <<x>> ELSE << >>
             q == IF decor[e.target].client \in Movable THEN <<y>> ELSE << >>
  <2>2. b = p \o q
    BY <1>2 DEF HandlersOf
  <2>3. p \in Seq(Calls) /\ Len(p) \in {0, 1} /\ \A j \in 1..Len(p) : p[j] = x
    <3> HIDE DEF x
    <3>1. <<x>> \in Seq(Calls) /\ Len(<<x>>) = 1 /\ <<x>>[1] = x
      BY <2>1
    <3> QED BY <1>1, <3>1
  <2>4. q \in Seq(Calls) /\ Len(q) \in {0, 1} /\ \A j \in 1..Len(q) : q[j] = y
    <3> HIDE DEF y
    <3>1. <<y>> \in Seq(Calls) /\ Len(<<y>>) = 1 /\ <<y>>[1] = y
      BY <2>1
    <3> QED BY <1>1, <3>1
  <2> HIDE DEF b, x, y, p, q
  <2>5. /\ b \in Seq(Calls) /\ Len(b) = Len(p) + Len(q)
        /\ \A j \in 1..Len(b) : b[j] = IF j <= Len(p) THEN p[j] ELSE q[j - Len(p)]
    BY <2>2, <2>3, <2>4
  <2>6. ASSUME NEW j \in 1..Len(b)
        PROVE  b[j] \in {x, y} /\ (j > 1 => b[j] = y)
    <3>1. CASE j <= Len(p)
      <4>1. j \in 1..Len(p) /\ ~(j > 1)
        BY <2>3, <3>1
      <4> QED BY <2>3, <2>5, <3>1, <4>1
    <3>2. CASE ~(j <= Len(p))
      <4>1. j - Len(p) \in 1..Len(q)
        BY <2>3, <2>4, <2>5, <3>2
      <4> QED BY <2>4, <2>5, <3>2, <4>1
    <3> QED BY <3>1, <3>2
  <2>7. b # << >> => 1 \in 1..Len(b)
    BY <2>5
  <2>8. b # << >> => OnlyDrags(Tail(b))
    <3>1. ASSUME b # << >>, NEW j \in 1..Len(Tail(b))
          PROVE  Tail(b)[j] = b[j + 1] /\ j + 1 \in 1..Len(b) /\ j + 1 > 1
      BY <2>5, <3>1
    <3> QED BY <2>1, <2>6, <3>1 DEF OnlyDrags
  <2> QED BY <1>2, <2>1, <2>5, <2>6, <2>7, <2>8 DEF b
<1>3. CASE e.type = "Release"
  <2> DEFINE F(h) == [kind |-> "release", decor |-> h.decor, id |-> h.id]
  <2>1. b = SetToSeq({F(h) : h \in release})
    BY <1>3 DEF HandlersOf
  <2>2. /\ release \in SUBSET Listeners /\ \A g, h \in release : g = h
        /\ \A h \in release : h.decor \in 1..Len(decor)
    BY InvIs, StateIs DEF Objects, Heard
  <2>3. CASE release = {}
    <3>1. {F(h) : h \in release} = {} /\ IsFiniteSet({}) /\ Cardinality({}) = 0
      BY <2>3, FS_EmptySet
    <3>2. SetToSeq({}) \in Seq({}) /\ Len(SetToSeq({})) = 0
      BY <3>1, OrderOf
    <3>3. b = << >>
      <4>1. b = SetToSeq({})
        BY <2>1, <3>1
      <4> HIDE DEF b
      <4> QED BY <3>2, <4>1
    <3> QED BY <1>1, <1>3, <2>3, <3>3
  <2>4. CASE release # {}
    <3>1. PICK h \in release : TRUE
      BY <2>4
    <3>2. release = {h}
      BY <2>2, <3>1
    <3>3. F(h) \in Calls /\ F(h).decor \in 1..Len(decor) /\ F(h).kind = "release"
      BY <2>2, <3>1 DEF Listeners, Calls
    <3>4. {F(g) : g \in release} = {F(h)}
      BY <3>2
    <3> DEFINE x == F(h)
    <3>5. IsFiniteSet({x}) /\ Cardinality({x}) = 1
      BY FS_Singleton
    <3>6. b = SetToSeq({x})
      BY <2>1, <3>4
    <3> HIDE DEF x, b
    <3>7. b \in Seq({x}) /\ Len(b) = 1
      BY <3>5, <3>6, OrderOf
    <3>8. b = <<x>> /\ Len(Tail(b)) = 0 /\ \A j \in 1..Len(b) : b[j] = x
      BY <3>7
    <3>9. OnlyDrags(Tail(b))
      BY <3>8 DEF OnlyDrags
    <3>10. b \in Seq(Calls) /\ \A j \in 1..Len(b) : b[j].decor \in 1..Len(decor)
      BY <3>3, <3>8 DEF x
    <3> QED BY <1>3, <2>4, <3>8, <3>9, <3>10 DEF b, x
  <2> QED BY <2>3, <2>4
<1>4. CASE e.type \notin {"Press", "Release"}
  <2>1. b = << >>
    BY <1>4 DEF HandlersOf
  <2> QED BY <1>1, <1>4, <2>1
<1> QED BY <1>2, <1>3, <1>4

\* The loop that runs the main loop looks around again, or spins on.
LEMMA SpunIs ==
  ASSUME IInv, Running
  PROVE  /\ Shape(Spun) /\ Points(Spun, decor) /\ SameButtons(frames, Spun)
         /\ Len(Spun) = Len(frames)
         /\ Spun = << >> \/ IsLoop(Spun[Len(Spun)])
         /\ frames = << >> <=> Spun = << >>
         /\ frames # << >> => /\ IsLoop(frames[Len(frames)]) /\ frames[Len(frames)].at = "spin"
                              /\ Spun[Len(frames)].kind = frames[Len(frames)].kind
                              /\ Spun[Len(frames)].decor = frames[Len(frames)].decor
<1>1. Shape(frames) /\ Points(frames, decor)
  BY InvIs
<1>2. CASE frames = << >>
  <2>1. Spun = << >>
    BY <1>2 DEF Spun
  <2>2. SameButtons(frames, frames)
    BY DEF SameButtons
  <2> QED BY <1>1, <1>2, <2>1, <2>2
<1>3. CASE frames # << >>
  <2> DEFINE n == Len(frames)
             k == frames[n]
             x == [k EXCEPT !.spins = @ - 1]
             y == [k EXCEPT !.spins = 1, !.at = "look"]
             f == IF k.spins > 1 /\ Len(queue) > 1 THEN x ELSE y
  <2>1. Top = k /\ k.at = "spin" /\ Spun = WithTop(frames, f)
    BY <1>3 DEF Running, Top, Last, Spun, WithTop, Depth
  <2>2. k \in FrameRecs /\ Proper(k)
    BY <1>1, <1>3, TopIs
  <2>3. IsLoop(k)
    BY <2>1, <2>2 DEF Proper, IsLoop, FrameRecs
  <2>4. /\ f \in FrameRecs /\ f.kind = k.kind /\ f.decor = k.decor
        /\ f.client = k.client /\ f.todo = k.todo /\ f.at \in {"look", "spin"}
    <3>1. \A z \in Nat : LET g == [k EXCEPT !.spins = z]
                         IN  /\ g \in FrameRecs /\ g.kind = k.kind /\ g.decor = k.decor
                             /\ g.client = k.client /\ g.todo = k.todo /\ g.at = k.at
      BY <2>2 DEF FrameRecs
    <3>2. /\ y \in FrameRecs /\ y.kind = k.kind /\ y.decor = k.decor
          /\ y.client = k.client /\ y.todo = k.todo /\ y.at = "look"
      BY <2>2 DEF FrameRecs
    <3>3. k.spins \in Nat
      BY <2>2 DEF FrameRecs
    <3>4. CASE k.spins > 1 /\ Len(queue) > 1
      <4>1. k.spins - 1 \in Nat
        BY <3>3, <3>4
      <4>2. f = [k EXCEPT !.spins = k.spins - 1]
        BY <3>4
      <4> HIDE DEF f, y, k
      <4>3. /\ f \in FrameRecs /\ f.kind = k.kind /\ f.decor = k.decor
            /\ f.client = k.client /\ f.todo = k.todo /\ f.at = k.at
        BY <3>1, <4>1, <4>2
      <4> QED BY <2>1, <4>3
    <3>5. CASE ~(k.spins > 1 /\ Len(queue) > 1)
      <4>1. f = y
        BY <3>5
      <4> HIDE DEF f, y, k
      <4> QED BY <3>2, <4>1
    <3> QED BY <3>4, <3>5
  <2> HIDE DEF f
  <2>5. /\ Shape(Spun) /\ Points(Spun, decor) /\ SameButtons(frames, Spun)
        /\ Len(Spun) = Len(frames) /\ Spun # << >> /\ Spun[Len(frames)] = f
        /\ IsLoop(Spun[Len(Spun)])
    <3> HIDE DEF Spun
    <3> QED BY <1>1, <1>3, <2>1, <2>3, <2>4, LoopTurns
  <2> QED BY <1>3, <2>1, <2>3, <2>4, <2>5
<1> QED BY <1>2, <1>3

\* The frames and the pointer after an event was taken, whatever it did to the
\* objects.
LEMMA DispatchFrames ==
  ASSUME IInv, Dispatch
  PROVE  LET e == Head(queue)
         IN  /\ e \in EventRecs
             /\ e.type = "Unmap" => e.target \in Clients
             /\ e.type = "Theme" => themes > 0
             /\ Shape(frames') /\ Points(frames', decor) /\ SameButtons(frames, frames')
             /\ \E after : /\ Pointed(queue', held', Len(decor), themes, after)
                           /\ \A R \in SUBSET release :
                                (e.type = "Release" => R = release) => Grabs(frames', R, after)
<1> DEFINE e == Head(queue)
           b == HandlersOf(e)
           f == [kind |-> "dispatch", at |-> "call", decor |-> None, client |-> None,
                 todo |-> b, spins |-> 0]
           m == Len(frames)
<1>1. /\ Running /\ queue # << >> /\ frames' = Append(Spun, f) /\ queue' = Tail(queue)
      /\ UNCHANGED <<held, themes, misused>>
  BY DEF Dispatch
<1>2. PICK down : Pointed(queue, held, Len(decor), themes, down) /\ Grabs(frames, release, down)
  BY InvIs
<1>3. /\ 1 \in 1..Len(queue) /\ e = queue[1] /\ queue' = RemoveAt(queue, 1) /\ e \in EventRecs
  <2>1. queue \in Seq(EventRecs)
    BY <1>2 DEF Pointed
  <2> QED BY <1>1, <2>1, TailIs
<1>4. Len(decor) \in Nat /\ themes \in Nat /\ Shape(frames)
  BY InvIs
<1>5. \A i \in 1..(1 - 1) : ~IsPointer(queue[i])
  OBVIOUS
<1>6. /\ e.type = "Press" => e.target \in 1..Len(decor)
      /\ e.type = "Unmap" => e.target \in Clients
      /\ e.type = "Theme" => themes > 0
      /\ \E after : /\ Pointed(RemoveAt(queue, 1), held, Len(decor), themes, after)
                    /\ e.type = "Press" => ~down /\ after
                    /\ e.type = "Motion" => down /\ after
                    /\ ~IsPointer(e) /\ down => after
  <2> DEFINE k == 1
  <2>1. k \in 1..Len(queue) /\ \A i \in 1..(k - 1) : ~IsPointer(queue[i])
    BY <1>3, <1>5
  <2>2. queue[k] = e /\ RemoveAt(queue, 1) = RemoveAt(queue, k)
    BY <1>3
  <2> HIDE DEF e, k
  <2>3. Pointed(queue, held, Len(decor), themes, down)
    BY <1>2
  <2>4. /\ queue[k].type = "Press" => queue[k].target \in 1..Len(decor)
        /\ queue[k].type = "Unmap" => queue[k].target \in Clients
        /\ queue[k].type = "Theme" => themes > 0
    BY <1>4, <2>1, <2>3, PointedNext
  <2>5. \E after : /\ Pointed(RemoveAt(queue, k), held, Len(decor), themes, after)
                   /\ queue[k].type = "Press" => ~down /\ after
                   /\ queue[k].type = "Motion" => down /\ after
                   /\ ~IsPointer(queue[k]) /\ down => after
    BY <1>4, <2>1, <2>3, PointedNext
  <2> QED BY <2>2, <2>4, <2>5
<1> HIDE DEF e
<1>7. PICK after : /\ Pointed(queue', held', Len(decor), themes, after)
                   /\ e.type = "Press" => ~down /\ after
                   /\ e.type = "Motion" => down /\ after
                   /\ ~IsPointer(e) /\ down => after
  BY <1>1, <1>3, <1>6
<1>8. /\ b \in Seq(Calls) /\ (b # << >> => OnlyDrags(Tail(b)))
      /\ \A j \in 1..Len(b) : b[j].decor \in 1..Len(decor)
      /\ e.type = "Press" /\ b # << >> => b[1].kind \in {"button", "drag"}
      /\ e.type = "Release" =>
           /\ release = {} => b = << >>
           /\ release # {} =>
                \E h \in release : b = <<[kind |-> "release", decor |-> h.decor, id |-> h.id]>>
      /\ e.type \notin {"Press", "Release"} => b = << >>
  BY <1>3, <1>6, HandlersIs
<1> HIDE DEF b
<1>9. f \in FrameRecs /\ f.kind = "dispatch" /\ f.at = "call" /\ f.todo = b
  BY <1>8 DEF FrameRecs, None
<1> HIDE DEF f
<1>10. Proper(f) /\ PointsTo(f, decor) /\ ~IsLoop(f)
  BY <1>8, <1>9 DEF Proper, PointsTo, IsLoop
<1>11. /\ Shape(Spun) /\ Points(Spun, decor) /\ SameButtons(frames, Spun)
       /\ Len(Spun) = m
       /\ Spun = << >> \/ IsLoop(Spun[Len(Spun)])
       /\ frames = << >> <=> Spun = << >>
       /\ frames # << >> => /\ IsLoop(frames[m]) /\ frames[m].at = "spin"
                            /\ Spun[m].kind = frames[m].kind
                            /\ Spun[m].decor = frames[m].decor
  BY <1>1, SpunIs
<1>12. /\ Shape(frames') /\ Points(frames', decor) /\ SameButtons(Spun, frames')
       /\ Len(frames') = Len(Spun) + 1 /\ frames'[Len(Spun) + 1] = f
       /\ \A i \in 1..Len(Spun) : frames'[i] = Spun[i]
  <2> DEFINE G == Spun
  <2>1. f.kind # "button"
    BY <1>9
  <2>2. f.kind = "dispatch" => G = << >> \/ IsLoop(G[Len(G)])
    BY <1>11
  <2>3. Shape(G) /\ Points(G, decor) /\ frames' = Append(G, f)
    BY <1>1, <1>11
  <2> HIDE DEF G
  <2>4. /\ Shape(frames') /\ Points(frames', decor) /\ SameButtons(G, frames')
        /\ Len(frames') = Len(G) + 1 /\ frames'[Len(G) + 1] = f
        /\ \A i \in 1..Len(G) : frames'[i] = G[i]
    BY <1>10, <2>1, <2>2, <2>3, TopAdded
  <2> QED BY <2>4 DEF G
<1>13. SameButtons(frames, frames')
  BY <1>11, <1>12 DEF SameButtons
<1>14. /\ m \in Nat /\ Len(frames') = m + 1 /\ frames' # << >> /\ frames'[Len(frames')] = f
  <2>1. m \in Nat
    BY <1>4 DEF Shape
  <2> QED BY <1>11, <1>12, <2>1
<1>15. Innermost(frames') = m
  BY <1>9, <1>14 DEF Innermost
<1>16. Due(frames') = IF b = << >> THEN "none" ELSE b[1].kind
  BY <1>9, <1>14 DEF Due
<1>17. frames # << >> => /\ Innermost(frames) = m /\ Due(frames) = "none" /\ m \in 1..m
                         /\ frames'[m].kind = frames[m].kind /\ frames'[m].decor = frames[m].decor
  <2> SUFFICES ASSUME frames # << >>
               PROVE  /\ Innermost(frames) = m /\ Due(frames) = "none" /\ m \in 1..m
                      /\ frames'[m].kind = frames[m].kind /\ frames'[m].decor = frames[m].decor
    OBVIOUS
  <2>1. Innermost(frames) = m /\ Due(frames) = "none" /\ m \in 1..m
    BY <1>4, <1>11, DueIs, TopIs
  <2>2. frames'[m] = Spun[m]
    BY <1>11, <1>12, <2>1
  <2> QED BY <1>11, <2>1, <2>2
<1>18. frames = << >> => release = {}
  BY <1>2 DEF Grabs, Innermost
<1>19. release # {} => down
  BY <1>2, <1>11, <1>17, <1>18 DEF Grabs
<1>20. ASSUME NEW R \in SUBSET release, e.type = "Release" => R = release
       PROVE  Grabs(frames', R, after)
  <2>1. \A h \in R : Innermost(frames') > 0 /\ frames'[Innermost(frames')].decor = h.decor
    <3> SUFFICES ASSUME NEW h \in R PROVE m > 0 /\ frames'[m].decor = h.decor
      BY <1>15
    <3>1. frames # << >> /\ h \in release
      BY <1>18
    <3>2. frames[m].decor = h.decor /\ m > 0
      BY <1>2, <1>17, <3>1 DEF Grabs
    <3> QED BY <1>17, <3>1, <3>2
  <2>2. Due(frames') \in {"button", "drag"} => e.type = "Press" /\ after /\ R = {}
    <3> SUFFICES ASSUME Due(frames') \in {"button", "drag"}
                 PROVE  e.type = "Press" /\ after /\ R = {}
      OBVIOUS
    <3>1. b # << >> /\ b[1].kind \in {"button", "drag"}
      BY <1>16
    <3>2. e.type # "Release"
      <4> SUFFICES ASSUME e.type = "Release" PROVE FALSE
        OBVIOUS
      <4>1. PICK h \in release : b = <<[kind |-> "release", decor |-> h.decor, id |-> h.id]>>
        BY <1>8, <3>1
      <4>2. b[1].kind = "release"
        BY <4>1
      <4> QED BY <3>1, <4>2
    <3>3. e.type = "Press"
      BY <1>8, <3>1, <3>2
    <3> QED BY <1>7, <1>19, <3>3
  <2>3. Due(frames') = "release" =>
          \E h \in R : frames'[Len(frames')].todo
                         = <<[kind |-> "release", decor |-> h.decor, id |-> h.id]>>
    <3> SUFFICES ASSUME Due(frames') = "release"
                 PROVE  \E h \in R : b = <<[kind |-> "release", decor |-> h.decor, id |-> h.id]>>
      BY <1>9, <1>14
    <3>1. b # << >> /\ b[1].kind = "release"
      BY <1>16
    <3>2. e.type = "Release"
      BY <1>8, <3>1
    <3> QED BY <1>8, <1>20, <3>1, <3>2
  <2>4. R # {} => after \/ Due(frames') = "release"
    <3> SUFFICES ASSUME R # {} PROVE after \/ Due(frames') = "release"
      OBVIOUS
    <3>1. down
      BY <1>19
    <3>2. CASE e.type = "Release"
      <4>1. PICK h \in release : b = <<[kind |-> "release", decor |-> h.decor, id |-> h.id]>>
        BY <1>8, <3>2
      <4>2. b # << >> /\ b[1].kind = "release"
        BY <4>1
      <4> QED BY <1>16, <4>2
    <3>3. CASE e.type # "Release"
      <4>1. ~IsPointer(e) \/ e.type \in {"Press", "Motion"}
        BY <3>3 DEF IsPointer
      <4> QED BY <1>7, <3>1, <4>1
    <3> QED BY <3>2, <3>3
  <2> QED BY <2>1, <2>2, <2>3, <2>4 DEF Grabs
<1> QED BY <1>3, <1>6, <1>7, <1>12, <1>13, <1>20 DEF e

\* An application withdraws its window: the reference of the window manager goes.
LEMMA UnmapKeeps ==
  ASSUME IInv, Dispatch, Head(queue).type = "Unmap", client[Head(queue).target].managed
  PROVE  IInv'
<1> DEFINE e == Head(queue)
           c == e.target
           x == [client[c] EXCEPT !.managed = FALSE]
           p == [client EXCEPT ![c] = x]
           s == [client |-> p, decor |-> decor, release |-> release, themed |-> themed]
           t == ClientUnref(s, c)
<1>1. /\ c \in Clients /\ Shape(frames') /\ Points(frames', decor) /\ SameButtons(frames, frames')
      /\ \E after : /\ Pointed(queue', held', Len(decor), themes, after)
                    /\ \A R \in SUBSET release :
                         (e.type = "Release" => R = release) => Grabs(frames', R, after)
  BY DispatchFrames
<1>2. PICK after : /\ Pointed(queue', held', Len(decor), themes, after)
                   /\ \A R \in SUBSET release :
                        (e.type = "Release" => R = release) => Grabs(frames', R, after)
  BY <1>1
<1>3. /\ State \in States /\ Objects(State)
      /\ State.client = client /\ State.decor = decor /\ State.release = release /\ State.themed = themed
      /\ Len(decor) \in Nat /\ client \in [Clients -> ClientRecs] /\ decor \in Seq(DecorRecs)
      /\ release \in SUBSET Listeners /\ themed \in Seq(Clients)
      /\ Shape(frames) /\ Points(frames, decor) /\ Books(frames, State, themes) /\ themes \in Nat
  BY InvIs, StateIs
<1>4. UNCHANGED <<held, themes, misused>> /\ Becomes(t)
  <2>1. Becomes(ClientUnref([State EXCEPT !.client[c].managed = FALSE], c))
    BY DEF Dispatch
  <2>2. [State EXCEPT !.client[c].managed = FALSE] = s
    BY DEF State
  <2> HIDE DEF s, c
  <2> QED BY <2>1, <2>2 DEF Dispatch
<1> HIDE DEF State
<1>5. /\ x \in ClientRecs /\ x.refs = client[c].refs /\ x.decor = client[c].decor
      /\ ~x.managed /\ x.onPress = client[c].onPress
  <2>1. client[c] \in ClientRecs
    BY <1>1, <1>3
  <2> QED BY <2>1 DEF ClientRecs
<1> HIDE DEF x, c
<1>6. p \in [Clients -> ClientRecs] /\ p[c] = x /\ \A z \in Clients : z # c => p[z] = client[z]
  BY <1>1, <1>3, <1>5
<1> HIDE DEF p
<1>7. /\ s \in States /\ s.client = p /\ s.decor = decor /\ s.release = release /\ s.themed = themed
  BY <1>3, <1>6 DEF States
<1> HIDE DEF s
<1>8. ASSUME NEW z \in Clients
      PROVE  /\ s.client[z].decor = client[z].decor /\ s.client[z].refs = client[z].refs
             /\ s.client[z].onPress = client[z].onPress
  <2>1. CASE z = c
    BY <1>5, <1>6, <1>7, <2>1
  <2>2. CASE z # c
    BY <1>6, <1>7, <2>2
  <2> QED BY <2>1, <2>2
<1>9. Heard(s)
  BY <1>3, <1>7 DEF Objects, Heard
<1>10. Objects(s)
  BY <1>3, <1>7, <1>8, <1>9, ObjectsStay
<1>11. ASSUME NEW z \in Clients
       PROVE  /\ Cardinality(ButtonsFor(frames', z)) \in Nat
              /\ ButtonsFor(frames', z) = ButtonsFor(frames, z)
              /\ client[z].refs = Cardinality(ButtonsFor(frames', z)) + (IF client[z].managed THEN 1 ELSE 0)
  <2>1. ButtonsFor(frames', z) = ButtonsFor(frames, z)
    BY <1>1 DEF ButtonsFor, SameButtons
  <2>2. client[z].refs = Cardinality(ButtonsFor(frames, z)) + (IF client[z].managed THEN 1 ELSE 0)
    BY <1>3 DEF Books, Refs
  <2>3. Cardinality(ButtonsFor(frames', z)) \in Nat
    BY <1>1, ButtonsForIs
  <2> QED BY <2>1, <2>2, <2>3
<1>12. client[c].managed /\ client[c].refs > 0 /\ client[c].refs = Cardinality(ButtonsFor(frames', c)) + 1
  <2>1. client[c].managed
    BY DEF c
  <2> QED BY <1>1, <1>11, <2>1
<1>13. /\ t \in States /\ Objects(t) /\ Onward(s, t)
       /\ t.client[c].refs = client[c].refs - 1
       /\ t.client[c].managed = s.client[c].managed
       /\ client[c].refs > 1 => t.client[c].decor = client[c].decor
       /\ \A z \in Clients : z # c => t.client[z] = client[z]
  <2>1. s.client[c].refs > 0
    BY <1>1, <1>8, <1>12
  <2>2. /\ t \in States /\ Objects(t) /\ Onward(s, t)
        /\ t.client[c].refs = s.client[c].refs - 1
        /\ t.client[c].managed = s.client[c].managed
        /\ s.client[c].refs > 1 => t.client[c].decor = s.client[c].decor
        /\ \A z \in Clients : z # c => t.client[z] = s.client[z]
    BY <1>1, <1>7, <1>10, <2>1, ClientUnrefKeeps
  <2>3. \A z \in Clients : z # c => s.client[z] = client[z]
    BY <1>6, <1>7
  <2> QED BY <1>1, <1>8, <2>2, <2>3
<1> HIDE DEF t
<1>14. State' = t
  BY <1>4, <1>13, BecomesIs
<1>15. ASSUME NEW i \in 1..Len(decor)
       PROVE  /\ i \in 1..Len(t.decor) /\ t.decor[i].client = decor[i].client
              /\ t.decor[i].pressed => decor[i].pressed
  <2>1. Len(t.decor) \in Nat
    BY <1>13, StateIs
  <2> QED BY <1>3, <1>7, <1>13, <2>1 DEF Onward
<1>16. Pressed(frames', t)
  <2> SUFFICES ASSUME NEW d \in 1..Len(t.decor), t.decor[d].pressed
               PROVE  \/ \E i \in 1..Len(frames') : frames'[i].kind = "button" /\ frames'[i].decor = d
                      \/ t.client[t.decor[d].client].onPress
    BY DEF Pressed
  <2>1. d \in 1..Len(decor)
    <3>1. ~(d > Len(decor))
      BY <1>7, <1>13 DEF Onward
    <3> QED BY <1>3, <3>1
  <2>2. decor[d].pressed /\ t.decor[d].client = decor[d].client /\ decor[d].client \in Clients
    BY <1>3, <1>15, <2>1, StateIs
  <2>3. \/ \E i \in 1..Len(frames) : frames[i].kind = "button" /\ frames[i].decor = d
        \/ client[decor[d].client].onPress
    BY <1>3, <2>1, <2>2 DEF Books, Pressed
  <2>4. t.client[decor[d].client].onPress = client[decor[d].client].onPress
    BY <1>8, <1>13, <2>2 DEF Onward
  <2> QED BY <1>1, <2>2, <2>3, <2>4 DEF SameButtons
<1>17. Refs(frames', t)
  <2> SUFFICES ASSUME NEW z \in Clients
               PROVE  t.client[z].refs = Cardinality(ButtonsFor(frames', z))
                                         + (IF t.client[z].managed THEN 1 ELSE 0)
    BY DEF Refs
  <2>1. CASE z = c
    <3>1. ~t.client[c].managed
      BY <1>5, <1>6, <1>7, <1>13
    <3> QED BY <1>11, <1>12, <1>13, <2>1, <3>1
  <2>2. CASE z # c
    BY <1>11, <1>13, <2>2
  <2> QED BY <2>1, <2>2
<1>18. ASSUME themes = 0 PROVE Kept(frames', t)
  <2> SUFFICES ASSUME NEW i \in 1..Len(frames'), frames'[i].kind = "button"
               PROVE  t.client[frames'[i].client].decor = frames'[i].decor
    BY DEF Kept
  <2>1. client[frames'[i].client].decor = frames'[i].decor
    BY <1>1, <1>3, <1>18 DEF Books, Kept, SameButtons
  <2>2. frames'[i].client \in Clients
    <3>1. frames'[i].decor \in 1..Len(decor) /\ frames'[i].client = decor[frames'[i].decor].client
      BY <1>1 DEF Points, PointsTo, IsLoop
    <3> QED BY <1>3, <3>1, StateIs
  <2>3. CASE frames'[i].client = c
    <3>1. i \in ButtonsFor(frames', c)
      BY <2>3 DEF ButtonsFor
    <3>2. Cardinality(ButtonsFor(frames', c)) > 0
      BY <1>1, <3>1, SomeButton
    <3>3. client[c].refs > 1
      BY <1>1, <1>11, <1>12, <3>2
    <3> QED BY <1>13, <2>1, <2>3, <3>3
  <2>4. CASE frames'[i].client # c
    BY <1>13, <2>1, <2>2, <2>4
  <2> QED BY <2>3, <2>4
<1>19. Pointed(queue', held', Len(t.decor), themes, after)
  <2>1. Len(t.decor) \in Nat /\ Len(decor) <= Len(t.decor)
    BY <1>7, <1>13, StateIs DEF Onward
  <2> QED BY <1>2, <1>3, <2>1, PointedStays
<1>20. Grabs(frames', t.release, after)
  <2>1. t.release \in SUBSET release
    BY <1>7, <1>13 DEF Onward
  <2>2. e.type # "Release"
    OBVIOUS
  <2> HIDE DEF e
  <2> QED BY <1>2, <2>1, <2>2
<1>21. Points(frames', t.decor)
  BY <1>1, <1>15 DEF Points, PointsTo
<1>22. Whole(t, frames', queue', held', themes', misused')
  BY <1>1, <1>4, <1>13, <1>16, <1>17, <1>18, <1>19, <1>20, <1>21, InvIs DEF Whole, Books
<1> QED BY <1>14, <1>22 DEF IInv

\* The other events.
LEMMA DispatchKeeps ==
  ASSUME IInv, Dispatch
  PROVE  IInv'
<1> DEFINE e == Head(queue)
           t == Emitted(State)
<1>1. /\ (e.type = "Theme" => themes > 0)
      /\ Shape(frames') /\ Points(frames', decor) /\ SameButtons(frames, frames')
      /\ \E after : /\ Pointed(queue', held', Len(decor), themes, after)
                    /\ \A R \in SUBSET release :
                         (e.type = "Release" => R = release) => Grabs(frames', R, after)
  BY DispatchFrames
<1>2. PICK after : /\ Pointed(queue', held', Len(decor), themes, after)
                   /\ \A R \in SUBSET release :
                        (e.type = "Release" => R = release) => Grabs(frames', R, after)
  BY <1>1
<1>3. /\ State \in States /\ Objects(State)
      /\ State.client = client /\ State.decor = decor /\ State.release = release /\ State.themed = themed
      /\ Len(decor) \in Nat /\ themes \in Nat
  BY InvIs
<1>4. UNCHANGED <<held, themes, misused>>
  BY DEF Dispatch
<1>5. CASE e.type = "Unmap" /\ client[e.target].managed
  BY <1>5, UnmapKeeps
<1>6. CASE e.type = "Theme"
  <2>1. Becomes(t)
    BY <1>6 DEF Dispatch
  <2> HIDE DEF State
  <2>2. /\ t \in States /\ Objects(t) /\ Onward(State, t)
        /\ \A c \in Clients : /\ t.client[c].refs = State.client[c].refs
                              /\ t.client[c].managed = State.client[c].managed
    BY <1>3, EmittedKeeps
  <2> HIDE DEF t
  <2>3. State' = t
    BY <2>1, <2>2, BecomesIs
  <2>4. themes # 0
    BY <1>1, <1>3, <1>6
  <2>5. Len(t.decor) \in Nat /\ Len(decor) <= Len(t.decor)
    BY <1>3, <2>2, StateIs DEF Onward
  <2>6. Pointed(queue', held', Len(t.decor), themes, after)
    BY <1>2, <1>3, <2>5, PointedStays
  <2>7. Grabs(frames', t.release, after)
    <3>1. t.release \in SUBSET release
      BY <1>3, <2>2 DEF Onward
    <3> HIDE DEF e
    <3> QED BY <1>2, <1>6, <3>1
  <2>8. Points(frames', t.decor)
    <3>1. \A i \in 1..Len(decor) : i \in 1..Len(t.decor) /\ t.decor[i].client = decor[i].client
      BY <1>3, <2>2, <2>5 DEF Onward
    <3> QED BY <1>1, <3>1 DEF Points, PointsTo
  <2> HIDE DEF e
  <2> QED BY <1>1, <1>3, <1>4, <2>2, <2>3, <2>4, <2>6, <2>7, <2>8, StepKeeps
<1>7. CASE ~(e.type = "Unmap" /\ client[e.target].managed) /\ e.type # "Theme"
  <2>1. UNCHANGED <<client, decor, release, themed>>
    BY <1>7 DEF Dispatch
  <2>2. State' = State
    BY <2>1, StateStays
  <2>3. Grabs(frames', release, after)
    <3> HIDE DEF e
    <3> QED BY <1>2
  <2> HIDE DEF State, e
  <2> QED BY <1>1, <1>2, <1>3, <1>4, <2>2, <2>3, SelfOnward, StepKeeps
<1> QED BY <1>5, <1>6, <1>7

-----------------------------------------------------------------------------
(* At the start every client has its decor, and nothing is going on.         *)

\* The invariant holds when the windows are there and nothing has happened.
LEMMA InitIInv ==
  ASSUME Init
  PROVE  IInv
<1> DEFINE order == SetToSeq(Clients)
           n == Cardinality(Clients)
           at(c) == CHOOSE d \in DOMAIN order : order[d] = c
           own(c, b) == [refs |-> 1, managed |-> TRUE, onPress |-> b, decor |-> at(c)]
           first(c) == [NewDecor(c) EXCEPT !.realized = TRUE]
<1>1. /\ n \in Nat /\ order \in [1..n -> Clients] /\ order \in Seq(Clients) /\ Len(order) = n
      /\ Distinct(order)
      /\ \A c \in Clients : \E i \in 1..n : order[i] = c
  <2>1. IsFiniteSet(Clients)
    BY DecorationsAssumption
  <2> QED BY <2>1, OrderOf
<1>2. PICK quick \in SUBSET PressActivated : client = [c \in Clients |-> own(c, c \in quick)]
  BY DEF Init
<1>3. /\ decor = [d \in DOMAIN order |-> first(order[d])] /\ themed = order
      /\ release = {} /\ frames = << >> /\ held = None /\ queue = << >> /\ themes = 0
      /\ misused = "none"
  BY DEF Init
<1> HIDE DEF order
<1>4. ASSUME NEW c \in Clients PROVE at(c) \in 1..n /\ order[at(c)] = c
  <2>1. DOMAIN order = 1..n
    BY <1>1
  <2>2. \E d \in DOMAIN order : order[d] = c
    BY <1>1, <2>1
  <2>3. at(c) \in DOMAIN order /\ order[at(c)] = c
    BY <2>2
  <2> QED BY <2>1, <2>3
<1>5. ASSUME NEW d \in 1..n PROVE at(order[d]) = d /\ order[d] \in Clients
  <2>1. order[d] \in Clients
    BY <1>1
  <2>2. at(order[d]) \in 1..n /\ order[at(order[d])] = order[d]
    BY <1>4, <2>1
  <2> HIDE DEF at
  <2> QED BY <1>1, <2>1, <2>2 DEF Distinct
<1> HIDE DEF at
<1>6. ASSUME NEW c \in Clients
      PROVE  /\ first(c) \in DecorRecs /\ first(c).client = c /\ first(c).refs = 1
             /\ ~first(c).pressed
  BY DEF DecorRecs, NewDecor, None
<1> HIDE DEF first
<1>7. /\ decor \in Seq(DecorRecs) /\ Len(decor) = n
      /\ \A d \in 1..n : decor[d] = first(order[d])
  BY <1>1, <1>3, <1>5, <1>6
<1>8. ASSUME NEW c \in Clients
      PROVE  /\ client[c] \in ClientRecs /\ client[c].refs = 1 /\ client[c].managed
             /\ client[c].decor = at(c)
  <2>1. at(c) \in Nat
    BY <1>1, <1>4
  <2> QED BY <1>2, <2>1 DEF ClientRecs
<1>9. client \in [Clients -> ClientRecs]
  BY <1>2, <1>8
<1>10. State \in States
  BY <1>1, <1>3, <1>7, <1>9 DEF States, State
<1>11. /\ State.client = client /\ State.decor = decor /\ State.release = {} /\ State.themed = order
  BY <1>3 DEF State
<1> HIDE DEF State
<1>12. ASSUME NEW c \in Clients PROVE Owns(State, c)
  <2>1. at(c) # None /\ at(c) \in 1..Len(decor)
    BY <1>1, <1>4, <1>7 DEF None
  <2>2. decor[at(c)].client = c /\ decor[at(c)].refs = 1
    BY <1>4, <1>6, <1>7
  <2>3. \E i \in 1..Len(order) : order[i] = c
    BY <1>1
  <2> QED BY <1>8, <1>11, <2>1, <2>2, <2>3 DEF Owns
<1>13. ASSUME NEW d \in 1..Len(decor) PROVE Owned(State, d) /\ ~decor[d].pressed
  BY <1>5, <1>6, <1>7, <1>8, <1>11 DEF Owned
<1>14. Objects(State)
  <2>1. Heard(State)
    BY <1>11 DEF Heard
  <2> QED BY <1>1, <1>11, <1>12, <1>13, <2>1 DEF Objects
<1>15. Len(frames) = 0 /\ frames \in Seq(FrameRecs)
  BY <1>3
<1>16. Shape(frames) /\ Points(frames, decor)
  BY <1>15 DEF Shape, Points
<1>17. Books(frames, State, themes)
  <2>1. Pressed(frames, State) /\ Kept(frames, State)
    BY <1>11, <1>13, <1>15 DEF Pressed, Kept
  <2>2. ASSUME NEW c \in Clients PROVE Cardinality(ButtonsFor(frames, c)) = 0
    <3>1. ButtonsFor(frames, c) = {}
      BY <1>15 DEF ButtonsFor
    <3> QED BY <3>1, FS_EmptySet
  <2> QED BY <1>8, <1>11, <2>1, <2>2 DEF Books, Refs
<1>18. Pointed(queue, held, Len(decor), themes, FALSE)
  <2> DEFINE up == [i \in 1..1 |-> TRUE]
  <2>1. Len(queue) = 0 /\ queue \in Seq(EventRecs)
    BY <1>3
  <2>2. Aimed(queue, Len(decor), themes)
    BY <2>1 DEF Aimed
  <2>3. up \in [1..1 -> BOOLEAN] /\ up[1] = TRUE
    OBVIOUS
  <2> HIDE DEF up
  <2>4. Stream(queue, held, up)
    BY <1>3, <2>1, <2>3 DEF Stream
  <2>5. FALSE = ~up[1]
    BY <2>3
  <2>6. held \in 0..Len(decor)
    BY <1>1, <1>3, <1>7 DEF None
  <2> QED BY <2>1, <2>2, <2>4, <2>5, <2>6 DEF Pointed
<1>19. Grabs(frames, release, FALSE)
  <2>1. Due(frames) = "none"
    BY <1>3 DEF Due
  <2>2. Grabs(frames, {}, FALSE)
    BY <2>1 DEF Grabs
  <2> QED BY <1>3, <2>2
<1>20. Whole(State, frames, queue, held, themes, misused)
  BY <1>3, <1>10, <1>11, <1>14, <1>16, <1>17, <1>18, <1>19 DEF Whole
<1> QED BY <1>20 DEF IInv

\* Every step of the program, the user and the applications keeps it.
LEMMA NextKeeps ==
  ASSUME IInv, [Next]_vars
  PROVE  IInv'
<1>1. CASE Environment
  BY <1>1, EnvironmentKeeps
<1>2. CASE Dispatch \/ Idle \/ Dispatched
  BY <1>2, DispatchKeeps, IdleKeeps, DispatchedKeeps
<1>3. CASE CallNothing \/ PressButton \/ PressTitle \/ ReleaseElsewhere
  BY <1>3, CallNothingKeeps, PressButtonKeeps, PressTitleKeeps, ReleaseElsewhereKeeps
<1>4. CASE Misuse("button") \/ Misuse("drag")
  BY <1>4, MisuseKeeps
<1>5. CASE ButtonReleasedElsewhere \/ ButtonLoop \/ ButtonSpins
  BY <1>5, ButtonReleasedElsewhereKeeps, ButtonLoopKeeps, ButtonSpinsKeeps
<1>6. CASE DragReleasedElsewhere \/ DragLoop
  BY <1>6, DragReleasedElsewhereKeeps, DragLoopKeeps
<1>7. CASE UNCHANGED vars
  <2>1. State' = State
    BY <1>7, StateStays DEF vars
  <2> HIDE DEF State
  <2> QED BY <1>7, <2>1 DEF IInv, vars
<1> QED BY <1>1, <1>2, <1>3, <1>4, <1>5, <1>6, <1>7 DEF Next, Program

-----------------------------------------------------------------------------
(* The theorems.                                                             *)

\* The objects fit each other, the frames alternate, and what a loop took it
\* still has, at every moment.
THEOREM BooksAreKept == Spec => []IInv
<1>1. Init => IInv
  BY InitIInv
<1>2. IInv /\ [Next]_vars => IInv'
  BY NextKeeps
<1> QED BY <1>1, <1>2, PTL DEF Spec

\* However the loop of a button or of a drag ends, and whatever ran in it, the
\* handlers for releases, the buttons drawn as pressed and the references to
\* clients are those of the loops that are left.
THEOREM LoopsClean == Spec => []LoopsCleanUp
<1>1. IInv => LoopsCleanUp
  <2> SUFFICES ASSUME IInv PROVE LoopsCleanUp
    OBVIOUS
  <2>1. /\ State \in States /\ Objects(State) /\ Books(frames, State, themes)
        /\ State.client = client /\ State.decor = decor /\ State.release = release
        /\ DOMAIN decor = 1..Len(decor) /\ DOMAIN frames = 1..Len(frames)
        /\ Shape(frames) /\ Len(frames) \in Nat
    BY InvIs DEF Shape
  <2> HIDE DEF State
  <2>2. PICK down : Grabs(frames, release, down)
    BY InvIs
  <2>3. ASSUME NEW h \in release
        PROVE  /\ Alive(h.decor) /\ decor[h.decor].releaseId = h.id
               /\ \E i \in Loops("button") \cup Loops("drag") : frames[i].decor = h.decor
    <3>1. h.decor \in 1..Len(decor) /\ decor[h.decor].releaseId = h.id /\ h.id # None
      BY <2>1, StateIs DEF Objects, Heard, Listeners, None
    <3>2. decor[h.decor].refs > 0
      <4>1. Owned(State, h.decor)
        BY <2>1, <3>1 DEF Objects
      <4>2. decor[h.decor].refs \in {0, 1}
        BY <2>1, <3>1, StateIs DEF DecorRecs
      <4> QED BY <2>1, <3>1, <4>1, <4>2 DEF Owned
    <3> DEFINE i == Innermost(frames)
    <3>3. i > 0 /\ frames[i].decor = h.decor
      BY <2>2 DEF Grabs
    <3>4. i \in 1..Len(frames) /\ IsLoop(frames[i])
      <4>1. frames # << >>
        BY <3>3 DEF Innermost
      <4> DEFINE m == Len(frames)
      <4>2. m \in 1..m
        BY <2>1, <4>1, TopIs
      <4>3. CASE frames[m].kind = "dispatch"
        <5>1. i = m - 1
          BY <4>1, <4>3 DEF Innermost
        <5>2. m - 1 \in 1..m /\ m - 1 < m /\ (m - 1) + 1 = m
          BY <2>1, <3>3, <4>2, <5>1
        <5>3. frames[m - 1].kind = "dispatch" <=> IsLoop(frames[(m - 1) + 1])
          BY <2>1, <5>2 DEF Shape
        <5>4. frames[m].kind = "dispatch" <=> ~IsLoop(frames[m])
          BY <2>1, <4>2, KindsAre
        <5>5. frames[m - 1].kind = "dispatch" <=> ~IsLoop(frames[m - 1])
          BY <2>1, <5>2, KindsAre
        <5> QED BY <4>3, <5>1, <5>2, <5>3, <5>4, <5>5
      <4>4. CASE frames[m].kind # "dispatch"
        <5>1. i = m
          BY <4>1, <4>4 DEF Innermost
        <5>2. IsLoop(frames[m])
          BY <2>1, <4>2, <4>4, KindsAre
        <5> QED BY <4>2, <5>1, <5>2
      <4> QED BY <4>3, <4>4
    <3>5. i \in Loops("button") \cup Loops("drag")
      BY <2>1, <3>4 DEF Loops, IsLoop
    <3> HIDE DEF i
    <3> QED BY <3>1, <3>2, <3>3, <3>5 DEF Alive
  <2>4. ASSUME NEW d \in DOMAIN decor, decor[d].pressed
        PROVE  \/ \E i \in Loops("button") : frames[i].decor = d
               \/ client[decor[d].client].onPress
    BY <2>1, <2>4 DEF Books, Pressed, Loops
  <2>5. ASSUME NEW c \in Clients
        PROVE  client[c].refs = Cardinality({i \in Loops("button") : frames[i].client = c})
                                + (IF client[c].managed THEN 1 ELSE 0)
    <3>1. {i \in Loops("button") : frames[i].client = c} = ButtonsFor(frames, c)
      BY <2>1 DEF Loops, ButtonsFor
    <3> QED BY <2>1, <3>1 DEF Books, Refs
  <2> QED BY <2>3, <2>4, <2>5 DEF LoopsCleanUp
<1> QED BY <1>1, BooksAreKept, PTL

\* While the theme stays, no button's loop finds its decor freed; one that is
\* freed is no longer that of its client.
THEOREM ButtonsKeep == Spec => []ButtonsKeepDecors
<1>1. IInv => ButtonsKeepDecors
  <2> SUFFICES ASSUME IInv PROVE ButtonsKeepDecors
    OBVIOUS
  <2>1. /\ State \in States /\ Objects(State) /\ State.client = client /\ State.decor = decor
        /\ DOMAIN frames = 1..Len(frames) /\ Points(frames, decor) /\ (misused = "button" => themes > 0)
    BY InvIs
  <2> HIDE DEF State
  <2>2. ASSUME NEW i \in Loops("button"), client[frames[i].client].decor = frames[i].decor
        PROVE  Alive(frames[i].decor)
    <3>1. /\ i \in 1..Len(frames) /\ IsLoop(frames[i])
      BY <2>1 DEF Loops, IsLoop
    <3>2. frames[i].decor \in 1..Len(decor) /\ frames[i].client = decor[frames[i].decor].client
      BY <2>1, <3>1 DEF Points, PointsTo
    <3>3. frames[i].client \in Clients
      BY <2>1, <3>2, StateIs
    <3>4. Owns(State, frames[i].client)
      BY <2>1, <3>3 DEF Objects
    <3> QED BY <2>1, <2>2, <3>4 DEF Owns, Alive, None
  <2> QED BY <2>1, <2>2 DEF ButtonsKeepDecors
<1> QED BY <1>1, BooksAreKept, PTL
=============================================================================
