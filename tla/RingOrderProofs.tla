--------------------------- MODULE RingOrderProofs ---------------------------
(***************************************************************************)
(* The ring is a ring, and rubout restores it: there is a way back.  Each  *)
(* token leads from what the ring looks like to what it looked like        *)
(* before, a closed buffer knows its place in that, and at each command    *)
(* that can be rubbed out, it looks like what the user saw.                *)
(***************************************************************************)
EXTENDS RingProofs

-----------------------------------------------------------------------------
(* The order of a ring.                                                    *)

(* Buffers of a ring are different, so there are not more than addresses.  *)
LEMMA RingIsShort ==
  ASSUME NEW s \in Seq(Entries), Distinct(s)
  PROVE  Len(s) \in Nat /\ Cardinality(Entries) \in Nat /\ Len(s) <= Cardinality(Entries)
<1> DEFINE n == Len(s)
           f == [i \in 1 .. n |-> s[i]]
<1>1. n \in Nat
  OBVIOUS
<1>2. \A i \in 1 .. n : s[i] \in Entries
  BY ElementOfSeq
<1> HIDE DEF n
<1>3. f \in Injection(1 .. n, Entries)
  BY <1>2 DEF Distinct, Injection, IsInjective, n
<1> HIDE DEF f
<1>4. Cardinality(1 .. n) <= Cardinality(Entries) /\ IsFiniteSet(Entries)
  BY <1>3, FS_Injection, AddressesAssumption
<1>5. Cardinality(1 .. n) = n /\ Cardinality(Entries) \in Nat
  BY <1>1, <1>4, FS_Interval, FS_CardinalityType
<1> QED
  BY <1>1, <1>4, <1>5 DEF n

(* Walking along the ring finds its buffers.                               *)
LEMMA OrderIsTheList ==
  ASSUME NEW e, NEW s, IsList(e.links, s)
  PROVE  Order(e) = s /\ InRing(e) = {s[i] : i \in 1 .. Len(s)}
<1> DEFINE N == Cardinality(Entries)
           n == Len(s)
           next == e.links.next
           W == [k \in 0 .. N |-> IF k <= n THEN NodeOf(s, k) ELSE Null]
           Body(f, k) == IF k = 0 THEN Root ELSE IF f[k - 1] = Null THEN Null ELSE next[f[k - 1]]
           Is(f) == f = [k \in 0 .. N |-> Body(f, k)]
           walk == CHOOSE f : Is(f)
           reached == {k \in 1 .. N : walk[k] # Null}
<1>1. n \in Nat /\ N \in Nat /\ n <= N /\ s \in Seq(Entries)
  BY RingIsShort DEF IsList
<1>2. \A k \in 0 .. n : NodeOf(s, k) \in Nodes /\ NodeOf(s, k) # Null /\ next[NodeOf(s, k)] = NextOf(s, k)
  BY NodesDiffer DEF IsList
<1>3. Order(e) = [k \in 1 .. Cardinality(reached) |-> walk[k]]
  BY DEF Order
<1>4. s = [k \in 1 .. n |-> s[k]]
  BY <1>1
<1> HIDE DEF N, n, next
<1>5. \A k \in 0 .. N : W[k] = Body(W, k)
  <2> SUFFICES ASSUME NEW k \in 0 .. N PROVE W[k] = Body(W, k)
    OBVIOUS
  <2>1. CASE k = 0
    BY <1>1, <2>1 DEF NodeOf
  <2>2. CASE k # 0 /\ k <= n
    <3>1. k - 1 \in 0 .. N /\ k - 1 \in 0 .. n /\ k - 1 # n
      BY <1>1, <2>2
    <3>2. W[k - 1] = NodeOf(s, k - 1) /\ W[k] = NodeOf(s, k)
      BY <2>2, <3>1
    <3>3. NextOf(s, k - 1) = s[k] /\ NodeOf(s, k) = s[k]
      BY <1>1, <2>2, <3>1 DEF NextOf, NodeOf, n
    <3> HIDE DEF W
    <3> QED
      BY <1>2, <2>2, <3>1, <3>2, <3>3
  <2>3. CASE k = n + 1
    <3>1. k - 1 \in 0 .. N /\ k - 1 = n /\ k # 0 /\ ~(k <= n) /\ n \in 0 .. n
      BY <1>1, <2>3
    <3>2. W[k - 1] = NodeOf(s, n) /\ W[k] = Null
      BY <1>1, <2>3, <3>1
    <3>3. NextOf(s, n) = Null
      BY DEF NextOf, n
    <3> HIDE DEF W
    <3> QED
      BY <1>2, <3>1, <3>2, <3>3
  <2>4. CASE k > n + 1
    <3>1. k - 1 \in 0 .. N /\ ~(k - 1 <= n) /\ k # 0 /\ ~(k <= n)
      BY <1>1, <2>4
    <3>2. W[k - 1] = Null /\ W[k] = Null
      BY <3>1
    <3> HIDE DEF W
    <3> QED
      BY <3>1, <3>2
  <2> QED
    BY <1>1, <2>1, <2>2, <2>3, <2>4
<1>6. Is(W)
  <2>1. W = [k \in 0 .. N |-> W[k]]
    OBVIOUS
  <2> HIDE DEF W, Body
  <2> QED
    BY <1>5, <2>1
<1>7. Is(walk)
  <2> HIDE DEF W, Is
  <2> QED
    BY <1>6
<1> HIDE DEF walk
<1> DEFINE S == {k \in Nat : k <= N => walk[k] = W[k]}
<1>8. 0 \in S
  <2>1. 0 \in 0 .. N
    BY <1>1
  <2>2. walk[0] = Body(walk, 0)
    BY <1>7, <2>1
  <2>3. W[0] = Body(W, 0)
    BY <1>5, <2>1
  <2> HIDE DEF W
  <2> QED
    BY <2>2, <2>3
<1>9. ASSUME NEW k \in Nat, k \in S PROVE k + 1 \in S
  <2> SUFFICES ASSUME k + 1 <= N PROVE walk[k + 1] = W[k + 1]
    OBVIOUS
  <2>1. k + 1 \in 0 .. N /\ k \in 0 .. N /\ k + 1 # 0 /\ k + 1 - 1 = k
    BY <1>1
  <2>2. walk[k] = W[k]
    BY <1>9, <2>1
  <2>3. walk[k + 1] = Body(walk, k + 1)
    BY <1>7, <2>1
  <2>4. W[k + 1] = Body(W, k + 1)
    BY <1>5, <2>1
  <2> HIDE DEF W
  <2> QED
    BY <2>1, <2>2, <2>3, <2>4
<1> HIDE DEF S
<1>10. \A k \in 0 .. N : walk[k] = W[k]
  <2>1. Nat \subseteq S
    BY <1>8, <1>9, SetInduction
  <2> HIDE DEF W
  <2> QED
    BY <2>1, <1>1 DEF S
<1>11. \A k \in 1 .. N : walk[k] = IF k <= n THEN s[k] ELSE Null
  <2> SUFFICES ASSUME NEW k \in 1 .. N PROVE walk[k] = IF k <= n THEN s[k] ELSE Null
    OBVIOUS
  <2>1. k \in 0 .. N /\ k # 0
    BY <1>1
  <2>2. walk[k] = W[k]
    BY <1>10, <2>1
  <2>3. W[k] = IF k <= n THEN s[k] ELSE Null
    BY <2>1 DEF NodeOf
  <2> QED
    BY <2>2, <2>3
<1>12. Cardinality(reached) = n
  <2>1. \A k \in 1 .. n : s[k] # Null /\ k \in 1 .. N
    <3> SUFFICES ASSUME NEW k \in 1 .. n PROVE s[k] # Null /\ k \in 1 .. N
      OBVIOUS
    <3>1. k \in 0 .. n /\ k # 0 /\ k \in 1 .. N
      BY <1>1
    <3> QED
      BY <1>2, <3>1 DEF NodeOf
  <2>2. \A k \in 1 .. N : walk[k] # Null <=> k <= n
    BY <1>11, <2>1, <1>1
  <2> HIDE DEF W
  <2>3. reached = 1 .. n
    BY <2>2, <1>1
  <2> HIDE DEF reached
  <2>4. Cardinality(1 .. n) = IF 1 > n THEN 0 ELSE n - 1 + 1
    BY <1>1, FS_Interval
  <2> QED
    BY <2>3, <2>4, <1>1
<1>13. \A k \in 1 .. n : walk[k] = s[k]
  BY <1>1, <1>11
<1> HIDE DEF reached
<1>14. Order(e) = s
  BY <1>3, <1>4, <1>12, <1>13
<1>15. DOMAIN s = 1 .. Len(s)
  BY <1>1
<1> QED
  BY <1>14, <1>15 DEF InRing, ToSet

-----------------------------------------------------------------------------
(* Going back.                                                             *)

Members(s) == {s[i] : i \in 1 .. Len(s)}

(* teco_undo_ring_reinsert_action() inserts at a place that depends only   *)
(* on the entry's pointer to the next one.                                 *)
LEMMA ReinsertInserts ==
  ASSUME NEW s \in Seq(Entries), Distinct(s), NEW k \in 1 .. Len(s),
         NEW m \in Links, IsList(m, RemoveAt(s, k)), m.next[s[k]] = NextOf(s, k)
  PROVE  IsList(Reinsert(m, s[k]), s) /\ Reinsert(m, s[k]) \in Links
<1> DEFINE t == RemoveAt(s, k)
           n == Len(s)
<1>1. /\ t \in Seq(Entries) /\ Len(t) = n - 1 /\ n \in Nat /\ k \in 1..n
      /\ \A i \in 1..(n - 1) : t[i] = IF i < k THEN s[i] ELSE s[i + 1]
  <2>1. n \in Nat /\ k \in 1 .. n
    OBVIOUS
  <2> QED
    BY <2>1, RemoveAtProps
<1>3. s[k] \in Entries /\ \A i \in 1..n : s[i] \in Entries
  BY ElementOfSeq
<1> HIDE DEF t
<1>4. CASE k = n
  <2>1. Reinsert(m, s[k]) = InsertTail(m, s[k])
    BY <1>4 DEF Reinsert, NextOf
  <2>2. \A i \in 1..Len(t) : t[i] # s[k]
    BY <1>1, <1>3, <1>4 DEF Distinct
  <2>3. IsList(InsertTail(m, s[k]), Append(t, s[k])) /\ InsertTail(m, s[k]) \in Links
    BY <1>1, <1>3, <2>2, InsertTailAppends DEF t
  <2>4. Append(t, s[k]) = s
    <3>1. /\ Append(t, s[k]) \in Seq(Entries) /\ Len(Append(t, s[k])) = n
          /\ \A i \in 1..n : Append(t, s[k])[i] = s[i]
      BY <1>1, <1>3, <1>4, AppendProperties
    <3> QED  BY <3>1, SeqEqual
  <2> QED  BY <2>1, <2>3, <2>4
<1>5. CASE k < n
  <2>1. k \in 1..(n - 1) /\ NextOf(s, k) = s[k + 1] /\ t[k] = s[k + 1] /\ s[k + 1] # Null
    BY <1>1, <1>3, <1>5, TailqAssumption DEF NextOf
  <2>2. Reinsert(m, s[k]) = InsertBefore(m, t[k], s[k])
    BY <2>1 DEF Reinsert
  <2>3. IsList(InsertBefore(m, t[k], s[k]), s) /\ InsertBefore(m, t[k], s[k]) \in Links
    <3>1. k \in 1..Len(t) /\ Len(s) = Len(t) + 1
      BY <1>1, <2>1
    <3>2. IsList(m, t) /\ t = RemoveAt(s, k)
      BY DEF t
    <3> QED  BY <1>1, <1>3, <3>1, <3>2, InsertBeforeInserts
  <2> QED  BY <2>2, <2>3
<1> QED
  BY <1>1, <1>4, <1>5

(* An operation on a tail queue leaves the pointers to the next entry      *)
(* alone of all entries that are not in it.                                *)
LEMMA OthersStay ==
  ASSUME NEW l \in Links, NEW s, IsList(l, s), NEW x \in Entries, x \notin Members(s)
  PROVE  /\ \A b \in Entries : b # x => InsertTail(l, b).next[x] = l.next[x]
         /\ \A b \in Entries : b # x /\ l.next[b] \in Members(s) \cup {Null} => Reinsert(l, b).next[x] = l.next[x]
         /\ \A k \in 1 .. Len(s) : RemoveEntry(l, s[k]).next[x] = l.next[x]
<1>1. s \in Seq(Entries) /\ Len(s) \in Nat
  BY DEF IsList
<1>2. \A i \in 0 .. Len(s) : NodeOf(s, i) # x
  BY <1>1, TailqAssumption DEF NodeOf, Members
<1>3. Len(s) \in 0 .. Len(s) /\ l.prev[Root] # x
  BY <1>1, <1>2 DEF IsList
<1>4. \A k \in 1 .. Len(s) : k - 1 \in 0 .. Len(s) /\ l.prev[s[k]] = NodeOf(s, k - 1)
  BY <1>1 DEF IsList
<1>5. \A k \in 1 .. Len(s) : l.prev[s[k]] # x
  BY <1>2, <1>4
<1>6. x \in Nodes /\ l.next \in [Nodes -> Nodes \cup {Null}]
  BY DEF Nodes, Links
<1>7. \A b \in Entries : b # x => InsertTail(l, b).next[x] = l.next[x]
  BY <1>3, <1>6 DEF InsertTail
<1>8. \A a \in Members(s), b \in Entries : b # x => InsertBefore(l, a, b).next[x] = l.next[x]
  BY <1>5, <1>6 DEF InsertBefore, Members
<1>9. \A k \in 1 .. Len(s) : RemoveEntry(l, s[k]).next[x] = l.next[x]
  BY <1>5, <1>6 DEF RemoveEntry
<1>10. ASSUME NEW b \in Entries, b # x, l.next[b] \in Members(s) \cup {Null}
       PROVE  Reinsert(l, b).next[x] = l.next[x]
  <2>1. CASE l.next[b] = Null
    BY <1>7, <1>10, <2>1 DEF Reinsert
  <2>2. CASE l.next[b] # Null
    BY <1>8, <1>10, <2>2 DEF Reinsert
  <2> QED
    BY <2>1, <2>2
<1> QED
  BY <1>7, <1>9, <1>10

(* What the ring looks like: its order, which buffers are allocated, which *)
(* one is edited and shown.                                                *)
Looks == [seq : Seq(Entries), live : [Entries -> BOOLEAN], current : Entries, register : BOOLEAN,
          view : Entries \cup {"register"}]
Look(e, s) ==
  [seq |-> s, live |-> e.live, current |-> e.current, register |-> e.register, view |-> e.view]
IsLook(A) == A \in Looks /\ Distinct(A.seq)
LooksLike(e, A) ==
  /\ e.links \in Links /\ IsList(e.links, A.seq) /\ ~e.dangling
  /\ e.live = A.live /\ e.current = A.current /\ e.register = A.register /\ e.view = A.view

(* A token leads back from what the ring looks like, B, to what it looked  *)
(* like before, A; a buffer that is to be reinserted knows its place.      *)
PlainKinds == {"dirty", "name", "undo", "restore", "unlink"}
OneLess(s, b, r) == \E k \in 1 .. Len(s) : s[k] = b /\ r = RemoveAt(s, k)
PlaceOf(s, b, r, p) == \E k \in 1 .. Len(s) : s[k] = b /\ r = RemoveAt(s, k) /\ p = NextOf(s, k)
LeadsBack(t, B, A, next) ==
  \/ t.kind = "register" /\ A = [B EXCEPT !.register = t.old]
  \/ t.kind = "current" /\ A = [B EXCEPT !.current = t.old]
  \/ t.kind = "show" /\ A = [B EXCEPT !.view = t.buffer] /\ (t.buffer # "register" => B.live[t.buffer])
  \/ t.kind = "free" /\ A = [B EXCEPT !.live = [@ EXCEPT ![t.buffer] = FALSE]] /\ B.live[t.buffer]
  \/ t.kind = "remove" /\ A = [B EXCEPT !.seq = A.seq] /\ OneLess(B.seq, t.buffer, A.seq)
  \/ t.kind = "reinsert" /\ A = [B EXCEPT !.seq = A.seq] /\ PlaceOf(A.seq, t.buffer, B.seq, next[t.buffer])
  \/ t.kind \in PlainKinds /\ A = B /\ (t.kind = "undo" => B.view # "register")

(* A buffer of a ring, and what is left of it without that.                *)
LEMMA WithoutOne ==
  ASSUME NEW s \in Seq(Entries), Distinct(s), NEW k \in 1 .. Len(s)
  PROVE  /\ RemoveAt(s, k) \in Seq(Entries) /\ Distinct(RemoveAt(s, k))
         /\ Members(RemoveAt(s, k)) = Members(s) \ {s[k]} /\ s[k] \in Members(s) /\ s[k] \in Entries
         /\ NextOf(s, k) \in Members(RemoveAt(s, k)) \cup {Null}
<1> DEFINE t == RemoveAt(s, k)
           n == Len(s)
<1>1. n \in Nat /\ k \in 1 .. n
  OBVIOUS
<1>2. /\ t \in Seq(Entries) /\ Len(t) = n - 1
      /\ \A i \in 1..(n - 1) : t[i] = IF i < k THEN s[i] ELSE s[i + 1]
  BY <1>1, RemoveAtProps
<1>3. \A i \in 1 .. n : s[i] \in Entries
  BY ElementOfSeq
<1>4. \A i, j \in 1 .. n : s[i] = s[j] => i = j
  BY DEF Distinct
<1> HIDE DEF t, n
<1>5. Distinct(t)
  <2> SUFFICES ASSUME NEW i \in 1 .. (n - 1), NEW j \in 1 .. (n - 1), t[i] = t[j] PROVE i = j
    BY <1>2 DEF Distinct
  <2> DEFINE o(x) == IF x < k THEN x ELSE x + 1
  <2>1. o(i) \in 1 .. n /\ o(j) \in 1 .. n /\ t[i] = s[o(i)] /\ t[j] = s[o(j)]
    BY <1>1, <1>2
  <2>2. o(i) = o(j)
    BY <1>4, <2>1
  <2> QED
    BY <1>1, <2>2
<1>6. \A i \in 1 .. (n - 1) : t[i] \in Members(s) \ {s[k]}
  <2> SUFFICES ASSUME NEW i \in 1 .. (n - 1) PROVE t[i] \in Members(s) \ {s[k]}
    OBVIOUS
  <2> DEFINE j == IF i < k THEN i ELSE i + 1
  <2>1. j \in 1 .. n /\ j # k /\ t[i] = s[j]
    BY <1>1, <1>2
  <2> HIDE DEF j
  <2> QED
    BY <1>1, <1>4, <2>1 DEF Members, n
<1>7. \A j \in 1 .. n : j # k => s[j] \in Members(t)
  <2> SUFFICES ASSUME NEW j \in 1 .. n, j # k PROVE s[j] \in Members(t)
    OBVIOUS
  <2> DEFINE i == IF j < k THEN j ELSE j - 1
  <2>1. i \in 1 .. (n - 1) /\ t[i] = s[j]
    BY <1>1, <1>2
  <2> HIDE DEF i
  <2> QED
    BY <1>2, <2>1 DEF Members
<1>8. Members(t) = Members(s) \ {s[k]}
  BY <1>2, <1>6, <1>7 DEF Members, n
<1>9. NextOf(s, k) \in Members(t) \cup {Null}
  <2>1. CASE k = n
    BY <2>1 DEF NextOf, n
  <2>2. CASE k # n
    <3>1. k + 1 \in 1 .. n /\ k + 1 # k
      BY <1>1, <2>2
    <3>2. NextOf(s, k) = s[k + 1]
      BY <2>2 DEF NextOf, n
    <3> QED
      BY <1>7, <3>1, <3>2
  <2> QED
    BY <2>1, <2>2
<1>10. s[k] \in Members(s) /\ s[k] \in Entries
  BY <1>1, <1>3 DEF Members, n
<1> QED
  BY <1>2, <1>5, <1>8, <1>9, <1>10 DEF t

(* Running a token does lead back, and it leaves the places alone of all   *)
(* buffers that are not in the ring, neither before nor after that.        *)
LEMMA TokenLeadsBack ==
  ASSUME NEW f, DOMAIN f = Fields, NEW t, t.kind \in Kinds, NEW A, IsLook(A), NEW B, IsLook(B),
         LooksLike(f, B), LeadsBack(t, B, A, f.links.next)
  PROVE  /\ LooksLike(RunToken(f, t), A)
         /\ \A x \in Entries : x \notin Members(B.seq) /\ x \notin Members(A.seq) =>
              RunToken(f, t).links.next[x] = f.links.next[x]
<1> DEFINE g == RunToken(f, t)
<1>0. A.seq \in Seq(Entries) /\ B.seq \in Seq(Entries) /\ Distinct(A.seq) /\ Distinct(B.seq)
  BY DEF IsLook, Looks
<1>1. CASE t.kind = "register" /\ A = [B EXCEPT !.register = t.old]
  <2>1. g = [f EXCEPT !.register = t.old]
    BY <1>1 DEF RunToken
  <2> HIDE DEF g
  <2> QED
    BY <1>1, <2>1 DEF LooksLike, IsLook, Looks, Fields, g
<1>2. CASE t.kind = "current" /\ A = [B EXCEPT !.current = t.old]
  <2>1. g = [f EXCEPT !.current = t.old]
    BY <1>2 DEF RunToken
  <2> HIDE DEF g
  <2> QED
    BY <1>2, <2>1 DEF LooksLike, IsLook, Looks, Fields, g
<1>3. CASE t.kind = "show" /\ A = [B EXCEPT !.view = t.buffer] /\ (t.buffer # "register" => B.live[t.buffer])
  <2>1. g = [f EXCEPT !.view = t.buffer, !.dangling = @ \/ (t.buffer # "register" /\ ~f.live[t.buffer])]
    BY <1>3 DEF RunToken, ShowView
  <2>2. ~g.dangling
    BY <1>3, <2>1 DEF LooksLike, Fields
  <2> HIDE DEF g
  <2> QED
    BY <1>3, <2>1, <2>2 DEF LooksLike, IsLook, Looks, Fields, g
<1>4. CASE t.kind = "free" /\ A = [B EXCEPT !.live = [@ EXCEPT ![t.buffer] = FALSE]] /\ B.live[t.buffer]
  <2>1. g = [f EXCEPT !.live[t.buffer] = FALSE, !.dangling = @ \/ ~f.live[t.buffer]]
    BY <1>4 DEF RunToken, FreeBuffer
  <2>2. ~g.dangling
    BY <1>4, <2>1 DEF LooksLike, Fields
  <2> HIDE DEF g
  <2> QED
    BY <1>4, <2>1, <2>2 DEF LooksLike, IsLook, Looks, Fields, g
<1>5. CASE t.kind = "remove" /\ A = [B EXCEPT !.seq = A.seq] /\ OneLess(B.seq, t.buffer, A.seq)
  <2>1. PICK k \in 1 .. Len(B.seq) : B.seq[k] = t.buffer /\ A.seq = RemoveAt(B.seq, k)
    BY <1>5 DEF OneLess
  <2> DEFINE m == RemoveEntry(f.links, t.buffer)
  <2>2. g = [f EXCEPT !.links = m]
    BY <1>5 DEF RunToken, RemoveBuffer
  <2>3. m \in Links /\ IsList(m, A.seq)
    BY <1>0, <2>1, RemoveEntryRemoves DEF LooksLike
  <2>4. \A x \in Entries : x \notin Members(B.seq) => m.next[x] = f.links.next[x]
    BY <2>1, OthersStay DEF LooksLike
  <2> HIDE DEF g, m
  <2>5. g.links = m /\ ~g.dangling /\ g.live = f.live /\ g.current = f.current /\ g.register = f.register /\ g.view = f.view
    BY <2>2 DEF LooksLike, Fields
  <2>6. A.live = B.live /\ A.current = B.current /\ A.register = B.register /\ A.view = B.view
    BY <1>5 DEF IsLook, Looks
  <2> QED
    BY <2>3, <2>4, <2>5, <2>6 DEF LooksLike, g
<1>6. CASE t.kind = "reinsert" /\ A = [B EXCEPT !.seq = A.seq] /\ PlaceOf(A.seq, t.buffer, B.seq, f.links.next[t.buffer])
  <2>1. PICK k \in 1 .. Len(A.seq) :
           A.seq[k] = t.buffer /\ B.seq = RemoveAt(A.seq, k) /\ f.links.next[t.buffer] = NextOf(A.seq, k)
    BY <1>6 DEF PlaceOf
  <2> DEFINE m == Reinsert(f.links, t.buffer)
  <2>2. g = [f EXCEPT !.links = m]
    BY <1>6 DEF RunToken
  <2>3. m \in Links /\ IsList(m, A.seq)
    BY <1>0, <2>1, ReinsertInserts DEF LooksLike
  <2>4. t.buffer \in Entries /\ t.buffer \in Members(A.seq) /\ NextOf(A.seq, k) \in Members(B.seq) \cup {Null}
    BY <1>0, <2>1, WithoutOne
  <2>5. \A x \in Entries : x \notin Members(B.seq) /\ x # t.buffer => m.next[x] = f.links.next[x]
    BY <2>1, <2>4, OthersStay DEF LooksLike
  <2> HIDE DEF g, m
  <2>6. g.links = m /\ ~g.dangling /\ g.live = f.live /\ g.current = f.current /\ g.register = f.register /\ g.view = f.view
    BY <2>2 DEF LooksLike, Fields
  <2>7. A.live = B.live /\ A.current = B.current /\ A.register = B.register /\ A.view = B.view
    BY <1>6 DEF IsLook, Looks
  <2> QED
    BY <2>3, <2>4, <2>5, <2>6, <2>7 DEF LooksLike, g
<1>7. CASE t.kind \in PlainKinds /\ A = B /\ (t.kind = "undo" => B.view # "register")
  <2>1. /\ g.links = f.links /\ g.dangling = f.dangling /\ g.live = f.live /\ g.current = f.current
        /\ g.register = f.register /\ g.view = f.view
    <3>1. CASE t.kind \in {"dirty", "name"}
      BY <3>1 DEF RunToken, Fields
    <3>2. CASE t.kind = "undo"
      <4>1. f.view # "register"
        BY <1>7, <3>2 DEF LooksLike
      <4>2. g = SciUndo(f)
        BY <3>2 DEF RunToken
      <4>3. g \in {[f EXCEPT !.text[f.view] = Last(f.past[f.view]), !.past[f.view] = Front(@)], f}
        BY <4>1, <4>2 DEF SciUndo
      <4> HIDE DEF g
      <4> QED
        BY <4>3 DEF Fields
    <3>3. CASE t.kind \in {"restore", "unlink"}
      BY <3>3 DEF RunToken, RestorePoint, Fields
    <3> QED
      BY <1>7, <3>1, <3>2, <3>3 DEF PlainKinds
  <2> HIDE DEF g
  <2> QED
    BY <1>7, <2>1 DEF LooksLike, g
<1> QED
  BY <1>1, <1>2, <1>3, <1>4, <1>5, <1>6, <1>7 DEF LeadsBack

(* Rubout runs one token after the other.                                  *)
LEMMA RubbedOneByOne ==
  ASSUME NEW e, Base(e), \A i \in 1 .. Len(e.tokens) : e.tokens[i].kind \in Kinds,
         NEW n \in 1 .. (Len(e.tokens) + 1)
  PROVE  \E h : /\ h[0] = e /\ RunTokens(e, n) = h[Len(e.tokens) + 1 - n]
                /\ \A k \in 0 .. (Len(e.tokens) - n) : h[k + 1] = Popped(h[k])
<1> DEFINE N == Len(e.tokens)
           s == SubSeq(e.tokens, n, N)
           m == Len(s)
           Left(f, k) == /\ DOMAIN f = Fields /\ IsSequence(f.tokens) /\ Len(f.tokens) = N - k
                         /\ \A i \in 1 .. (N - k) : f.tokens[i] = e.tokens[i]
<1>1. PICK T : e.tokens \in Seq(T)
  BY DEF Base, IsSequence
<1>2. /\ s \in Seq(T) /\ N \in Nat /\ m \in Nat /\ DOMAIN s = 1 .. m /\ m = N - n + 1
      /\ \A i \in 1 .. m : s[i] = e.tokens[n + i - 1] /\ N - (m - i) = n + i - 1
  <2>1. N \in Nat /\ n \in 1 .. (N + 1)
    BY <1>1
  <2>2. \A i \in n .. N : e.tokens[i] \in T
    BY <1>1
  <2>3. /\ s \in Seq(T) /\ m = (IF n <= N THEN N - n + 1 ELSE 0)
        /\ \A i \in 1 .. (N - n + 1) : s[i] = e.tokens[n + i - 1]
    <3> HIDE DEF N
    <3> QED
      BY <2>1, <2>2, SubSeqProperties
  <2> HIDE DEF s, N
  <2>4. m \in Nat /\ DOMAIN s = 1 .. m
    BY <2>3
  <2> HIDE DEF m
  <2> QED
    BY <2>1, <2>3, <2>4
<1>3. PICK it : /\ Rolls(TRUE, it, s, e)
                /\ FoldRight(LAMBDA t, f : RunToken([f EXCEPT !.tokens = Front(@)], t), s, e) = it[DOMAIN s]
  BY <1>2, FoldRuns
<1>4. RunTokens(e, n) = it[1 .. m]
  BY <1>2, <1>3 DEF RunTokens
<1> HIDE DEF s, m, N
<1> DEFINE h == [k \in 0 .. m |-> it[(m - k + 1) .. m]]
<1>5. h[0] = e /\ RunTokens(e, n) = h[m]
  <2>1. (m - 0 + 1) .. m = {} /\ m - m + 1 = 1 /\ 0 \in 0 .. m /\ m \in 0 .. m
    BY <1>2
  <2>2. it[{}] = e
    BY <1>3 DEF Rolls
  <2>3. h[0] = it[(m - 0 + 1) .. m] /\ h[m] = it[(m - m + 1) .. m]
    BY <2>1
  <2> HIDE DEF h
  <2> QED
    BY <1>4, <2>1, <2>2, <2>3
<1>6. ASSUME NEW k \in 0 .. (m - 1), Left(h[k], k)
      PROVE  Left(h[k + 1], k + 1) /\ h[k + 1] = Popped(h[k])
  <2> DEFINE a == m - k
             I == a .. m
             f == h[k]
  <2>1. a \in 1 .. m /\ a \in Nat /\ a <= m /\ m - (k + 1) + 1 = a /\ m - k + 1 = a + 1 /\ k \in 0 .. m /\ k + 1 \in 0 .. m
    BY <1>2
  <2>2. h[k] = it[(a + 1) .. m] /\ h[k + 1] = it[I]
    BY <2>1
  <2> HIDE DEF a, h
  <2>3. Min(I) = a /\ I \ {a} = (a + 1) .. m /\ I # {}
    BY <1>2, <2>1, LeastOfInterval, Zenon
  <2>4. I \subseteq 1 .. m
    BY <1>2, <2>1
  <2> HIDE DEF I
  <2>5. it[I] = Roll(TRUE, it[I \ {Min(I)}], s[Min(I)])
    BY <1>2, <1>3, <2>3, <2>4 DEF Rolls
  <2>6. h[k + 1] = Roll(TRUE, f, s[a])
    BY <2>2, <2>3, <2>5
  <2>7. s[a] = e.tokens[n + a - 1] /\ N - k = n + a - 1 /\ N - k \in 1 .. (N - k) /\ N - k > 0 /\ N - k \in 1 .. N
    BY <1>2, <2>1 DEF a
  <2>8. s[a] = f.tokens[N - k] /\ Len(f.tokens) = N - k /\ s[a].kind \in Kinds
    BY <1>6, <2>7 DEF N
  <2>9. f.tokens # <<>> /\ DOMAIN f = Fields
    BY <1>6, <2>7, <2>8
  <2>10. /\ IsSequence(Front(f.tokens)) /\ Len(Front(f.tokens)) = N - k - 1 /\ Last(f.tokens) = f.tokens[N - k]
         /\ \A i \in 1 .. (N - k - 1) : Front(f.tokens)[i] = f.tokens[i]
    BY <1>6, <2>8, <2>9, FrontSequence
  <2>11. h[k + 1] = Popped(f)
    BY <2>6, <2>8, <2>10 DEF Roll, Popped
  <2> DEFINE p == [f EXCEPT !.tokens = Front(@)]
  <2>12. DOMAIN p = Fields /\ p.tokens = Front(f.tokens)
    BY <2>9 DEF Fields
  <2> HIDE DEF p, f
  <2>13. Popped(f) = RunToken(p, s[a])
    BY <2>8, <2>10 DEF Popped, p
  <2>14. DOMAIN Popped(f) = Fields /\ Popped(f).tokens = Front(f.tokens)
    <3>1. DOMAIN RunToken(p, s[a]) = Fields /\ RunToken(p, s[a]).tokens = p.tokens
      BY <2>8, <2>12, RunTokenFields
    <3> QED
      BY <2>12, <2>13, <3>1
  <2>15. N - k - 1 = N - (k + 1) /\ 1 .. (N - (k + 1)) \subseteq 1 .. (N - k)
    BY <1>2
  <2>16. Left(Popped(f), k + 1)
    BY <1>6, <2>10, <2>14, <2>15 DEF f
  <2> QED
    BY <2>11, <2>16 DEF f
<1> DEFINE S == {k \in Nat : k <= m => Left(h[k], k)}
<1>7. 0 \in S
  <2> HIDE DEF h
  <2> QED
    BY <1>2, <1>5 DEF Base, N
<1>8. ASSUME NEW k \in Nat, k \in S PROVE k + 1 \in S
  <2> HIDE DEF Left, h
  <2> SUFFICES ASSUME k + 1 <= m PROVE Left(h[k + 1], k + 1)
    OBVIOUS
  <2>1. k \in 0 .. (m - 1) /\ k <= m
    BY <1>2
  <2> QED
    BY <1>6, <1>8, <2>1
<1> HIDE DEF S, Left, h
<1>9. \A k \in 0 .. (m - 1) : h[k + 1] = Popped(h[k])
  <2>1. Nat \subseteq S
    BY <1>7, <1>8, SetInduction
  <2> QED
    BY <1>2, <1>6, <2>1 DEF S
<1>10. m - 1 = N - n /\ m = N + 1 - n
  BY <1>2
<1> QED
  BY <1>5, <1>9, <1>10 DEF N

-----------------------------------------------------------------------------
(* The way back.                                                           *)

(* What the ring looked like after so many tokens.                         *)
Trail(tk, a, next) ==
  /\ \A k \in 0 .. Len(tk) : IsLook(a[k])
  /\ \A k \in 1 .. Len(tk) : tk[k].kind \in Kinds /\ LeadsBack(tk[k], a[k], a[k - 1], next)
  /\ \A j, k \in 1 .. Len(tk) : j <= k /\ tk[j].kind = "reinsert" => tk[j].buffer \notin Members(a[k].seq)

(* Only the places matter of buffers that are to be reinserted.            *)
KeptIn(tk, n) == {tk[j].buffer : j \in {i \in 1 .. n : tk[i].kind = "reinsert"}}
KeptBy(tk) == KeptIn(tk, Len(tk))

LEMMA SameTrail ==
  ASSUME NEW tk, NEW a, NEW next, Trail(tk, a, next), Len(tk) \in Nat,
         NEW uk, Len(uk) \in 0 .. Len(tk), \A k \in 1 .. Len(uk) : uk[k] = tk[k],
         NEW follow, \A b \in KeptBy(uk) : follow[b] = next[b]
  PROVE  Trail(uk, a, follow)
<1>1. \A k \in 1 .. Len(uk) : k \in 1 .. Len(tk) /\ uk[k] = tk[k]
  OBVIOUS
<1>2. \A k \in 0 .. Len(uk) : k \in 0 .. Len(tk)
  OBVIOUS
<1>3. ASSUME NEW k \in 1 .. Len(uk) PROVE LeadsBack(uk[k], a[k], a[k - 1], follow)
  <2>1. LeadsBack(uk[k], a[k], a[k - 1], next)
    BY <1>1 DEF Trail
  <2>2. uk[k].kind = "reinsert" => follow[uk[k].buffer] = next[uk[k].buffer]
    BY DEF KeptBy, KeptIn
  <2> QED
    BY <2>1, <2>2 DEF LeadsBack
<1>4. \A k \in 0 .. Len(uk) : IsLook(a[k])
  BY <1>2 DEF Trail
<1>5. \A k \in 1 .. Len(uk) : uk[k].kind \in Kinds
  BY <1>1 DEF Trail
<1>6. \A j, k \in 1 .. Len(uk) : j <= k /\ uk[j].kind = "reinsert" => uk[j].buffer \notin Members(a[k].seq)
  BY <1>1 DEF Trail
<1> QED
  BY <1>3, <1>4, <1>5, <1>6 DEF Trail

(* What is kept is not in the ring, but its place is known.                *)
LEMMA KeptIsOut ==
  ASSUME NEW tk, NEW a, NEW next, Trail(tk, a, next), Len(tk) \in Nat, NEW k \in 0 .. Len(tk)
  PROVE  \A j \in 1 .. k : tk[j].kind = "reinsert" =>
           /\ tk[j].buffer \in Entries /\ tk[j].buffer \notin Members(a[k].seq)
<1> SUFFICES ASSUME NEW j \in 1 .. k, tk[j].kind = "reinsert"
             PROVE  tk[j].buffer \in Entries /\ tk[j].buffer \notin Members(a[k].seq)
  OBVIOUS
<1>1. j \in 1 .. Len(tk) /\ k \in 1 .. Len(tk) /\ j <= k /\ j - 1 \in 0 .. Len(tk)
  OBVIOUS
<1>2. PlaceOf(a[j - 1].seq, tk[j].buffer, a[j].seq, next[tk[j].buffer]) /\ IsLook(a[j - 1])
  BY <1>1 DEF Trail, LeadsBack, PlainKinds
<1>3. tk[j].buffer \in Entries
  BY <1>2, WithoutOne DEF PlaceOf, IsLook, Looks
<1> QED
  BY <1>1, <1>3 DEF Trail

(* One token is run: the way back has become shorter.                      *)
LEMMA PoppedLooks ==
  ASSUME NEW f, Base(f), f.tokens # <<>>, NEW a, Trail(f.tokens, a, f.links.next),
         LooksLike(f, a[Len(f.tokens)])
  PROVE  /\ Base(Popped(f)) /\ Popped(f).undo = f.undo /\ Popped(f).tokens = Front(f.tokens)
         /\ Trail(Popped(f).tokens, a, Popped(f).links.next)
         /\ LooksLike(Popped(f), a[Len(Popped(f).tokens)])
<1> DEFINE p == [f EXCEPT !.tokens = Front(@)]
           n == Len(f.tokens)
           t == Last(f.tokens)
           g == Popped(f)
           u == Front(f.tokens)
<1>1. /\ IsSequence(u) /\ Len(u) = n - 1 /\ n \in Nat \ {0} /\ t = f.tokens[n]
      /\ \A i \in 1 .. (n - 1) : u[i] = f.tokens[i]
  BY FrontSequence DEF Base
<1> HIDE DEF u
<1>2. p = [f EXCEPT !.tokens = u]
  BY DEF u
<1> HIDE DEF p
<1>3. /\ DOMAIN p = Fields /\ p.tokens = u /\ p.links = f.links /\ p.live = f.live /\ p.current = f.current
      /\ p.register = f.register /\ p.view = f.view /\ p.dangling = f.dangling /\ p.undo = f.undo
  BY <1>2 DEF Base, Fields
<1>4. g = RunToken(p, t)
  BY DEF Popped, p
<1> HIDE DEF g, t
<1>5. t.kind \in Kinds /\ IsLook(a[n]) /\ IsLook(a[n - 1]) /\ LeadsBack(t, a[n], a[n - 1], p.links.next)
  BY <1>1, <1>3 DEF Trail
<1>6. LooksLike(p, a[n])
  BY <1>3 DEF LooksLike
<1>7. /\ LooksLike(g, a[n - 1])
      /\ \A x \in Entries : x \notin Members(a[n].seq) /\ x \notin Members(a[n - 1].seq) => g.links.next[x] = f.links.next[x]
  BY <1>3, <1>4, <1>5, <1>6, TokenLeadsBack
<1>8. DOMAIN g = Fields /\ g.tokens = u /\ g.undo = f.undo
  <2>1. DOMAIN RunToken(p, t) = Fields /\ RunToken(p, t).tokens = p.tokens /\ RunToken(p, t).undo = p.undo
    BY <1>3, <1>5, RunTokenFields
  <2> QED
    BY <1>3, <1>4, <2>1
<1>9. \A b \in KeptBy(u) : g.links.next[b] = f.links.next[b]
  <2> SUFFICES ASSUME NEW j \in 1 .. (n - 1), f.tokens[j].kind = "reinsert"
               PROVE  g.links.next[f.tokens[j].buffer] = f.links.next[f.tokens[j].buffer]
    BY <1>1 DEF KeptBy, KeptIn
  <2>1. n \in 0 .. n /\ n - 1 \in 0 .. n /\ j \in 1 .. n
    BY <1>1
  <2>2. /\ f.tokens[j].buffer \in Entries /\ f.tokens[j].buffer \notin Members(a[n].seq)
        /\ f.tokens[j].buffer \notin Members(a[n - 1].seq)
    BY <1>1, <2>1, KeptIsOut
  <2> QED
    BY <1>7, <2>2
<1>10. Trail(u, a, g.links.next)
  <2>1. Len(u) \in 0 .. Len(f.tokens) /\ Len(f.tokens) \in Nat /\ \A i \in 1 .. Len(u) : u[i] = f.tokens[i]
    BY <1>1
  <2> QED
    BY <1>9, <2>1, SameTrail
<1> QED
  BY <1>1, <1>7, <1>8, <1>10 DEF Base, g, u

(* Rubout goes all the way back.                                           *)
LEMMA RubbedLooks ==
  ASSUME NEW e, Base(e), NEW a, Trail(e.tokens, a, e.links.next), LooksLike(e, a[Len(e.tokens)]),
         NEW n \in 0 .. Len(e.tokens)
  PROVE  LET g == RunTokens(e, n + 1) IN
           /\ Base(g) /\ g.undo = e.undo /\ LooksLike(g, a[n]) /\ Trail(g.tokens, a, g.links.next)
           /\ Len(g.tokens) = n /\ \A i \in 1 .. n : g.tokens[i] = e.tokens[i]
<1> DEFINE N == Len(e.tokens)
           Good(f, k) == /\ Base(f) /\ f.undo = e.undo /\ LooksLike(f, a[N - k]) /\ Trail(f.tokens, a, f.links.next)
                         /\ Len(f.tokens) = N - k /\ \A i \in 1 .. (N - k) : f.tokens[i] = e.tokens[i]
<1>1. N \in Nat /\ n + 1 \in 1 .. (N + 1) /\ N + 1 - (n + 1) = N - n /\ N - (n + 1) = N - n - 1
  <2>1. N \in Nat /\ n \in 0 .. N
    BY SequenceLength DEF Base
  <2> HIDE DEF N
  <2> QED
    BY <2>1
<1>2. PICK h : /\ h[0] = e /\ RunTokens(e, n + 1) = h[N - n]
               /\ \A k \in 0 .. (N - n - 1) : h[k + 1] = Popped(h[k])
  <2> DEFINE m == n + 1
  <2>1. \A i \in 1 .. N : e.tokens[i].kind \in Kinds
    BY DEF Trail
  <2>2. m \in 1 .. (N + 1) /\ N + 1 - m = N - n /\ N - m = N - n - 1
    BY <1>1
  <2> HIDE DEF m
  <2>3. \E h : /\ h[0] = e /\ RunTokens(e, m) = h[N + 1 - m]
               /\ \A k \in 0 .. (N - m) : h[k + 1] = Popped(h[k])
    BY <2>1, <2>2, RubbedOneByOne
  <2> HIDE DEF N
  <2>4. \E h : /\ h[0] = e /\ RunTokens(e, m) = h[N - n]
               /\ \A k \in 0 .. (N - n - 1) : h[k + 1] = Popped(h[k])
    BY <2>2, <2>3
  <2> QED
    BY <2>4 DEF m
<1> DEFINE S == {k \in Nat : k <= N - n => Good(h[k], k)}
<1>3. 0 \in S
  <2>1. N - 0 = N
    BY <1>1
  <2> QED
    BY <1>1, <1>2, <2>1
<1>4. ASSUME NEW k \in Nat, k \in S PROVE k + 1 \in S
  <2> HIDE DEF Good
  <2> SUFFICES ASSUME k + 1 <= N - n PROVE Good(h[k + 1], k + 1)
    OBVIOUS
  <2> DEFINE f == h[k]
  <2>1. k \in 0 .. (N - n - 1) /\ N - k - 1 = N - (k + 1) /\ N - k \in Nat \ {0} /\ k <= N - n
    BY <1>1
  <2>2. Good(f, k) /\ h[k + 1] = Popped(f)
    BY <1>2, <1>4, <2>1
  <2> HIDE DEF f
  <2>3. Base(f) /\ f.undo = e.undo /\ Len(f.tokens) = N - k /\ LooksLike(f, a[Len(f.tokens)]) /\ Trail(f.tokens, a, f.links.next)
    BY <2>2 DEF Good
  <2>4. f.tokens # <<>>
    BY <2>1, <2>3
  <2> DEFINE g == Popped(f)
  <2>5. /\ Base(g) /\ g.undo = f.undo /\ g.tokens = Front(f.tokens)
        /\ Trail(g.tokens, a, g.links.next) /\ LooksLike(g, a[Len(g.tokens)])
    BY <2>3, <2>4, PoppedLooks
  <2> HIDE DEF g
  <2>6. Len(g.tokens) = N - (k + 1) /\ \A i \in 1 .. (N - (k + 1)) : g.tokens[i] = f.tokens[i]
    <3>1. /\ Len(Front(f.tokens)) = Len(f.tokens) - 1
          /\ \A i \in 1 .. (Len(f.tokens) - 1) : Front(f.tokens)[i] = f.tokens[i]
      BY <2>3, <2>4, FrontSequence DEF Base
    <3> QED
      BY <2>1, <2>3, <2>5, <3>1
  <2>7. \A i \in 1 .. (N - (k + 1)) : i \in 1 .. (N - k)
    BY <1>1, <2>1
  <2>8. Good(g, k + 1)
    BY <2>2, <2>3, <2>5, <2>6, <2>7 DEF Good
  <2> QED
    BY <2>2, <2>8 DEF g
<1> HIDE DEF S
<1>5. Good(h[N - n], N - n)
  <2>1. Nat \subseteq S
    BY <1>3, <1>4, SetInduction
  <2>2. N - n \in Nat /\ N - n <= N - n
    <3>1. N \in Nat /\ n \in 0 .. N
      BY <1>1
    <3> HIDE DEF N
    <3> QED
      BY <3>1
  <2> HIDE DEF Good
  <2> QED
    BY <2>1, <2>2 DEF S
<1>6. N - (N - n) = n
  BY <1>1
<1> HIDE DEF N
<1> QED
  BY <1>2, <1>5, <1>6

(* What the ring looks like between the steps of the editor: the buffer    *)
(* that is edited is one of the ring, and the view shows it; the buffers   *)
(* that are allocated are those of the ring and those that are kept.       *)
RightLook(A, kept) ==
  /\ IsLook(A) /\ A.current \in Members(A.seq)
  /\ A.view = IF A.register THEN "register" ELSE A.current
  /\ \A b \in Entries : A.live[b] <=> b \in Members(A.seq) \cup kept

(* Where rubout stops, the ring looks like what the user saw.              *)
IsSeen(A, seen) ==
  /\ A.seq = seen[1] /\ A.current = seen[2].current
  /\ A.register = seen[2].register /\ A.view = seen[2].view
Stops(tk, a, h) ==
  /\ \A i \in 1 .. Len(h) : /\ h[i].tokens \in 0 .. Len(tk)
                            /\ RightLook(a[h[i].tokens], KeptIn(tk, h[i].tokens))
                            /\ IsSeen(a[h[i].tokens], h[i].seen)
  /\ \A i, j \in 1 .. Len(h) : i <= j => h[i].tokens <= h[j].tokens
HasTrail(tk, A, next, h) == \E a : Trail(tk, a, next) /\ a[Len(tk)] = A /\ Stops(tk, a, h)

(* The stops depend on the tokens before them.                             *)
LEMMA SameStops ==
  ASSUME NEW tk, NEW a, NEW h, Stops(tk, a, h), Len(tk) \in Nat,
         NEW uk, NEW c, Len(uk) \in Nat, Len(uk) >= Len(tk),
         \A k \in 1 .. Len(tk) : uk[k] = tk[k], \A k \in 0 .. Len(tk) : c[k] = a[k]
  PROVE  Stops(uk, c, h)
<1> SUFFICES ASSUME NEW i \in 1 .. Len(h)
             PROVE  /\ h[i].tokens \in 0 .. Len(uk) /\ RightLook(c[h[i].tokens], KeptIn(uk, h[i].tokens))
                    /\ IsSeen(c[h[i].tokens], h[i].seen)
  BY DEF Stops
<1> DEFINE n == h[i].tokens
<1>1. n \in 0 .. Len(tk) /\ RightLook(a[n], KeptIn(tk, n)) /\ IsSeen(a[n], h[i].seen)
  BY DEF Stops
<1> HIDE DEF n
<1>2. c[n] = a[n] /\ n \in 0 .. Len(uk)
  BY <1>1
<1>3. KeptIn(uk, n) = KeptIn(tk, n)
  <2>1. \A j \in 1 .. n : uk[j] = tk[j]
    BY <1>1
  <2> QED
    BY <2>1 DEF KeptIn
<1> QED
  BY <1>1, <1>2, <1>3 DEF n

(* A token is pushed: the way back has become longer.                      *)
LEMMA TrailGrows ==
  ASSUME NEW tk, IsSequence(tk), NEW A, NEW next, NEW h, HasTrail(tk, A, next, h), NEW B, IsLook(B),
         NEW t, t.kind \in Kinds, LeadsBack(t, B, A, next),
         \A b \in KeptBy(tk) : b \notin Members(B.seq), t.kind = "reinsert" => t.buffer \notin Members(B.seq)
  PROVE  HasTrail(Append(tk, t), B, next, h)
<1>1. PICK a : Trail(tk, a, next) /\ a[Len(tk)] = A /\ Stops(tk, a, h)
  BY DEF HasTrail
<1> DEFINE N == Len(tk)
           uk == Append(tk, t)
           c == [k \in 0 .. (N + 1) |-> IF k = N + 1 THEN B ELSE a[k]]
<1>2. /\ IsSequence(uk) /\ Len(uk) = N + 1 /\ N \in Nat /\ uk[N + 1] = t /\ \A i \in 1 .. N : uk[i] = tk[i]
  BY AppendSequence
<1>3. /\ c[N + 1] = B /\ \A k \in 0 .. N : c[k] = a[k]
  BY <1>2
<1> HIDE DEF uk, N, c
<1>4. \A k \in 0 .. (N + 1) : IsLook(c[k])
  <2> SUFFICES ASSUME NEW k \in 0 .. (N + 1) PROVE IsLook(c[k])
    OBVIOUS
  <2>1. CASE k \in 0 .. N
    BY <1>1, <1>3, <2>1 DEF Trail, N
  <2>2. CASE k = N + 1
    BY <1>3, <2>2
  <2> QED
    BY <1>2, <2>1, <2>2
<1>5. ASSUME NEW k \in 1 .. (N + 1) PROVE uk[k].kind \in Kinds /\ LeadsBack(uk[k], c[k], c[k - 1], next)
  <2>1. CASE k \in 1 .. N
    <3>1. k \in 0 .. N /\ k - 1 \in 0 .. N
      BY <1>2, <2>1
    <3>2. tk[k].kind \in Kinds /\ LeadsBack(tk[k], a[k], a[k - 1], next)
      BY <1>1, <2>1 DEF Trail, N
    <3> QED
      BY <1>2, <1>3, <2>1, <3>1, <3>2
  <2>2. CASE k = N + 1
    <3>1. N \in 0 .. N /\ k - 1 = N
      BY <1>2, <2>2
    <3>2. c[k - 1] = A
      BY <1>1, <1>3, <3>1 DEF N
    <3> QED
      BY <1>2, <1>3, <2>2, <3>2
  <2> QED
    BY <1>2, <2>1, <2>2
<1>6. ASSUME NEW j \in 1 .. (N + 1), NEW k \in 1 .. (N + 1), j <= k, uk[j].kind = "reinsert"
      PROVE  uk[j].buffer \notin Members(c[k].seq)
  <2>1. CASE k \in 1 .. N
    <3>1. j \in 1 .. N /\ k \in 0 .. N
      BY <1>2, <1>6, <2>1
    <3> QED
      BY <1>1, <1>2, <1>3, <1>6, <2>1, <3>1 DEF Trail, N
  <2>2. CASE k = N + 1 /\ j \in 1 .. N
    <3>1. tk[j].buffer \in KeptBy(tk) /\ uk[j] = tk[j]
      BY <1>2, <1>6, <2>2 DEF KeptBy, KeptIn, N
    <3> QED
      BY <1>3, <2>2, <3>1
  <2>3. CASE k = N + 1 /\ j = N + 1
    BY <1>2, <1>3, <1>6, <2>3
  <2> QED
    BY <1>2, <2>1, <2>2, <2>3
<1>7. Trail(uk, c, next)
  BY <1>2, <1>4, <1>5, <1>6 DEF Trail
<1>8. Stops(uk, c, h)
  <2>1. N \in Nat /\ Len(uk) \in Nat /\ Len(uk) >= N
    BY <1>2
  <2> QED
    BY <1>1, <1>2, <1>3, <2>1, SameStops DEF N
<1>9. HasTrail(uk, B, next, h)
  BY <1>2, <1>3, <1>7, <1>8 DEF HasTrail
<1> QED
  BY <1>9 DEF uk

(* Pointers may change of buffers that are not kept.                       *)
LEMMA TrailStays ==
  ASSUME NEW tk, IsSequence(tk), NEW A, NEW next, NEW h, HasTrail(tk, A, next, h),
         NEW follow, \A b \in KeptBy(tk) : follow[b] = next[b]
  PROVE  HasTrail(tk, A, follow, h)
<1>1. PICK a : Trail(tk, a, next) /\ a[Len(tk)] = A /\ Stops(tk, a, h)
  BY DEF HasTrail
<1>2. Len(tk) \in Nat /\ Len(tk) \in 0 .. Len(tk)
  <2>1. Len(tk) \in Nat
    BY SequenceLength
  <2> QED
    BY <2>1
<1>3. Trail(tk, a, follow)
  BY <1>1, <1>2, SameTrail
<1> QED
  BY <1>1, <1>3 DEF HasTrail

(* A command may stop here.                                                *)
LEMMA TrailStops ==
  ASSUME NEW tk, IsSequence(tk), NEW A, NEW next, NEW h, HasTrail(tk, A, next, h), IsSequence(h),
         RightLook(A, KeptBy(tk)), NEW seen, IsSeen(A, seen)
  PROVE  HasTrail(tk, A, next, Append(h, [tokens |-> Len(tk), seen |-> seen]))
<1> DEFINE N == Len(tk)
           x == [tokens |-> N, seen |-> seen]
           g == Append(h, x)
           n == Len(h)
<1>1. PICK a : Trail(tk, a, next) /\ a[Len(tk)] = A /\ Stops(tk, a, h)
  BY DEF HasTrail
<1>2. N \in Nat
  BY SequenceLength
<1>3. x.tokens = N /\ x.seen = seen
  OBVIOUS
<1> HIDE DEF x
<1>4. Len(g) = n + 1 /\ n \in Nat /\ g[n + 1] = x /\ \A i \in 1 .. n : g[i] = h[i]
  BY AppendSequence
<1> HIDE DEF g
<1>5. \A i \in 1 .. n : h[i].tokens \in 0 .. N /\ RightLook(a[h[i].tokens], KeptIn(tk, h[i].tokens)) /\ IsSeen(a[h[i].tokens], h[i].seen)
  BY <1>1 DEF Stops, N, n
<1>6. RightLook(a[N], KeptIn(tk, N)) /\ IsSeen(a[N], seen)
  BY <1>1 DEF KeptBy, N
<1> HIDE DEF n, N
<1>7. \A i \in 1 .. (n + 1) : i \in 1 .. n \/ i = n + 1
  BY <1>4
<1>8. \A i \in 1 .. (n + 1) : g[i].tokens \in 0 .. N /\ RightLook(a[g[i].tokens], KeptIn(tk, g[i].tokens)) /\ IsSeen(a[g[i].tokens], g[i].seen)
  BY <1>2, <1>3, <1>4, <1>5, <1>6, <1>7
<1>9. ASSUME NEW i \in 1 .. (n + 1), NEW j \in 1 .. (n + 1), i <= j PROVE g[i].tokens <= g[j].tokens
  <2>1. CASE j \in 1 .. n
    <3>1. i \in 1 .. n
      BY <1>4, <1>9, <2>1
    <3> QED
      BY <1>1, <1>4, <1>9, <2>1, <3>1 DEF Stops, n
  <2>2. CASE j = n + 1
    <3>1. g[j].tokens = N /\ g[i].tokens \in 0 .. N
      BY <1>3, <1>4, <1>8, <2>2
    <3> QED
      BY <3>1, <1>2
  <2> QED
    BY <1>7, <2>1, <2>2
<1>10. Stops(tk, a, g)
  BY <1>4, <1>8, <1>9 DEF Stops, N
<1>11. HasTrail(tk, A, next, g)
  BY <1>1, <1>10 DEF HasTrail
<1> QED
  BY <1>11 DEF g, x, N

(* What is kept now: one buffer more after a closed one is to be           *)
(* reinserted, the same after all other tokens.                            *)
LEMMA KeptGrows ==
  ASSUME NEW tk, IsSequence(tk), NEW t
  PROVE  KeptBy(Append(tk, t)) = IF t.kind = "reinsert" THEN KeptBy(tk) \cup {t.buffer} ELSE KeptBy(tk)
<1> DEFINE N == Len(tk)
           uk == Append(tk, t)
<1>1. /\ Len(uk) = N + 1 /\ N \in Nat /\ uk[N + 1] = t /\ \A i \in 1 .. N : uk[i] = tk[i]
  BY AppendSequence
<1> HIDE DEF uk, N
<1>2. \A i \in 1 .. (N + 1) : i \in 1 .. N \/ i = N + 1
  BY <1>1
<1>3. N + 1 \in 1 .. (N + 1) /\ \A i \in 1 .. N : i \in 1 .. (N + 1)
  BY <1>1
<1>4. KeptBy(uk) = {uk[j].buffer : j \in {i \in 1 .. (N + 1) : uk[i].kind = "reinsert"}}
  BY <1>1 DEF KeptBy, KeptIn
<1>5. KeptBy(tk) = {tk[j].buffer : j \in {i \in 1 .. N : tk[i].kind = "reinsert"}}
  BY DEF KeptBy, KeptIn, N
<1>6. \A x \in KeptBy(uk) : x \in KeptBy(tk) \/ (t.kind = "reinsert" /\ x = t.buffer)
  <2> SUFFICES ASSUME NEW j \in 1 .. (N + 1), uk[j].kind = "reinsert"
               PROVE  uk[j].buffer \in KeptBy(tk) \/ (t.kind = "reinsert" /\ uk[j].buffer = t.buffer)
    BY <1>4
  <2>1. CASE j \in 1 .. N
    BY <1>1, <1>5, <2>1
  <2>2. CASE j = N + 1
    BY <1>1, <2>2
  <2> QED
    BY <1>2, <2>1, <2>2
<1>7. \A x \in KeptBy(tk) : x \in KeptBy(uk)
  <2> SUFFICES ASSUME NEW j \in 1 .. N, tk[j].kind = "reinsert" PROVE tk[j].buffer \in KeptBy(uk)
    BY <1>5
  <2>1. j \in 1 .. (N + 1) /\ uk[j] = tk[j]
    BY <1>1, <1>3
  <2> QED
    BY <1>4, <2>1
<1>8. t.kind = "reinsert" => t.buffer \in KeptBy(uk)
  BY <1>1, <1>3, <1>4
<1>9. KeptBy(uk) = IF t.kind = "reinsert" THEN KeptBy(tk) \cup {t.buffer} ELSE KeptBy(tk)
  BY <1>6, <1>7, <1>8
<1> QED
  BY <1>9 DEF uk

LEMMA NothingKept == KeptBy(<<>>) = {} /\ Len(<<>>) = 0 /\ IsSequence(<<>>)
BY DEF KeptBy, KeptIn, IsSequence

(* What is kept is not in the ring.                                        *)
LEMMA KeptIsOutNow ==
  ASSUME NEW tk, IsSequence(tk), NEW A, NEW next, NEW h, HasTrail(tk, A, next, h)
  PROVE  \A b \in KeptBy(tk) : b \in Entries /\ b \notin Members(A.seq)
<1>1. PICK a : Trail(tk, a, next) /\ a[Len(tk)] = A
  BY DEF HasTrail
<1>2. Len(tk) \in Nat /\ Len(tk) \in 0 .. Len(tk)
  <2>1. Len(tk) \in Nat
    BY SequenceLength
  <2> QED
    BY <2>1
<1>3. \A j \in 1 .. Len(tk) : tk[j].kind = "reinsert" => tk[j].buffer \in Entries /\ tk[j].buffer \notin Members(A.seq)
  BY <1>1, <1>2, KeptIsOut
<1> QED
  BY <1>3 DEF KeptBy, KeptIn

(* Without tokens, there is no way back.                                   *)
LEMMA NoTrail ==
  ASSUME NEW A, IsLook(A), NEW next
  PROVE  HasTrail(<<>>, A, next, <<>>)
<1> DEFINE a == [k \in {0} |-> A]
<1>1. a[0] = A /\ Len(<<>>) = 0 /\ 0 .. 0 = {0}
  OBVIOUS
<1> HIDE DEF a
<1>2. Trail(<<>>, a, next)
  BY <1>1 DEF Trail
<1>3. Stops(<<>>, a, <<>>)
  BY <1>1 DEF Stops
<1> QED
  BY <1>1, <1>2, <1>3 DEF HasTrail

-----------------------------------------------------------------------------
(* The ring and its way back.                                              *)

(* The ring s has been V before a buffer was closed whose hooks have not   *)
(* returned yet.                                                           *)
IsClosing(V, s, K, next) ==
  /\ V \in Seq(Entries) /\ Distinct(V)
  /\ \/ K = {} /\ V = s
     \/ \E b : K = {b} /\ PlaceOf(V, b, s, next[b])
Allocated(live, s, K) == \A b \in Entries : live[b] <=> b \in Members(s) \cup K
RingOK(e, s, V, K, h) ==
  /\ Base(e) /\ LooksLike(e, Look(e, s)) /\ RightLook(Look(e, s), KeptBy(e.tokens) \cup K)
  /\ IsClosing(V, s, K, e.links.next)
  /\ e.undo => HasTrail(e.tokens, Look(e, V), e.links.next, h)
  /\ ~e.undo => e.tokens = <<>>

(* The same, unfolded.                                                     *)
LEMMA RingFacts ==
  ASSUME NEW e, NEW s, NEW V, NEW K, NEW h, RingOK(e, s, V, K, h)
  PROVE  /\ Base(e) /\ e.links \in Links /\ IsList(e.links, s) /\ ~e.dangling
         /\ s \in Seq(Entries) /\ Distinct(s) /\ Len(s) \in Nat
         /\ e.live \in [Entries -> BOOLEAN] /\ e.current \in Entries /\ e.register \in BOOLEAN
         /\ e.view \in Entries \cup {"register"}
         /\ e.current \in Members(s) /\ e.view = (IF e.register THEN "register" ELSE e.current)
         /\ Allocated(e.live, s, KeptBy(e.tokens) \cup K) /\ Order(e) = s /\ InRing(e) = Members(s)
         /\ \A b \in KeptBy(e.tokens) : b \in Entries /\ b \notin Members(V) /\ b \notin Members(s)
         /\ \A b \in K : b \in Entries /\ b \in Members(V) /\ b \notin Members(s)
         /\ V \in Seq(Entries) /\ Distinct(V) /\ Members(V) = Members(s) \cup K
<1>1. /\ Base(e) /\ e.links \in Links /\ IsList(e.links, s) /\ ~e.dangling
  BY DEF RingOK, LooksLike, Look
<1>2. Order(e) = s /\ InRing(e) = Members(s) /\ s \in Seq(Entries) /\ Distinct(s) /\ Len(s) \in Nat
  BY <1>1, OrderIsTheList DEF IsList, Members
<1>3. /\ e.live \in [Entries -> BOOLEAN] /\ e.current \in Entries /\ e.register \in BOOLEAN
      /\ e.view \in Entries \cup {"register"}
      /\ e.current \in Members(s) /\ e.view = (IF e.register THEN "register" ELSE e.current)
      /\ Allocated(e.live, s, KeptBy(e.tokens) \cup K)
  BY DEF RingOK, RightLook, IsLook, Looks, Look, Allocated
<1>4. V \in Seq(Entries) /\ Distinct(V)
  BY DEF RingOK, IsClosing
<1>5. /\ \A b \in K : b \in Entries /\ b \in Members(V) /\ b \notin Members(s)
      /\ Members(V) = Members(s) \cup K
  <2>1. CASE K = {} /\ V = s
    BY <2>1
  <2>2. ASSUME NEW b, K = {b}, PlaceOf(V, b, s, e.links.next[b])
        PROVE  b \in Entries /\ b \in Members(V) /\ b \notin Members(s) /\ Members(V) = Members(s) \cup {b}
    BY <1>4, <2>2, WithoutOne DEF PlaceOf
  <2> QED
    BY <2>1, <2>2 DEF RingOK, IsClosing
<1>6. \A b \in KeptBy(e.tokens) : b \in Entries /\ b \notin Members(V)
  <2>1. CASE e.undo
    <3>1. HasTrail(e.tokens, Look(e, V), e.links.next, h) /\ IsSequence(e.tokens)
      BY <1>1, <2>1 DEF RingOK, Base
    <3>2. Look(e, V).seq = V
      BY DEF Look
    <3> QED
      BY <3>1, <3>2, KeptIsOutNow
  <2>2. CASE ~e.undo
    BY <2>2, NothingKept DEF RingOK
  <2> QED
    BY <2>1, <2>2
<1> QED
  BY <1>1, <1>2, <1>3, <1>4, <1>5, <1>6

(* A step that has nothing to do with the ring changes none of these.      *)
SameButTokens(e, f) ==
  /\ DOMAIN f = Fields /\ f.links = e.links /\ f.live = e.live /\ f.current = e.current
  /\ f.register = e.register /\ f.view = e.view /\ f.dangling = e.dangling /\ f.undo = e.undo
SameRing(e, f) == SameButTokens(e, f) /\ f.tokens = e.tokens

LEMMA RingStays ==
  ASSUME NEW e, NEW s, NEW V, NEW K, NEW h, RingOK(e, s, V, K, h), NEW f, SameRing(e, f)
  PROVE  RingOK(f, s, V, K, h)
<1>1. Look(f, s) = Look(e, s) /\ Look(f, V) = Look(e, V)
  BY DEF Look, SameRing, SameButTokens
<1>2. Base(f)
  BY DEF RingOK, Base, SameRing, SameButTokens
<1>3. LooksLike(f, Look(f, s))
  BY <1>1 DEF RingOK, LooksLike, SameRing, SameButTokens
<1> QED
  BY <1>1, <1>2, <1>3 DEF RingOK, SameRing, SameButTokens

(* Pushing a token, which only counts while undo is enabled.               *)
LEMMA PushFields ==
  ASSUME NEW e, Base(e), NEW t
  PROVE  /\ SameButTokens(e, Push(e, t)) /\ Base(Push(e, t))
         /\ Push(e, t).tokens = IF e.undo THEN Append(e.tokens, t) ELSE e.tokens
         /\ ~e.undo => Push(e, t) = e
<1>1. CASE ~e.undo
  BY <1>1 DEF Push, Base, SameButTokens
<1>2. CASE e.undo
  <2> DEFINE u == Append(e.tokens, t)
             f == [e EXCEPT !.tokens = u]
  <2>1. Push(e, t) = f
    BY <1>2 DEF Push
  <2>2. IsSequence(u)
    BY AppendSequence DEF Base
  <2> HIDE DEF u
  <2>3. SameButTokens(e, f) /\ f.tokens = u /\ DOMAIN f = Fields
    BY DEF Base, SameButTokens, Fields
  <2> HIDE DEF f
  <2> QED
    BY <1>2, <2>1, <2>2, <2>3 DEF Base, u
<1> QED
  BY <1>1, <1>2

LEMMA PushPlain ==
  ASSUME NEW e, NEW s, NEW V, NEW K, NEW h, RingOK(e, s, V, K, h),
         NEW t, t.kind \in PlainKinds, t.kind = "undo" => ~e.register
  PROVE  RingOK(Push(e, t), s, V, K, h)
<1> DEFINE f == Push(e, t)
<1>1. Base(e) /\ IsSequence(e.tokens)
  BY DEF RingOK, Base
<1>2. CASE ~e.undo
  BY <1>1, <1>2, PushFields
<1>3. CASE e.undo
  <2>1. SameButTokens(e, f) /\ Base(f) /\ f.tokens = Append(e.tokens, t)
    BY <1>1, <1>3, PushFields
  <2> HIDE DEF f
  <2>2. Look(f, s) = Look(e, s) /\ Look(f, V) = Look(e, V)
    BY <2>1 DEF Look, SameButTokens
  <2>3. LooksLike(f, Look(f, s))
    BY <2>1, <2>2 DEF RingOK, LooksLike, SameButTokens
  <2>4. t.kind \in Kinds /\ t.kind # "reinsert"
    BY DEF PlainKinds, Kinds, FileKinds
  <2>5. KeptBy(f.tokens) = KeptBy(e.tokens)
    BY <1>1, <2>1, <2>4, KeptGrows
  <2> DEFINE A == Look(e, V)
  <2>6. HasTrail(e.tokens, A, e.links.next, h)
    BY <1>3 DEF RingOK
  <2>7. IsLook(A) /\ A.seq = V /\ A.view = e.view
    BY RingFacts DEF IsLook, Looks, Look
  <2>8. t.kind = "undo" => A.view # "register"
    <3>1. e.register \/ (e.view = e.current /\ e.current \in Entries)
      BY RingFacts
    <3> QED
      BY <2>7, <3>1, AddressesAssumption
  <2> HIDE DEF A
  <2>9. LeadsBack(t, A, A, e.links.next)
    <3>1. t.kind \in PlainKinds /\ A = A /\ (t.kind = "undo" => A.view # "register")
      BY <2>8
    <3> QED
      BY <3>1, Zenon DEF LeadsBack
  <2>10. \A b \in KeptBy(e.tokens) : b \notin Members(A.seq)
    <3>1. \A b \in KeptBy(e.tokens) : b \notin Members(V)
      BY RingFacts
    <3> QED
      BY <2>7, <3>1
  <2>11. HasTrail(Append(e.tokens, t), A, e.links.next, h)
    BY <1>1, <2>4, <2>6, <2>7, <2>9, <2>10, TrailGrows
  <2> QED
    BY <1>3, <2>1, <2>2, <2>3, <2>5, <2>11 DEF RingOK, SameButTokens, f, A
<1> QED
  BY <1>2, <1>3

(* Undo tokens have been pushed that lead back from whatever will be       *)
(* edited and shown: if it was a register, from the same buffer only.      *)
Ready(f, s, V, K, h) ==
  /\ Base(f) /\ f.links \in Links /\ IsList(f.links, s) /\ ~f.dangling
  /\ f.live \in [Entries -> BOOLEAN] /\ Allocated(f.live, s, KeptBy(f.tokens) \cup K)
  /\ f.current \in Entries /\ f.live[f.current] /\ f.register \in BOOLEAN
  /\ IsClosing(V, s, K, f.links.next)
  /\ f.undo => \A B : IsLook(B) /\ B.seq = V /\ B.live = f.live /\ (f.register => B.current = f.current) =>
                        HasTrail(f.tokens, B, f.links.next, h)
  /\ ~f.undo => f.tokens = <<>>

LEMMA ShowPushed ==
  ASSUME NEW e, NEW s, NEW V, NEW K, NEW h, RingOK(e, s, V, K, h), ~e.register
  PROVE  Ready(UndoShow(e), s, V, K, h) /\ SameButTokens(e, UndoShow(e))
<1> DEFINE t1 == [kind |-> "register", old |-> e.register]
           t2 == [kind |-> "current", old |-> e.current]
           t3 == [kind |-> "show", buffer |-> e.current]
           e1 == Push(e, t1)
           e2 == Push(e1, t2)
           f == Push(e2, t3)
<1>0. f = UndoShow(e)
  BY DEF UndoShow
<1>1. /\ t1.kind = "register" /\ t1.old = e.register /\ t2.kind = "current" /\ t2.old = e.current
      /\ t3.kind = "show" /\ t3.buffer = e.current
      /\ t1.kind \in Kinds /\ t2.kind \in Kinds /\ t3.kind \in Kinds
  BY DEF Kinds
<1> HIDE DEF t1, t2, t3
<1>2. /\ Base(e) /\ IsSequence(e.tokens) /\ e.links \in Links /\ IsList(e.links, s) /\ ~e.dangling
      /\ e.live \in [Entries -> BOOLEAN] /\ e.current \in Entries /\ e.register \in BOOLEAN
      /\ e.live[e.current] /\ e.view = e.current
      /\ Allocated(e.live, s, KeptBy(e.tokens) \cup K)
      /\ \A b \in KeptBy(e.tokens) : b \notin Members(V)
  BY RingFacts DEF Allocated, Base
<1>3. /\ SameButTokens(e, e1) /\ Base(e1) /\ SameButTokens(e1, e2) /\ Base(e2) /\ SameButTokens(e2, f) /\ Base(f)
      /\ e1.tokens = (IF e.undo THEN Append(e.tokens, t1) ELSE e.tokens)
      /\ e2.tokens = (IF e1.undo THEN Append(e1.tokens, t2) ELSE e1.tokens)
      /\ f.tokens = (IF e2.undo THEN Append(e2.tokens, t3) ELSE e2.tokens)
  BY <1>2, PushFields
<1> HIDE DEF e1, e2, f
<1>4. SameButTokens(e, f) /\ e1.undo = e.undo /\ e2.undo = e.undo
  BY <1>3 DEF SameButTokens
<1>5. /\ IsSequence(e1.tokens) /\ IsSequence(e2.tokens)
      /\ KeptBy(e1.tokens) = KeptBy(e.tokens) /\ KeptBy(e2.tokens) = KeptBy(e.tokens) /\ KeptBy(f.tokens) = KeptBy(e.tokens)
  <2>1. IsSequence(e1.tokens) /\ IsSequence(e2.tokens)
    BY <1>3 DEF Base
  <2>2. KeptBy(e1.tokens) = KeptBy(e.tokens)
    BY <1>1, <1>2, <1>3, KeptGrows
  <2>3. KeptBy(e2.tokens) = KeptBy(e.tokens)
    BY <1>1, <1>3, <2>1, <2>2, KeptGrows
  <2>4. KeptBy(f.tokens) = KeptBy(e.tokens)
    BY <1>1, <1>3, <2>1, <2>3, KeptGrows
  <2> QED
    BY <2>1, <2>2, <2>3, <2>4
<1>6. ASSUME e.undo, NEW B, IsLook(B), B.seq = V, B.live = e.live
      PROVE  HasTrail(f.tokens, B, e.links.next, h)
  <2> DEFINE A == Look(e, V)
             B1 == [seq |-> V, live |-> e.live, current |-> e.current, register |-> B.register, view |-> e.view]
             B2 == [seq |-> V, live |-> e.live, current |-> B.current, register |-> B.register, view |-> e.view]
  <2>1. HasTrail(e.tokens, A, e.links.next, h)
    BY <1>6 DEF RingOK
  <2>2. IsLook(B1) /\ IsLook(B2) /\ B1.seq = V /\ B2.seq = V
    BY <1>2, <1>6 DEF IsLook, Looks
  <2>3. B2 = [B EXCEPT !.view = e.current]
    BY <1>2, <1>6 DEF IsLook, Looks
  <2>4. B1 = [B2 EXCEPT !.current = e.current]
    OBVIOUS
  <2>5. A = [B1 EXCEPT !.register = e.register]
    BY DEF Look
  <2> HIDE DEF A, B1, B2
  <2>6. LeadsBack(t1, B1, A, e.links.next) /\ LeadsBack(t2, B2, B1, e.links.next)
    BY <1>1, <2>4, <2>5 DEF LeadsBack
  <2>7. LeadsBack(t3, B, B2, e.links.next)
    BY <1>1, <1>2, <1>6, <2>3 DEF LeadsBack
  <2>8. HasTrail(e1.tokens, B1, e.links.next, h)
    BY <1>1, <1>2, <1>3, <1>6, <2>1, <2>2, <2>6, TrailGrows
  <2>9. HasTrail(e2.tokens, B2, e.links.next, h)
    <3>1. e2.tokens = Append(e1.tokens, t2) /\ \A b \in KeptBy(e1.tokens) : b \notin Members(B2.seq)
      BY <1>2, <1>3, <1>4, <1>5, <1>6, <2>2
    <3> QED
      BY <1>1, <1>5, <2>2, <2>6, <2>8, <3>1, TrailGrows
  <2> QED
    BY <1>1, <1>2, <1>3, <1>4, <1>5, <1>6, <2>7, <2>9, TrailGrows
<1>7. ~e.undo => f.tokens = <<>>
  BY <1>3, <1>4 DEF RingOK
<1>8. Ready(f, s, V, K, h)
  <2>1. IsClosing(V, s, K, e.links.next)
    BY DEF RingOK
  <2> QED
    BY <1>2, <1>3, <1>4, <1>5, <1>6, <1>7, <2>1 DEF Ready, SameButTokens
<1> QED
  BY <1>0, <1>4, <1>8

LEMMA EditPushed ==
  ASSUME NEW e, NEW s, NEW V, NEW K, NEW h, RingOK(e, s, V, K, h)
  PROVE  Ready(UndoEdit(e), s, V, K, h) /\ SameButTokens(e, UndoEdit(e))
<1>1. CASE ~e.register
  BY <1>1, ShowPushed DEF UndoEdit
<1>2. CASE e.register
  <2> DEFINE t1 == [kind |-> "register", old |-> TRUE]
             t2 == [kind |-> "show", buffer |-> "register"]
             e1 == Push(e, t1)
             f == Push(e1, t2)
  <2>0. f = UndoEdit(e)
    BY <1>2 DEF UndoEdit
  <2>1. /\ t1.kind = "register" /\ t1.old = TRUE /\ t2.kind = "show" /\ t2.buffer = "register"
        /\ t1.kind \in Kinds /\ t2.kind \in Kinds
    BY DEF Kinds
  <2> HIDE DEF t1, t2
  <2>2. /\ Base(e) /\ IsSequence(e.tokens) /\ e.links \in Links /\ IsList(e.links, s) /\ ~e.dangling
        /\ e.live \in [Entries -> BOOLEAN] /\ e.current \in Entries /\ e.register \in BOOLEAN
        /\ e.live[e.current] /\ e.view = "register"
        /\ Allocated(e.live, s, KeptBy(e.tokens) \cup K)
        /\ \A b \in KeptBy(e.tokens) : b \notin Members(V)
    BY <1>2, RingFacts DEF Allocated, Base
  <2>3. /\ SameButTokens(e, e1) /\ Base(e1) /\ SameButTokens(e1, f) /\ Base(f)
        /\ e1.tokens = (IF e.undo THEN Append(e.tokens, t1) ELSE e.tokens)
        /\ f.tokens = (IF e1.undo THEN Append(e1.tokens, t2) ELSE e1.tokens)
    BY <2>2, PushFields
  <2> HIDE DEF e1, f
  <2>4. SameButTokens(e, f) /\ e1.undo = e.undo
    BY <2>3 DEF SameButTokens
  <2>5. /\ IsSequence(e1.tokens)
        /\ KeptBy(e1.tokens) = KeptBy(e.tokens) /\ KeptBy(f.tokens) = KeptBy(e.tokens)
    <3>1. IsSequence(e1.tokens)
      BY <2>3 DEF Base
    <3>2. KeptBy(e1.tokens) = KeptBy(e.tokens)
      BY <2>1, <2>2, <2>3, KeptGrows
    <3>3. KeptBy(f.tokens) = KeptBy(e.tokens)
      BY <2>1, <2>3, <3>1, <3>2, KeptGrows
    <3> QED
      BY <3>1, <3>2, <3>3
  <2>6. ASSUME e.undo, NEW B, IsLook(B), B.seq = V, B.live = e.live, B.current = e.current
        PROVE  HasTrail(f.tokens, B, e.links.next, h)
    <3> DEFINE A == Look(e, V)
               B1 == [seq |-> V, live |-> e.live, current |-> e.current, register |-> B.register, view |-> e.view]
    <3>1. HasTrail(e.tokens, A, e.links.next, h)
      BY <2>6 DEF RingOK
    <3>2. IsLook(B1) /\ B1.seq = V
      BY <2>2, <2>6 DEF IsLook, Looks
    <3>3. B1 = [B EXCEPT !.view = "register"]
      BY <2>2, <2>6 DEF IsLook, Looks
    <3>4. A = [B1 EXCEPT !.register = TRUE]
      <4>1. e.register = TRUE
        BY <1>2, <2>2
      <4>2. A = [B1 EXCEPT !.register = e.register]
        BY DEF Look
      <4> HIDE DEF A, B1
      <4> QED
        BY <4>1, <4>2, Zenon
    <3> HIDE DEF A, B1
    <3>5. LeadsBack(t1, B1, A, e.links.next) /\ LeadsBack(t2, B, B1, e.links.next)
      BY <2>1, <3>3, <3>4 DEF LeadsBack
    <3>6. HasTrail(e1.tokens, B1, e.links.next, h)
      BY <2>1, <2>2, <2>3, <2>6, <3>1, <3>2, <3>5, TrailGrows
    <3>7. f.tokens = Append(e1.tokens, t2) /\ \A b \in KeptBy(e1.tokens) : b \notin Members(B.seq)
      BY <2>2, <2>3, <2>4, <2>5, <2>6
    <3> QED
      BY <2>1, <2>5, <2>6, <3>5, <3>6, <3>7, TrailGrows
  <2>7. ~e.undo => f.tokens = <<>>
    BY <2>3, <2>4 DEF RingOK
  <2>8. Ready(f, s, V, K, h)
    <3>1. IsClosing(V, s, K, e.links.next)
      BY DEF RingOK
    <3>2. f.register = TRUE
      BY <1>2, <2>2, <2>4 DEF SameButTokens
    <3> QED
      BY <2>2, <2>3, <2>4, <2>5, <2>6, <2>7, <3>1, <3>2 DEF Ready, SameButTokens
  <2> QED
    BY <2>0, <2>4, <2>8
<1> QED
  BY <1>1, <1>2

(* Editing a buffer of the ring, and a register.                           *)
LEMMA EditsKnown ==
  ASSUME NEW f, NEW s, NEW V, NEW K, NEW h, Ready(f, s, V, K, h), NEW g, Base(g),
         g.links = f.links, g.live = f.live, g.undo = f.undo, g.tokens = f.tokens,
         g.current \in Members(s), g.register \in BOOLEAN, g.view = IF g.register THEN "register" ELSE g.current,
         ~g.dangling, f.register /\ f.undo => g.current = f.current
  PROVE  RingOK(g, s, V, K, h)
<1>1. s \in Seq(Entries) /\ Distinct(s) /\ V \in Seq(Entries) /\ Distinct(V)
  BY DEF Ready, IsClosing, IsList
<1>2. g.current \in Entries /\ g.view \in Entries \cup {"register"}
  <2>1. PICK i \in 1 .. Len(s) : g.current = s[i]
    BY DEF Members
  <2>2. g.current \in Entries
    BY <1>1, <2>1
  <2> QED
    BY <2>2
<1>3. IsLook(Look(g, s)) /\ IsLook(Look(g, V))
  BY <1>1, <1>2 DEF IsLook, Looks, Look, Ready
<1>4. LooksLike(g, Look(g, s))
  BY DEF LooksLike, Look, Ready
<1>5. RightLook(Look(g, s), KeptBy(g.tokens) \cup K)
  BY <1>3 DEF RightLook, Look, Ready, Allocated
<1>6. g.undo => HasTrail(g.tokens, Look(g, V), g.links.next, h)
  <2> SUFFICES ASSUME g.undo PROVE HasTrail(g.tokens, Look(g, V), g.links.next, h)
    OBVIOUS
  <2> DEFINE B == Look(g, V)
  <2>1. B.seq = V /\ B.live = f.live /\ B.current = g.current
    BY DEF Look
  <2> HIDE DEF B
  <2>2. f.register => B.current = f.current
    BY <2>1
  <2>3. IsLook(B)
    BY <1>3 DEF B
  <2> QED
    BY <2>1, <2>2, <2>3 DEF Ready, B
<1> QED
  BY <1>4, <1>5, <1>6 DEF RingOK, Ready

(* One more buffer at the end of the ring.                                 *)
LEMMA AppendOne ==
  ASSUME NEW s \in Seq(Entries), Distinct(s), NEW b \in Entries, b \notin Members(s)
  PROVE  /\ Append(s, b) \in Seq(Entries) /\ Distinct(Append(s, b)) /\ Members(Append(s, b)) = Members(s) \cup {b}
         /\ Len(Append(s, b)) = Len(s) + 1 /\ Len(s) \in Nat /\ Append(s, b)[Len(s) + 1] = b
         /\ \A i \in 1 .. Len(s) : Append(s, b)[i] = s[i]
         /\ RemoveAt(Append(s, b), Len(s) + 1) = s /\ OneLess(Append(s, b), b, s)
<1> DEFINE t == Append(s, b)
           n == Len(s)
<1>1. t \in Seq(Entries) /\ Len(t) = n + 1 /\ t[n + 1] = b /\ (\A i \in 1 .. n : t[i] = s[i]) /\ n \in Nat
  BY AppendProperties
<1>2. RemoveAt(t, n + 1) = s
  BY RemoveUndoesAppend
<1>3. n + 1 \in 1 .. Len(t) /\ OneLess(t, b, s)
  BY <1>1, <1>2 DEF OneLess
<1> HIDE DEF t
<1>4. Distinct(t)
  <2>0. \A i \in 1 .. n : s[i] # b
    BY DEF Members
  <2> HIDE DEF n
  <2> SUFFICES ASSUME NEW i \in 1 .. (n + 1), NEW j \in 1 .. (n + 1), t[i] = t[j] PROVE i = j
    BY <1>1 DEF Distinct
  <2>1. CASE i \in 1 .. n /\ j \in 1 .. n
    BY <1>1, <2>1 DEF Distinct, n
  <2>2. CASE i = n + 1 \/ j = n + 1
    <3>1. (i = n + 1 \/ i \in 1 .. n) /\ (j = n + 1 \/ j \in 1 .. n)
      BY <1>1
    <3> QED
      BY <1>1, <2>0, <2>2, <3>1
  <2> QED
    BY <1>1, <2>1, <2>2
<1>5. Members(t) = Members(s) \cup {b}
  <2>1. \A i \in 1 .. (n + 1) : i \in 1 .. n \/ i = n + 1
    BY <1>1
  <2>2. \A i \in 1 .. n : i \in 1 .. (n + 1)
    BY <1>1
  <2>3. n + 1 \in 1 .. (n + 1)
    BY <1>1
  <2>4. \A x : x \in Members(t) => x \in Members(s) \cup {b}
    BY <1>1, <2>1 DEF Members
  <2>5. \A x : x \in Members(s) \cup {b} => x \in Members(t)
    BY <1>1, <2>2, <2>3 DEF Members
  <2> QED
    BY <2>4, <2>5
<1> QED
  BY <1>1, <1>2, <1>3, <1>4, <1>5 DEF t

(* A buffer is added while another one is being closed: that keeps its     *)
(* place, before the next buffer or at the end.                            *)
LEMMA ClosingGrows ==
  ASSUME NEW s \in Seq(Entries), Distinct(s), NEW V, NEW K, NEW next, IsClosing(V, s, K, next),
         NEW b \in Entries, b \notin Members(s), b \notin K,
         NEW follow, \A c \in K : follow[c] = next[c]
  PROVE  \E W : IsClosing(W, Append(s, b), K, follow) /\ OneLess(W, b, V) /\ Members(W) = Members(V) \cup {b}
<1>0. V \in Seq(Entries) /\ Distinct(V)
  BY DEF IsClosing
<1> DEFINE t == Append(s, b)
<1>1. CASE K = {} /\ V = s
  <2>1. IsClosing(t, t, K, follow) /\ OneLess(t, b, V) /\ Members(t) = Members(V) \cup {b}
    BY <1>1, AppendOne DEF IsClosing
  <2> QED
    BY <2>1
<1>2. ASSUME NEW c, K = {c}, PlaceOf(V, c, s, next[c])
      PROVE  \E W : IsClosing(W, t, K, follow) /\ OneLess(W, b, V) /\ Members(W) = Members(V) \cup {b}
  <2>1. PICK k \in 1 .. Len(V) : V[k] = c /\ s = RemoveAt(V, k) /\ next[c] = NextOf(V, k)
    BY <1>2 DEF PlaceOf
  <2>2. /\ Members(s) = Members(V) \ {c} /\ c \in Members(V) /\ c \in Entries /\ c \notin Members(s)
    BY <1>0, <2>1, WithoutOne
  <2>3. b # c /\ b \notin Members(V) /\ follow[c] = NextOf(V, k)
    BY <1>2, <2>1, <2>2
  <2> DEFINE n == Len(s)
             m == Len(V)
  <2>4. n \in Nat /\ m \in Nat /\ m = n + 1 /\ k \in 1 .. m /\ \A i \in 1 .. n : s[i] = IF i < k THEN V[i] ELSE V[i + 1]
    <3>1. m \in Nat /\ k \in 1 .. m /\ n \in Nat
      BY <1>0
    <3>2. n = m - 1 /\ \A i \in 1 .. (m - 1) : s[i] = IF i < k THEN V[i] ELSE V[i + 1]
      BY <1>0, <2>1, <3>1, RemoveAtProps
    <3> HIDE DEF n, m
    <3> QED
      BY <3>1, <3>2
  <2>5. /\ t \in Seq(Entries) /\ Distinct(t) /\ Members(t) = Members(s) \cup {b} /\ Len(t) = n + 1
        /\ t[n + 1] = b /\ \A i \in 1 .. n : t[i] = s[i]
    BY AppendOne
  <2> HIDE DEF n, m, t
  <2>6. CASE k = m
    <3> DEFINE W == Append(t, c)
    <3>1. c \notin Members(t)
      BY <2>2, <2>3, <2>5
    <3>2. /\ W \in Seq(Entries) /\ Distinct(W) /\ Members(W) = Members(t) \cup {c} /\ Len(W) = n + 2
          /\ W[n + 2] = c /\ (\A i \in 1 .. (n + 1) : W[i] = t[i]) /\ RemoveAt(W, n + 2) = t
      <4>1. /\ W \in Seq(Entries) /\ Distinct(W) /\ Members(W) = Members(t) \cup {c} /\ Len(W) = Len(t) + 1
            /\ W[Len(t) + 1] = c /\ (\A i \in 1 .. Len(t) : W[i] = t[i]) /\ RemoveAt(W, Len(t) + 1) = t
        BY <2>2, <2>5, <3>1, AppendOne
      <4>2. Len(t) + 1 = n + 2
        BY <2>4, <2>5
      <4> HIDE DEF W
      <4> QED
        BY <2>5, <4>1, <4>2
    <3> HIDE DEF W
    <3>3. n + 2 \in 1 .. Len(W) /\ NextOf(W, n + 2) = Null /\ NextOf(V, k) = Null
      BY <2>4, <2>6, <3>2 DEF NextOf, m
    <3>4. PlaceOf(W, c, t, follow[c])
      BY <2>3, <3>2, <3>3 DEF PlaceOf
    <3>5. n + 1 \in 1 .. Len(W) /\ W[n + 1] = b
      BY <2>4, <2>5, <3>2
    <3>6. RemoveAt(W, n + 1) = V
      <4> DEFINE R == RemoveAt(W, n + 1)
      <4>1. R \in Seq(Entries) /\ Len(R) = Len(W) - 1 /\ \A i \in 1 .. (Len(W) - 1) : R[i] = IF i < n + 1 THEN W[i] ELSE W[i + 1]
        BY <3>2, <3>5, RemoveAtProps
      <4> HIDE DEF R
      <4>2. Len(R) = m /\ \A i \in 1 .. m : R[i] = IF i < n + 1 THEN W[i] ELSE W[i + 1]
        BY <2>4, <3>2, <4>1
      <4>3. ASSUME NEW i \in 1 .. m PROVE R[i] = V[i]
        <5>1. CASE i < n + 1
          <6>1. i \in 1 .. n /\ i \in 1 .. (n + 1) /\ i < k
            BY <2>4, <2>6, <5>1
          <6> QED
            BY <2>4, <2>5, <3>2, <4>2, <5>1, <6>1
        <5>2. CASE i = n + 1
          <6>1. i + 1 = n + 2 /\ ~(i < n + 1) /\ i = k
            BY <2>4, <2>6, <5>2
          <6> QED
            BY <2>1, <3>2, <4>2, <6>1
        <5> QED
          BY <2>4, <5>1, <5>2
      <4> QED
        BY <1>0, <4>1, <4>2, <4>3, SeqEqual DEF m, R
    <3>7. IsClosing(W, t, K, follow) /\ OneLess(W, b, V)
      BY <1>2, <3>2, <3>4, <3>5, <3>6 DEF IsClosing, OneLess
    <3>8. Members(W) = Members(V) \cup {b}
      BY <2>2, <2>5, <3>2
    <3> QED
      BY <3>7, <3>8
  <2>7. CASE k # m
    <3> DEFINE W == Append(V, b)
    <3>1. /\ W \in Seq(Entries) /\ Distinct(W) /\ Members(W) = Members(V) \cup {b} /\ Len(W) = m + 1
          /\ W[m + 1] = b /\ (\A i \in 1 .. m : W[i] = V[i]) /\ OneLess(W, b, V)
      BY <1>0, <2>3, AppendOne DEF m
    <3> HIDE DEF W
    <3>2. k \in 1 .. Len(W) /\ W[k] = c /\ k + 1 \in 1 .. m /\ W[k + 1] = V[k + 1] /\ k # Len(W)
      BY <2>1, <2>4, <2>7, <3>1
    <3>3. NextOf(W, k) = NextOf(V, k)
      BY <2>7, <3>2 DEF NextOf, m
    <3>4. RemoveAt(W, k) = t
      <4> DEFINE R == RemoveAt(W, k)
      <4>1. R \in Seq(Entries) /\ Len(R) = Len(W) - 1 /\ \A i \in 1 .. (Len(W) - 1) : R[i] = IF i < k THEN W[i] ELSE W[i + 1]
        BY <3>1, <3>2, RemoveAtProps
      <4> HIDE DEF R
      <4>2. Len(R) = m /\ \A i \in 1 .. m : R[i] = IF i < k THEN W[i] ELSE W[i + 1]
        BY <2>4, <3>1, <4>1
      <4>3. ASSUME NEW i \in 1 .. m PROVE R[i] = t[i]
        <5>1. CASE i < m
          <6>1. i \in 1 .. n /\ i \in 1 .. m /\ i + 1 \in 1 .. m
            BY <2>4, <5>1
          <6> QED
            BY <2>4, <2>5, <3>1, <4>2, <6>1
        <5>2. CASE i = m
          <6>1. ~(i < k) /\ i = n + 1 /\ i + 1 = m + 1
            BY <2>4, <2>7, <5>2
          <6> QED
            BY <2>5, <3>1, <4>2, <6>1
        <5> QED
          BY <2>4, <5>1, <5>2
      <4> QED
        BY <2>4, <2>5, <4>1, <4>2, <4>3, SeqEqual DEF R
    <3>5. IsClosing(W, t, K, follow)
      BY <1>2, <2>3, <3>1, <3>2, <3>3, <3>4 DEF IsClosing, PlaceOf
    <3> QED
      BY <3>1, <3>5
  <2> QED
    BY <2>6, <2>7
<1> QED
  BY <1>1, <1>2 DEF IsClosing

-----------------------------------------------------------------------------
(* What ring.c does to the ring.                                           *)

(* teco_ring_edit() of a new buffer.                                       *)
LEMMA AddedFields ==
  ASSUME NEW f, Base(f), NEW b \in Entries, f.live \in [Entries -> BOOLEAN], ~f.dangling
  PROVE  LET g == EditExisting(NewBuffer(f, b), b) IN
           /\ Base(g) /\ g.links = InsertTail(f.links, b) /\ g.live = [f.live EXCEPT ![b] = TRUE]
           /\ g.current = b /\ g.register = FALSE /\ g.view = b /\ ~g.dangling /\ g.tokens = f.tokens /\ g.undo = f.undo
           /\ g.failed = f.failed
<1> DEFINE n == NewBuffer(f, b)
           g == EditExisting(n, b)
<1>1. /\ DOMAIN n = Fields /\ n.links = InsertTail(f.links, b) /\ n.live = [f.live EXCEPT ![b] = TRUE]
      /\ n.tokens = f.tokens /\ n.undo = f.undo /\ n.dangling = f.dangling /\ n.failed = f.failed
  BY DEF NewBuffer, Base, Fields
<1>2. b # "register"
  BY AddressesAssumption
<1>3. n.live[b]
  BY <1>1
<1> HIDE DEF n
<1>4. /\ DOMAIN g = Fields /\ g.links = n.links /\ g.live = n.live /\ g.current = b /\ g.register = FALSE /\ g.view = b
      /\ g.dangling = (n.dangling \/ (b # "register" /\ ~n.live[b])) /\ g.tokens = n.tokens /\ g.undo = n.undo
      /\ g.failed = n.failed
  BY <1>1 DEF EditExisting, EditBuffer, ShowView, Fields
<1> HIDE DEF g
<1>5. ~g.dangling
  BY <1>1, <1>3, <1>4
<1> QED
  BY <1>1, <1>4, <1>5 DEF Base, g, n

LEMMA ReadyAdd ==
  ASSUME NEW f, NEW s, NEW V, NEW K, NEW h, Ready(f, s, V, K, h), NEW b \in Entries, ~f.live[b],
         ~(f.register /\ f.undo)
  PROVE  LET g == AddBuffer(f, b) IN
           /\ \E W : RingOK(g, Append(s, b), W, K, h)
           /\ g.current = b /\ g.register = FALSE /\ g.undo = f.undo /\ g.failed = f.failed
<1> DEFINE g == EditExisting(NewBuffer(f, b), b)
           t1 == [kind |-> "free", buffer |-> b]
           t2 == [kind |-> "remove", buffer |-> b]
           g1 == Push(g, t1)
           g2 == Push(g1, t2)
           t == Append(s, b)
           next == f.links.next
           follow == InsertTail(f.links, b).next
<1>0. g2 = AddBuffer(f, b)
  BY DEF AddBuffer
<1>1. /\ t1.kind = "free" /\ t1.buffer = b /\ t2.kind = "remove" /\ t2.buffer = b
      /\ t1.kind \in Kinds /\ t2.kind \in Kinds
  BY DEF Kinds
<1> HIDE DEF t1, t2
<1>2. /\ Base(f) /\ IsSequence(f.tokens) /\ f.links \in Links /\ IsList(f.links, s) /\ ~f.dangling
      /\ f.live \in [Entries -> BOOLEAN] /\ Allocated(f.live, s, KeptBy(f.tokens) \cup K)
      /\ IsClosing(V, s, K, next)
      /\ ~f.undo => f.tokens = <<>>
  BY DEF Ready, Base
<1>3. s \in Seq(Entries) /\ Distinct(s) /\ V \in Seq(Entries) /\ Distinct(V)
  BY <1>2 DEF IsList, IsClosing
<1>4. b \notin Members(s) /\ b \notin KeptBy(f.tokens) /\ b \notin K
  BY <1>2 DEF Allocated
<1>5. /\ Base(g) /\ g.links = InsertTail(f.links, b) /\ g.live = [f.live EXCEPT ![b] = TRUE]
      /\ g.current = b /\ g.register = FALSE /\ g.view = b /\ ~g.dangling /\ g.tokens = f.tokens /\ g.undo = f.undo
      /\ g.failed = f.failed
  BY <1>2, AddedFields
<1> HIDE DEF g
<1>6. /\ SameButTokens(g, g1) /\ Base(g1) /\ SameButTokens(g1, g2) /\ Base(g2)
      /\ g1.tokens = (IF g.undo THEN Append(g.tokens, t1) ELSE g.tokens)
      /\ g2.tokens = (IF g1.undo THEN Append(g1.tokens, t2) ELSE g1.tokens)
  BY <1>5, PushFields
<1>16. g1.failed = g.failed /\ g2.failed = g.failed
  <2>1. DOMAIN g = Fields /\ DOMAIN g1 = Fields
    BY <1>5, <1>6 DEF Base
  <2>2. g1.failed = g.failed
    BY <2>1 DEF Push, Fields
  <2> HIDE DEF g1
  <2>3. g2.failed = g1.failed
    BY <2>1 DEF Push, Fields
  <2> QED
    BY <2>2, <2>3
<1> HIDE DEF g1, g2
<1>7. SameButTokens(g, g2) /\ g1.undo = f.undo /\ g2.undo = f.undo
  BY <1>5, <1>6 DEF SameButTokens
<1>8. /\ IsList(g.links, t) /\ g.links \in Links /\ g.links.next = follow
  <2>1. \A i \in 1 .. Len(s) : s[i] # b
    BY <1>4 DEF Members
  <2> QED
    BY <1>2, <1>3, <1>5, <2>1, InsertTailAppends
<1>9. \A c \in Entries : c \notin Members(s) /\ c # b => follow[c] = next[c]
  BY <1>2, OthersStay
<1> HIDE DEF follow, next
<1>10. \A c \in K : c \in Entries /\ follow[c] = next[c]
  <2>1. ASSUME NEW c \in K PROVE c \in Entries /\ c \notin Members(s)
    <3>1. K = {c} /\ PlaceOf(V, c, s, next[c])
      BY <1>2, <2>1 DEF IsClosing
    <3> QED
      BY <1>3, <3>1, WithoutOne DEF PlaceOf
  <2> QED
    BY <1>4, <1>9, <2>1
<1>11. PICK W : IsClosing(W, t, K, follow) /\ OneLess(W, b, V) /\ Members(W) = Members(V) \cup {b}
  BY <1>2, <1>3, <1>4, <1>10, ClosingGrows
<1>12. t \in Seq(Entries) /\ Distinct(t) /\ Members(t) = Members(s) \cup {b}
  BY <1>3, <1>4, AppendOne
<1>13. /\ IsSequence(g1.tokens) /\ KeptBy(g1.tokens) = KeptBy(f.tokens) /\ KeptBy(g2.tokens) = KeptBy(f.tokens)
  <2>1. IsSequence(g1.tokens)
    BY <1>6 DEF Base
  <2>2. KeptBy(g1.tokens) = KeptBy(f.tokens)
    BY <1>1, <1>2, <1>5, <1>6, KeptGrows
  <2>3. KeptBy(g2.tokens) = KeptBy(f.tokens)
    BY <1>1, <1>6, <2>1, <2>2, KeptGrows
  <2> QED
    BY <2>1, <2>2, <2>3
<1> HIDE DEF t
<1>14. f.undo => HasTrail(g2.tokens, Look(g2, W), follow, h)
  <2> SUFFICES ASSUME f.undo PROVE HasTrail(g2.tokens, Look(g2, W), follow, h)
    OBVIOUS
  <2> DEFINE B0 == [seq |-> V, live |-> f.live, current |-> b, register |-> g.register, view |-> b]
             B1 == [seq |-> V, live |-> g.live, current |-> b, register |-> g.register, view |-> b]
             B2 == [seq |-> W, live |-> g.live, current |-> b, register |-> g.register, view |-> b]
  <2>0. B2 = Look(g2, W)
    BY <1>5, <1>7 DEF Look, SameButTokens
  <2>1. W \in Seq(Entries) /\ Distinct(W)
    BY <1>11 DEF IsClosing
  <2>2. IsLook(B0) /\ IsLook(B1) /\ IsLook(B2) /\ B0.seq = V /\ B0.live = f.live /\ B1.seq = V /\ B1.live = g.live /\ B2.seq = W
    BY <1>2, <1>3, <1>5, <2>1 DEF IsLook, Looks
  <2>3. B0 = [B1 EXCEPT !.live = [@ EXCEPT ![b] = FALSE]]
    <3>1. [g.live EXCEPT ![b] = FALSE] = f.live
      BY <1>2, <1>5
    <3>2. B0 = [B1 EXCEPT !.live = f.live] /\ B1.live = g.live
      OBVIOUS
    <3> HIDE DEF B0, B1
    <3> QED
      BY <3>1, <3>2
  <2>4. B1 = [B2 EXCEPT !.seq = V]
    OBVIOUS
  <2>5. B1.live[b]
    <3>1. B1.live = g.live
      OBVIOUS
    <3> HIDE DEF B1
    <3> QED
      BY <1>2, <1>5, <3>1
  <2> HIDE DEF B0, B1, B2
  <2>6. HasTrail(f.tokens, B0, next, h)
    BY <2>2 DEF Ready, next
  <2>7. \A c \in KeptBy(f.tokens) : c \in Entries /\ c \notin Members(V)
    BY <1>2, <2>2, <2>6, KeptIsOutNow
  <2>8. Members(s) \subseteq Members(V)
    <3>1. CASE V = s
      BY <3>1
    <3>2. ASSUME NEW c, PlaceOf(V, c, s, next[c]) PROVE Members(s) \subseteq Members(V)
      BY <1>3, <3>2, WithoutOne DEF PlaceOf
    <3> QED
      BY <1>2, <3>1, <3>2 DEF IsClosing
  <2>9. \A c \in KeptBy(f.tokens) : follow[c] = next[c]
    BY <1>4, <1>9, <2>7, <2>8
  <2>10. HasTrail(f.tokens, B0, follow, h)
    BY <1>2, <2>6, <2>9, TrailStays
  <2>11. LeadsBack(t1, B1, B0, follow) /\ LeadsBack(t2, B2, B1, follow)
    <3>1. LeadsBack(t1, B1, B0, follow)
      BY <1>1, <2>3, <2>5, Zenon DEF LeadsBack
    <3>2. t2.kind = "remove" /\ B1 = [B2 EXCEPT !.seq = B1.seq] /\ OneLess(B2.seq, t2.buffer, B1.seq)
      BY <1>1, <1>11, <2>2, <2>4
    <3>3. LeadsBack(t2, B2, B1, follow)
      BY <3>2, Zenon DEF LeadsBack
    <3> QED
      BY <3>1, <3>3
  <2>12. HasTrail(g1.tokens, B1, follow, h)
    <3>1. g1.tokens = Append(f.tokens, t1) /\ \A c \in KeptBy(f.tokens) : c \notin Members(B1.seq)
      BY <1>5, <1>6, <2>2, <2>7
    <3> QED
      BY <1>1, <1>2, <2>2, <2>10, <2>11, <3>1, TrailGrows
  <2>13. HasTrail(g2.tokens, B2, follow, h)
    <3>1. g2.tokens = Append(g1.tokens, t2) /\ \A c \in KeptBy(g1.tokens) : c \notin Members(B2.seq)
      BY <1>4, <1>6, <1>7, <1>11, <1>13, <2>2, <2>7
    <3> QED
      BY <1>1, <1>13, <2>2, <2>11, <2>12, <3>1, TrailGrows
  <2> QED
    BY <2>0, <2>13
<1>15. RingOK(g2, t, W, K, h)
  <2>1. /\ g2.links = g.links /\ g2.live = g.live /\ g2.current = b /\ g2.register = FALSE /\ g2.view = b
        /\ ~g2.dangling /\ g2.undo = f.undo
    BY <1>5, <1>7 DEF SameButTokens
  <2>2. LooksLike(g2, Look(g2, t))
    BY <1>8, <2>1 DEF LooksLike, Look
  <2>3. IsLook(Look(g2, t))
    BY <1>2, <1>5, <1>12, <2>1 DEF IsLook, Looks, Look
  <2>4. \A c \in Entries : g2.live[c] <=> c \in Members(t) \cup (KeptBy(g2.tokens) \cup K)
    BY <1>2, <1>5, <1>12, <1>13, <2>1 DEF Allocated
  <2>5. RightLook(Look(g2, t), KeptBy(g2.tokens) \cup K)
    BY <1>12, <2>1, <2>3, <2>4 DEF RightLook, Look
  <2>6. ~f.undo => g2.tokens = <<>>
    BY <1>2, <1>5, <1>6, <1>7
  <2> QED
    BY <1>6, <1>8, <1>11, <1>14, <2>1, <2>2, <2>5, <2>6 DEF RingOK
<1> QED
  BY <1>0, <1>5, <1>7, <1>15, <1>16 DEF SameButTokens, t

(* teco_ring_close() takes a buffer out of the ring, which keeps its place. *)
Removed(f, s, k, g) ==
  /\ DOMAIN g = Fields /\ g.live = f.live /\ g.current = f.current /\ g.register = f.register
  /\ g.view = f.view /\ g.dangling = f.dangling /\ g.undo = f.undo /\ g.tokens = f.tokens /\ g.failed = f.failed
  /\ g.links \in Links /\ IsList(g.links, RemoveAt(s, k))
  /\ \A x \in Entries : x \notin Members(s) => g.links.next[x] = f.links.next[x]
  /\ IsClosing(s, RemoveAt(s, k), {s[k]}, g.links.next)
  /\ Members(RemoveAt(s, k)) = Members(s) \ {s[k]} /\ s[k] \in Members(s) /\ s[k] \in Entries

(* Removing a buffer from the ring changes the links of its neighbours and *)
(* nothing else.                                                           *)
LEMMA RemovedFields ==
  ASSUME NEW f, Base(f), f.links \in Links, NEW s, IsList(f.links, s), NEW k \in 1 .. Len(s)
  PROVE  Removed(f, s, k, RemoveBuffer(f, s[k]))
<1> DEFINE g == RemoveBuffer(f, s[k])
           b == s[k]
<1>1. s \in Seq(Entries) /\ Distinct(s)
  BY DEF IsList
<1>2. /\ Members(RemoveAt(s, k)) = Members(s) \ {b} /\ b \in Members(s) /\ b \in Entries
  BY <1>1, WithoutOne
<1>3. /\ DOMAIN g = Fields /\ g.live = f.live /\ g.current = f.current /\ g.register = f.register
      /\ g.view = f.view /\ g.dangling = f.dangling /\ g.undo = f.undo /\ g.tokens = f.tokens /\ g.failed = f.failed
      /\ g.links = RemoveEntry(f.links, b)
  BY DEF RemoveBuffer, Base, Fields
<1> HIDE DEF g
<1>4. g.links \in Links /\ IsList(g.links, RemoveAt(s, k)) /\ g.links.next[b] = NextOf(s, k)
  BY <1>1, <1>3, RemoveEntryRemoves
<1>5. \A x \in Entries : x \notin Members(s) => g.links.next[x] = f.links.next[x]
  BY <1>3, OthersStay
<1>6. PlaceOf(s, b, RemoveAt(s, k), g.links.next[b])
  BY <1>4 DEF PlaceOf
<1>7. IsClosing(s, RemoveAt(s, k), {b}, g.links.next)
  BY <1>1, <1>6 DEF IsClosing
<1> QED
  BY <1>2, <1>3, <1>4, <1>5, <1>7 DEF Removed, g

LEMMA ReadyRemove ==
  ASSUME NEW f, NEW s, NEW h, Ready(f, s, s, {}, h), NEW k \in 1 .. Len(s)
  PROVE  Ready(RemoveBuffer(f, s[k]), RemoveAt(s, k), s, {s[k]}, h)
<1> DEFINE b == s[k]
           g == RemoveBuffer(f, b)
           t == RemoveAt(s, k)
           next == f.links.next
           follow == g.links.next
<1>1. /\ Base(f) /\ IsSequence(f.tokens) /\ f.links \in Links /\ IsList(f.links, s) /\ ~f.dangling
      /\ f.live \in [Entries -> BOOLEAN] /\ Allocated(f.live, s, KeptBy(f.tokens) \cup {})
      /\ f.current \in Entries /\ f.live[f.current] /\ f.register \in BOOLEAN
  BY DEF Ready, Base
<1>2. /\ DOMAIN g = Fields /\ g.live = f.live /\ g.current = f.current /\ g.register = f.register
      /\ g.view = f.view /\ g.dangling = f.dangling /\ g.undo = f.undo /\ g.tokens = f.tokens
      /\ g.links \in Links /\ IsList(g.links, t)
      /\ \A x \in Entries : x \notin Members(s) => follow[x] = next[x]
      /\ IsClosing(s, t, {b}, follow) /\ Members(t) = Members(s) \ {b} /\ b \in Members(s)
  <2>1. Removed(f, s, k, RemoveBuffer(f, s[k]))
    BY <1>1, RemovedFields
  <2> QED
    BY <2>1 DEF Removed
<1> HIDE DEF g, t, b, next, follow
<1>3. Allocated(g.live, t, KeptBy(g.tokens) \cup {b})
  BY <1>1, <1>2 DEF Allocated
<1>4. ASSUME g.undo, NEW B, IsLook(B), B.seq = s, B.live = g.live, g.register => B.current = g.current
      PROVE  HasTrail(g.tokens, B, follow, h)
  <2>1. HasTrail(f.tokens, B, next, h)
    BY <1>2, <1>4 DEF Ready, next
  <2>2. \A c \in KeptBy(f.tokens) : follow[c] = next[c]
    BY <1>1, <1>2, <1>4, <2>1, KeptIsOutNow
  <2> QED
    BY <1>1, <1>2, <2>1, <2>2, TrailStays
<1>5. ~g.undo => g.tokens = <<>>
  BY <1>2 DEF Ready
<1> QED
  BY <1>1, <1>2, <1>3, <1>4, <1>5 DEF Ready, Base, g, t, b, follow

LEMMA RingRemove ==
  ASSUME NEW e, NEW s, NEW h, RingOK(e, s, s, {}, h), NEW k \in 1 .. Len(s), s[k] # e.current
  PROVE  RingOK(RemoveBuffer(e, s[k]), RemoveAt(s, k), s, {s[k]}, h)
<1> DEFINE b == s[k]
           g == RemoveBuffer(e, b)
           t == RemoveAt(s, k)
           next == e.links.next
           follow == g.links.next
<1>1. /\ Base(e) /\ IsSequence(e.tokens) /\ e.links \in Links /\ IsList(e.links, s) /\ ~e.dangling
      /\ e.live \in [Entries -> BOOLEAN] /\ Allocated(e.live, s, KeptBy(e.tokens) \cup {})
      /\ e.current \in Members(s) /\ e.current \in Entries /\ e.register \in BOOLEAN /\ e.view \in Entries \cup {"register"}
      /\ e.view = (IF e.register THEN "register" ELSE e.current)
      /\ \A c \in KeptBy(e.tokens) : c \in Entries /\ c \notin Members(s)
      /\ s \in Seq(Entries) /\ Distinct(s)
  BY RingFacts DEF Base
<1>2. /\ DOMAIN g = Fields /\ g.live = e.live /\ g.current = e.current /\ g.register = e.register
      /\ g.view = e.view /\ g.dangling = e.dangling /\ g.undo = e.undo /\ g.tokens = e.tokens
      /\ g.links \in Links /\ IsList(g.links, t)
      /\ \A x \in Entries : x \notin Members(s) => follow[x] = next[x]
      /\ IsClosing(s, t, {b}, follow) /\ Members(t) = Members(s) \ {b} /\ b \in Members(s)
  <2>1. Removed(e, s, k, RemoveBuffer(e, s[k]))
    BY <1>1, RemovedFields
  <2> QED
    BY <2>1 DEF Removed
<1>3. t \in Seq(Entries) /\ Distinct(t)
  BY <1>1, WithoutOne
<1>7. b # e.current
  OBVIOUS
<1> HIDE DEF g, t, b, next, follow
<1>4. Allocated(g.live, t, KeptBy(g.tokens) \cup {b}) /\ g.current \in Members(t)
  BY <1>1, <1>2, <1>7 DEF Allocated
<1>5. g.undo => HasTrail(g.tokens, Look(g, s), follow, h)
  <2> SUFFICES ASSUME g.undo PROVE HasTrail(g.tokens, Look(g, s), follow, h)
    OBVIOUS
  <2>1. HasTrail(e.tokens, Look(e, s), next, h)
    BY <1>2 DEF RingOK, next
  <2>2. Look(g, s) = Look(e, s)
    BY <1>2 DEF Look
  <2> QED
    BY <1>1, <1>2, <2>1, <2>2, TrailStays
<1>6. ~g.undo => g.tokens = <<>>
  BY <1>2 DEF RingOK
<1>8. LooksLike(g, Look(g, t)) /\ IsLook(Look(g, t))
  BY <1>1, <1>2, <1>3 DEF LooksLike, IsLook, Looks, Look
<1>9. RightLook(Look(g, t), KeptBy(g.tokens) \cup {b})
  BY <1>1, <1>2, <1>4, <1>8 DEF RightLook, Look, Allocated
<1> QED
  BY <1>1, <1>2, <1>5, <1>6, <1>8, <1>9 DEF RingOK, Base, g, t, b, follow

(* Undoing that will reinsert the buffer; without undo, it is freed.       *)
LEMMA Reinserted ==
  ASSUME NEW e, NEW s, NEW V, NEW b, NEW h, RingOK(e, s, V, {b}, h)
  PROVE  LET g == UndoReinsert(e, b) IN
           RingOK(g, s, s, {}, h) /\ g.register = e.register /\ g.undo = e.undo /\ g.current = e.current
<1> DEFINE g == UndoReinsert(e, b)
           next == e.links.next
<1>1. /\ Base(e) /\ IsSequence(e.tokens) /\ e.links \in Links /\ IsList(e.links, s) /\ ~e.dangling
      /\ e.live \in [Entries -> BOOLEAN] /\ Allocated(e.live, s, KeptBy(e.tokens) \cup {b})
      /\ e.current \in Members(s) /\ e.current \in Entries /\ e.register \in BOOLEAN /\ e.view \in Entries \cup {"register"}
      /\ e.view = (IF e.register THEN "register" ELSE e.current)
      /\ \A c \in KeptBy(e.tokens) : c \in Entries /\ c \notin Members(V) /\ c \notin Members(s)
      /\ s \in Seq(Entries) /\ Distinct(s) /\ V \in Seq(Entries) /\ Distinct(V)
      /\ b \in Entries /\ b \in Members(V) /\ b \notin Members(s)
  <2>1. \A c \in {b} : c \in Entries /\ c \in Members(V) /\ c \notin Members(s)
    BY RingFacts
  <2> QED
    BY <2>1, RingFacts DEF Base
<1>2. IsClosing(s, s, {}, next)
  BY <1>1 DEF IsClosing
<1>3. CASE e.undo
  <2> DEFINE t == [kind |-> "reinsert", buffer |-> b]
             B == Look(e, s)
             A == Look(e, V)
  <2>0. g = Push(e, t)
    BY <1>3 DEF UndoReinsert
  <2>1. t.kind = "reinsert" /\ t.buffer = b /\ t.kind \in Kinds
    BY DEF Kinds
  <2> HIDE DEF t, g
  <2>2. SameButTokens(e, g) /\ Base(g) /\ g.tokens = Append(e.tokens, t)
    BY <1>1, <1>3, <2>0, PushFields
  <2>3. KeptBy(g.tokens) = KeptBy(e.tokens) \cup {b}
    BY <1>1, <2>1, <2>2, KeptGrows
  <2>4. HasTrail(e.tokens, A, next, h)
    BY <1>3 DEF RingOK
  <2>5. IsLook(B) /\ B.seq = s /\ IsLook(A) /\ A.seq = V
    BY <1>1 DEF IsLook, Looks, Look
  <2>6. A = [B EXCEPT !.seq = V]
    BY DEF Look
  <2>7. PlaceOf(V, b, s, next[b])
    BY <1>1 DEF RingOK, IsClosing
  <2>8. Look(g, s) = B
    BY <2>2 DEF Look, SameButTokens
  <2> HIDE DEF A, B
  <2>9. LeadsBack(t, B, A, next)
    <3>1. t.kind = "reinsert" /\ A = [B EXCEPT !.seq = A.seq] /\ PlaceOf(A.seq, t.buffer, B.seq, next[t.buffer])
      BY <2>1, <2>5, <2>6, <2>7
    <3> QED
      BY <3>1, Zenon DEF LeadsBack
  <2>10. HasTrail(g.tokens, B, next, h)
    <3>1. \A c \in KeptBy(e.tokens) : c \notin Members(B.seq)
      BY <1>1, <2>5
    <3>2. t.kind = "reinsert" => t.buffer \notin Members(B.seq)
      BY <1>1, <2>1, <2>5
    <3> QED
      BY <1>1, <2>1, <2>2, <2>4, <2>5, <2>9, <3>1, <3>2, TrailGrows
  <2>11. LooksLike(g, B)
    BY <1>1, <2>2 DEF LooksLike, SameButTokens, B, Look
  <2>12. RightLook(B, KeptBy(g.tokens) \cup {})
    BY <1>1, <2>3, <2>5 DEF RightLook, B, Look, Allocated
  <2>13. g.links = e.links /\ g.undo /\ g.register = e.register /\ g.undo = e.undo /\ g.current = e.current
    BY <1>3, <2>2 DEF SameButTokens
  <2>14. RingOK(g, s, s, {}, h)
    BY <1>2, <2>2, <2>8, <2>10, <2>11, <2>12, <2>13 DEF RingOK, next
  <2> QED
    BY <2>13, <2>14 DEF g
<1>4. CASE ~e.undo
  <2>1. /\ DOMAIN g = Fields /\ g.links = e.links /\ g.live = [e.live EXCEPT ![b] = FALSE] /\ g.current = e.current
        /\ g.register = e.register /\ g.view = e.view /\ g.dangling = (e.dangling \/ ~e.live[b]) /\ g.undo = e.undo
        /\ g.tokens = e.tokens
    BY <1>1, <1>4 DEF UndoReinsert, FreeBuffer, Base, Fields
  <2> HIDE DEF g
  <2>2. ~g.dangling /\ Base(g)
    BY <1>1, <2>1 DEF Allocated, Base
  <2>3. e.tokens = <<>> /\ KeptBy(e.tokens) = {}
    BY <1>4, NothingKept DEF RingOK
  <2>4. LooksLike(g, Look(g, s)) /\ IsLook(Look(g, s))
    BY <1>1, <2>1, <2>2 DEF LooksLike, IsLook, Looks, Look
  <2>5. \A c \in Entries : g.live[c] <=> c \in Members(s) \cup (KeptBy(g.tokens) \cup {})
    BY <1>1, <2>1, <2>3 DEF Allocated
  <2>6. RightLook(Look(g, s), KeptBy(g.tokens) \cup {})
    BY <1>1, <2>1, <2>4, <2>5 DEF RightLook, Look
  <2>7. RingOK(g, s, s, {}, h)
    BY <1>2, <1>4, <2>1, <2>2, <2>3, <2>4, <2>6 DEF RingOK
  <2> QED
    BY <2>1, <2>7 DEF g
<1> QED
  BY <1>3, <1>4

(* The first buffer of a kind is one of the kind.                          *)
LEMMA FirstOfIn ==
  ASSUME NEW f, NEW s, IsList(f.links, s), NEW S, S \subseteq Members(s), S # {}
  PROVE  FirstOf(f, S) \in S
<1> DEFINE I == {i \in DOMAIN s : s[i] \in S}
<1>1. Order(f) = s /\ s \in Seq(Entries)
  BY OrderIsTheList DEF IsList
<1>2. I \subseteq Nat /\ I # {}
  <2>1. DOMAIN s = 1 .. Len(s) /\ 1 .. Len(s) \subseteq Nat
    BY <1>1
  <2> QED
    BY <2>1 DEF Members
<1>3. FirstOf(f, S) = s[Min(I)]
  BY <1>1 DEF FirstOf
<1>4. Min(I) \in I
  <2> HIDE DEF I
  <2> QED
    BY <1>2, MinLemma
<1> QED
  BY <1>3, <1>4

(* teco_buffer_edit() of a buffer of the ring.                             *)
LEMMA EditedExisting ==
  ASSUME NEW f, NEW s, NEW V, NEW K, NEW h, Ready(f, s, V, K, h), NEW b \in Members(s),
         f.register /\ f.undo => b = f.current
  PROVE  RingOK(EditExisting(f, b), s, V, K, h)
<1> DEFINE g == EditExisting(f, b)
<1>1. Base(f) /\ ~f.dangling /\ Allocated(f.live, s, KeptBy(f.tokens) \cup K) /\ s \in Seq(Entries)
  BY DEF Ready, IsList
<1>2. b \in Entries /\ f.live[b]
  <2>1. PICK i \in 1 .. Len(s) : b = s[i]
    BY DEF Members
  <2>2. b \in Entries
    BY <1>1, <2>1
  <2> QED
    BY <1>1, <2>2 DEF Allocated
<1>3. /\ DOMAIN g = Fields /\ g.links = f.links /\ g.live = f.live /\ g.current = b /\ g.register = FALSE /\ g.view = b
      /\ g.dangling = (f.dangling \/ (b # "register" /\ ~f.live[b])) /\ g.tokens = f.tokens /\ g.undo = f.undo
      /\ g.failed = f.failed
  BY <1>1 DEF EditExisting, EditBuffer, ShowView, Base, Fields
<1> HIDE DEF g
<1>4. ~g.dangling /\ Base(g)
  BY <1>1, <1>2, <1>3 DEF Base
<1>5. RingOK(g, s, V, K, h)
  <2>1. g.current \in Members(s) /\ g.register \in BOOLEAN /\ g.view = IF g.register THEN "register" ELSE g.current
    BY <1>3
  <2> QED
    BY <1>3, <1>4, <2>1, EditsKnown
<1> QED
  BY <1>3, <1>5 DEF g

(* A step that has nothing to do with the ring.                            *)
LEMMA LoadedSame ==
  ASSUME NEW f, Base(f)
  PROVE  /\ \A b, n : SameRing(f, [f EXCEPT !.name[b] = n]) /\ [f EXCEPT !.name[b] = n].failed = f.failed
         /\ \A b, n : \A how \in {"ok", "unreadable", "interrupted"} :
              SameRing(f, LoadFile(f, b, n, how)) /\ (how = "ok" => LoadFile(f, b, n, how).failed = f.failed)
         /\ SameRing(f, Fail(f))
         /\ \A text : SameRing(f, ChangeText(f, text)) /\ SameRing(f, Fail(ChangeText(f, text)))
<1>1. \A b, n : SameRing(f, [f EXCEPT !.name[b] = n]) /\ [f EXCEPT !.name[b] = n].failed = f.failed
  BY DEF SameRing, SameButTokens, Base, Fields
<1>2. ASSUME NEW b, NEW n, NEW how \in {"ok", "unreadable", "interrupted"}
      PROVE  SameRing(f, LoadFile(f, b, n, how)) /\ (how = "ok" => LoadFile(f, b, n, how).failed = f.failed)
  <2>1. CASE how = "ok"
    BY <2>1 DEF LoadFile, Load, SameRing, SameButTokens, Base, Fields
  <2>2. CASE how = "unreadable"
    BY <2>2 DEF LoadFile, SameRing, SameButTokens, Base, Fields
  <2>3. CASE how = "interrupted"
    BY <2>3 DEF LoadFile, Load, SameRing, SameButTokens, Base, Fields
  <2> QED
    BY <2>1, <2>2, <2>3
<1>3. SameRing(f, Fail(f))
  BY DEF Fail, SameRing, SameButTokens, Base, Fields
<1>4. \A text : SameRing(f, ChangeText(f, text)) /\ SameRing(f, Fail(ChangeText(f, text)))
  BY DEF ChangeText, Fail, SameRing, SameButTokens, Base, Fields
<1> QED
  BY <1>1, <1>2, <1>3, <1>4

(* A buffer of the ring is edited then, or a new one.                      *)
EditedTo(f, s, K, h, g, how) ==
  /\ \E t, W : RingOK(g, t, W, K, h) /\ Members(s) \subseteq Members(t)
  /\ g.register = FALSE /\ g.undo = f.undo /\ (how = "ok" => g.failed = f.failed)

(* teco_ring_edit_by_name(): the first buffer of that name, or a new one.  *)
LEMMA EditedByName ==
  ASSUME NEW f, NEW s, NEW V, NEW K, NEW h, Ready(f, s, V, K, h), Unused(f) # {},
         NEW n, NEW how \in {"ok", "unreadable", "interrupted"},
         f.register /\ f.undo => EditByName(f, n, how).current = f.current
  PROVE  EditedTo(f, s, K, h, EditByName(f, n, how), how)
<1> DEFINE g == EditByName(f, n, how)
           S == NamesakesOf(f, n)
           b == NewAddress(f)
<1>1. Base(f) /\ IsList(f.links, s) /\ InRing(f) = Members(s) /\ s \in Seq(Entries) /\ Distinct(s)
  <2>1. Base(f) /\ IsList(f.links, s)
    BY DEF Ready
  <2>2. InRing(f) = Members(s)
    BY <2>1, OrderIsTheList DEF Members
  <2> QED
    BY <2>1, <2>2 DEF IsList
<1>2. S \subseteq Members(s)
  BY <1>1 DEF NamesakesOf
<1>3. CASE S # {}
  <2> DEFINE c == FirstOf(f, S)
  <2>1. g = EditExisting(f, c)
    BY <1>3 DEF EditByName
  <2>2. c \in Members(s)
    <3> HIDE DEF S
    <3> QED
      BY <1>1, <1>2, <1>3, FirstOfIn
  <2> HIDE DEF c
  <2>3. EditExisting(f, c).current = c
    BY <1>1 DEF EditExisting, EditBuffer, ShowView, Base, Fields
  <2>4. f.register /\ f.undo => c = f.current
    BY <2>1, <2>3
  <2>5. /\ RingOK(EditExisting(f, c), s, V, K, h) /\ EditExisting(f, c).register = FALSE
        /\ EditExisting(f, c).undo = f.undo /\ EditExisting(f, c).failed = f.failed
    <3>1. RingOK(EditExisting(f, c), s, V, K, h)
      BY <2>2, <2>4, EditedExisting
    <3>2. /\ EditExisting(f, c).register = FALSE
          /\ EditExisting(f, c).undo = f.undo /\ EditExisting(f, c).failed = f.failed
      BY <1>1 DEF EditExisting, EditBuffer, ShowView, Base, Fields
    <3> QED
      BY <3>1, <3>2
  <2> HIDE DEF g
  <2> QED
    BY <2>1, <2>5 DEF g, EditedTo
<1>4. CASE S = {}
  <2> DEFINE a == AddBuffer(f, b)
  <2>1. g = AddNamed(f, b, n, how)
    BY <1>4 DEF EditByName
  <2>2. b \in Unused(f)
    BY DEF NewAddress
  <2>3. b \in Entries /\ ~f.live[b]
    BY <2>2 DEF Unused
  <2>4. g \in {LoadFile(a, b, n, how), [a EXCEPT !.name[b] = n]}
    BY <2>1 DEF AddNamed
  <2> HIDE DEF b, g
  <2>5. Base(a) /\ a.current = b
    <3> DEFINE q == EditExisting(NewBuffer(f, b), b)
               t1 == [kind |-> "free", buffer |-> b]
               t2 == [kind |-> "remove", buffer |-> b]
    <3>1. a = Push(Push(q, t1), t2)
      BY DEF AddBuffer
    <3>2. Base(q) /\ q.current = b
      <4>1. f.live \in [Entries -> BOOLEAN] /\ ~f.dangling
        BY DEF Ready
      <4> QED
        BY <1>1, <2>3, <4>1, AddedFields
    <3> HIDE DEF q, t1, t2, a
    <3>3. Base(Push(q, t1)) /\ SameButTokens(q, Push(q, t1))
      BY <3>2, PushFields
    <3>4. Base(Push(Push(q, t1), t2)) /\ SameButTokens(Push(q, t1), Push(Push(q, t1), t2))
      BY <3>3, PushFields
    <3> QED
      BY <3>1, <3>2, <3>3, <3>4 DEF SameButTokens
  <2> HIDE DEF a
  <2>6. SameRing(a, g) /\ (how = "ok" => g.failed = a.failed)
    <3>1. SameRing(a, [a EXCEPT !.name[b] = n]) /\ [a EXCEPT !.name[b] = n].failed = a.failed
      BY <2>5, LoadedSame
    <3>2. SameRing(a, LoadFile(a, b, n, how)) /\ (how = "ok" => LoadFile(a, b, n, how).failed = a.failed)
      BY <2>5, LoadedSame
    <3> QED
      BY <2>4, <3>1, <3>2
  <2>7. ~(f.register /\ f.undo)
    <3>1. f.live[f.current]
      BY DEF Ready
    <3>2. g.current = b
      BY <2>5, <2>6 DEF SameRing, SameButTokens
    <3> QED
      BY <2>3, <3>1, <3>2 DEF g
  <2>8. /\ \E W : RingOK(a, Append(s, b), W, K, h)
        /\ a.register = FALSE /\ a.undo = f.undo /\ a.failed = f.failed
    BY <2>3, <2>7, ReadyAdd DEF a
  <2>9. PICK W : RingOK(a, Append(s, b), W, K, h)
    BY <2>8
  <2>10. RingOK(g, Append(s, b), W, K, h)
    BY <2>6, <2>9, RingStays
  <2>11. Members(s) \subseteq Members(Append(s, b))
    <3>1. b \notin Members(s)
      BY <2>3 DEF Ready, Allocated
    <3> QED
      BY <1>1, <2>3, <3>1, AppendOne
  <2>12. g.register = FALSE /\ g.undo = f.undo /\ (how = "ok" => g.failed = f.failed)
    BY <2>6, <2>8 DEF SameRing, SameButTokens
  <2> QED
    BY <2>10, <2>11, <2>12 DEF g, EditedTo
<1> QED
  BY <1>3, <1>4

(* The tokens of teco_undo_ring_edit() leave as many addresses unused.     *)
LEMMA StillUnused ==
  ASSUME NEW e, NEW s, NEW V, NEW K, NEW h, RingOK(e, s, V, K, h)
  PROVE  Unused(UndoShow(e)) = Unused(e) /\ Unused(UndoEdit(e)) = Unused(e)
<1>1. Base(e) /\ e.live[e.current] /\ e.current \in Entries
  BY RingFacts DEF Allocated
<1>2. ASSUME NEW f, Base(f), f.live = e.live, NEW t, t.kind \in Kinds,
             t.kind \in {"free", "show", "remove", "reinsert", "dirty", "name"} => t.buffer \notin Entries \/ e.live[t.buffer]
      PROVE  Unused(Push(f, t)) = Unused(f) /\ Push(f, t).live = e.live /\ Base(Push(f, t))
  <2>1. /\ SameButTokens(f, Push(f, t)) /\ Base(Push(f, t)) /\ (~f.undo => Push(f, t) = f)
        /\ Push(f, t).tokens = IF f.undo THEN Append(f.tokens, t) ELSE f.tokens
    BY <1>2, PushFields
  <2> DEFINE p == Push(f, t)
  <2> HIDE DEF p
  <2>2. CASE ~f.undo
    BY <1>2, <2>1, <2>2
  <2>3. CASE f.undo
    <3>1. PICK T : f.tokens \in Seq(T)
      BY <1>2 DEF Base, IsSequence
    <3>2. p.tokens = Append(f.tokens, t) /\ p.live = f.live
      BY <2>1, <2>3 DEF p, SameButTokens
    <3>3. ToSet(Append(f.tokens, t)) = ToSet(f.tokens) \cup {t}
      <4> DEFINE u == Append(f.tokens, t)
                 N == Len(f.tokens)
      <4>1. /\ Len(u) = N + 1 /\ N \in Nat /\ u[N + 1] = t /\ (\A i \in 1 .. N : u[i] = f.tokens[i])
            /\ DOMAIN u = 1 .. (N + 1) /\ DOMAIN f.tokens = 1 .. N
        <5>1. IsSequence(u) /\ Len(u) = N + 1 /\ N \in Nat /\ u[N + 1] = t /\ \A i \in 1 .. N : u[i] = f.tokens[i]
          BY <1>2, AppendSequence DEF Base
        <5>2. DOMAIN u = 1 .. Len(u) /\ DOMAIN f.tokens = 1 .. N
          BY <3>1, <5>1 DEF IsSequence
        <5> HIDE DEF u
        <5> QED
          BY <5>1, <5>2
      <4> HIDE DEF u, N
      <4>2. \A i \in 1 .. (N + 1) : i \in 1 .. N \/ i = N + 1
        BY <4>1
      <4>3. N + 1 \in 1 .. (N + 1) /\ \A i \in 1 .. N : i \in 1 .. (N + 1)
        BY <4>1
      <4>4. ToSet(u) = {u[i] : i \in 1 .. (N + 1)} /\ ToSet(f.tokens) = {f.tokens[i] : i \in 1 .. N}
        BY <4>1 DEF ToSet
      <4>5. \A x : x \in ToSet(u) => x \in ToSet(f.tokens) \cup {t}
        BY <4>1, <4>2, <4>4
      <4>6. \A x : x \in ToSet(f.tokens) \cup {t} => x \in ToSet(u)
        BY <4>1, <4>3, <4>4
      <4> QED
        BY <4>5, <4>6 DEF u
    <3>4. \A x : x \in Mentioned(p) => x \in Mentioned(f) \/ x \notin Entries \/ e.live[x]
      BY <1>2, <3>2, <3>3 DEF Mentioned
    <3>5. \A x : x \in Mentioned(f) => x \in Mentioned(p)
      BY <3>2, <3>3 DEF Mentioned
    <3>6. Unused(p) = Unused(f)
      BY <1>2, <3>2, <3>4, <3>5 DEF Unused
    <3> QED
      BY <1>2, <2>1, <3>2, <3>6 DEF p
  <2> QED
    BY <1>2, <2>1, <2>2, <2>3 DEF SameButTokens
<1> DEFINE t1 == [kind |-> "register", old |-> e.register]
           t2 == [kind |-> "current", old |-> e.current]
           t3 == [kind |-> "show", buffer |-> e.current]
           u1 == [kind |-> "register", old |-> TRUE]
           u2 == [kind |-> "show", buffer |-> "register"]
<1>3. /\ t1.kind = "register" /\ t2.kind = "current" /\ t3.kind = "show" /\ t3.buffer = e.current
      /\ u1.kind = "register" /\ u2.kind = "show" /\ u2.buffer = "register" /\ "register" \notin Entries
      /\ {"register", "current", "show"} \subseteq Kinds
  BY AddressesAssumption DEF Kinds
<1>4. UndoShow(e) = Push(Push(Push(e, t1), t2), t3)
  BY DEF UndoShow
<1>5. e.register => UndoEdit(e) = Push(Push(e, u1), u2)
  BY DEF UndoEdit
<1>6. ~e.register => UndoEdit(e) = UndoShow(e)
  BY DEF UndoEdit
<1> HIDE DEF t1, t2, t3, u1, u2
<1>7. Unused(Push(e, t1)) = Unused(e) /\ Push(e, t1).live = e.live /\ Base(Push(e, t1))
  BY <1>1, <1>2, <1>3
<1>8. Unused(Push(Push(e, t1), t2)) = Unused(e) /\ Push(Push(e, t1), t2).live = e.live /\ Base(Push(Push(e, t1), t2))
  BY <1>2, <1>3, <1>7
<1>9. Unused(Push(Push(Push(e, t1), t2), t3)) = Unused(e)
  BY <1>1, <1>2, <1>3, <1>8
<1>10. Unused(Push(e, u1)) = Unused(e) /\ Push(e, u1).live = e.live /\ Base(Push(e, u1))
  BY <1>1, <1>2, <1>3
<1>11. Unused(Push(Push(e, u1), u2)) = Unused(e)
  BY <1>2, <1>3, <1>10
<1> QED
  BY <1>4, <1>5, <1>6, <1>9, <1>11

(* teco_ring_edit().                                                       *)
LEMMA EditedFile ==
  ASSUME NEW e, NEW s, NEW V, NEW K, NEW h, RingOK(e, s, V, K, h), Unused(e) # {},
         NEW n, NEW how \in {"ok", "unreadable", "interrupted"},
         e.register /\ e.undo => Edit(e, n, how).current = e.current
  PROVE  \E t, W : /\ RingOK(Edit(e, n, how), t, W, K, h) /\ Members(s) \subseteq Members(t)
                   /\ Edit(e, n, how).register = FALSE /\ Edit(e, n, how).undo = e.undo
<1> DEFINE f == UndoEdit(e)
<1>1. Ready(f, s, V, K, h) /\ SameButTokens(e, f)
  BY EditPushed
<1>2. Unused(f) # {}
  BY StillUnused
<1>3. Edit(e, n, how) = EditByName(f, n, how)
  BY DEF Edit
<1>4. f.register /\ f.undo => EditByName(f, n, how).current = f.current
  BY <1>1, <1>3 DEF SameButTokens
<1> HIDE DEF f
<1> DEFINE g == EditByName(f, n, how)
<1>5. EditedTo(f, s, K, h, g, how)
  BY <1>1, <1>2, <1>4, EditedByName
<1> HIDE DEF g
<1>6. /\ \E t, W : RingOK(g, t, W, K, h) /\ Members(s) \subseteq Members(t)
      /\ g.register = FALSE /\ g.undo = e.undo
  BY <1>1, <1>5 DEF SameButTokens, EditedTo
<1> QED
  BY <1>3, <1>6 DEF g

(* EB with an id.                                                          *)
LEMMA EditedById ==
  ASSUME NEW e, NEW s, NEW V, NEW K, NEW h, RingOK(e, s, V, K, h), NEW b \in Members(s),
         e.register /\ e.undo => b = e.current
  PROVE  LET g == EditExisting(UndoEdit(e), b) IN
           RingOK(g, s, V, K, h) /\ g.register = FALSE /\ g.undo = e.undo
<1> DEFINE f == UndoEdit(e)
           g == EditExisting(f, b)
<1>1. Ready(f, s, V, K, h) /\ SameButTokens(e, f)
  BY EditPushed
<1> HIDE DEF f
<1>2. f.register /\ f.undo => b = f.current
  BY <1>1 DEF SameButTokens
<1>3. RingOK(g, s, V, K, h)
  BY <1>1, <1>2, EditedExisting
<1>4. g.register = FALSE /\ g.undo = f.undo
  BY <1>1 DEF EditExisting, EditBuffer, ShowView, SameButTokens, Fields
<1> HIDE DEF g
<1>5. g.undo = e.undo
  BY <1>1, <1>4 DEF SameButTokens
<1> QED
  BY <1>3, <1>4, <1>5 DEF g, f

(* EQ.                                                                     *)
LEMMA EditedRegister ==
  ASSUME NEW e, NEW s, NEW V, NEW K, NEW h, RingOK(e, s, V, K, h)
  PROVE  RingOK(ShowView([UndoEdit(e) EXCEPT !.register = TRUE], "register"), s, V, K, h)
<1> DEFINE f == UndoEdit(e)
           g == ShowView([f EXCEPT !.register = TRUE], "register")
<1>1. Ready(f, s, V, K, h) /\ SameButTokens(e, f)
  BY EditPushed
<1> HIDE DEF f
<1>2. /\ DOMAIN g = Fields /\ g.links = f.links /\ g.live = f.live /\ g.undo = f.undo /\ g.tokens = f.tokens
      /\ g.current = f.current /\ g.register /\ g.register = TRUE /\ g.view = "register"
      /\ (g.dangling <=> f.dangling)
  <2> DEFINE q == [f EXCEPT !.register = TRUE]
  <2>1. /\ DOMAIN q = Fields /\ q.links = f.links /\ q.live = f.live /\ q.undo = f.undo /\ q.tokens = f.tokens
        /\ q.current = f.current /\ q.register = TRUE /\ q.dangling = f.dangling
    BY <1>1 DEF SameButTokens, Fields
  <2> HIDE DEF q
  <2>2. /\ DOMAIN ShowView(q, "register") = Fields /\ ShowView(q, "register").links = q.links
        /\ ShowView(q, "register").live = q.live /\ ShowView(q, "register").undo = q.undo
        /\ ShowView(q, "register").tokens = q.tokens /\ ShowView(q, "register").current = q.current
        /\ ShowView(q, "register").register = q.register /\ ShowView(q, "register").view = "register"
    BY <2>1 DEF ShowView, Fields
  <2>3. ShowView(q, "register").dangling <=> q.dangling
    BY <2>1 DEF ShowView, Fields
  <2> QED
    BY <2>1, <2>2, <2>3 DEF q
<1> HIDE DEF g
<1>3. Base(g) /\ ~g.dangling
  BY <1>1, <1>2 DEF Ready, Base
<1>4. g.current \in Members(s)
  <2>1. e.current \in Members(s)
    BY RingFacts
  <2> QED
    BY <1>1, <1>2, <2>1 DEF SameButTokens
<1>5. g.register \in BOOLEAN /\ g.view = IF g.register THEN "register" ELSE g.current
  BY <1>2
<1>6. RingOK(g, s, V, K, h)
  BY <1>1, <1>2, <1>3, <1>4, <1>5, EditsKnown
<1> QED
  BY <1>6 DEF g, f

(* The buffer after or before the one that is removed is one of the ring.  *)
LEMMA SuccessorIn ==
  ASSUME NEW l \in Links, NEW s, IsList(l, s), NEW k \in 1 .. Len(s),
         Successor(RemoveEntry(l, s[k]), s[k]) \in Entries
  PROVE  Successor(RemoveEntry(l, s[k]), s[k]) \in Members(RemoveAt(s, k))
<1> DEFINE b == s[k]
           m == RemoveEntry(l, b)
           t == RemoveAt(s, k)
           n == Len(s)
<1>1. s \in Seq(Entries) /\ Distinct(s) /\ n \in Nat /\ k \in 1 .. n
  BY DEF IsList
<1>2. /\ t \in Seq(Entries) /\ Len(t) = n - 1
      /\ \A i \in 1..(n - 1) : t[i] = IF i < k THEN s[i] ELSE s[i + 1]
  BY <1>1, RemoveAtProps
<1>3. m \in Links /\ IsList(m, t) /\ m.next[b] = NextOf(s, k)
  BY <1>1, RemoveEntryRemoves
<1>4. NextOf(s, k) \in Members(t) \cup {Null} /\ b \in Entries
  BY <1>1, WithoutOne
<1>5. m.prev[b] = NodeOf(s, k - 1)
  <2>1. l.prev[b] = NodeOf(s, k - 1)
    BY <1>1 DEF IsList
  <2>2. b \in Nodes /\ l.prev \in [Nodes -> Nodes \cup {Null}]
    BY <1>4 DEF Nodes, Links
  <2> QED
    BY <2>1, <2>2 DEF RemoveEntry
<1> HIDE DEF m, b, t, n
<1>6. CASE m.next[b] # Null
  <2>1. Successor(m, b) = m.next[b]
    BY <1>6 DEF Successor, After
  <2> QED
    BY <1>3, <1>4, <1>6, <2>1 DEF m, b, t
<1>7. CASE m.next[b] = Null
  <2>1. Successor(m, b) = m.next[m.prev[m.prev[b]]]
    BY <1>7 DEF Successor, After, Before
  <2>2. k = n
    <3> SUFFICES ASSUME k # n PROVE FALSE
      OBVIOUS
    <3>1. NextOf(s, k) = s[k + 1] /\ k + 1 \in 1 .. n
      BY <1>1 DEF NextOf, n
    <3>2. s[k + 1] \in Entries
      BY <1>1, <3>1 DEF n
    <3> QED
      BY <1>3, <1>7, <3>1, <3>2, TailqAssumption
  <2>3. CASE k = 1
    <3>1. Len(t) = 0 /\ m.prev[b] = Root
      BY <1>1, <1>2, <1>5, <2>2, <2>3 DEF NodeOf
    <3>2. m.prev[Root] = Root
      BY <1>3, <3>1 DEF IsList, NodeOf
    <3>3. m.next[Root] = Null
      <4>1. 0 \in 0 .. Len(t) /\ NodeOf(t, 0) = Root /\ NextOf(t, 0) = Null
        BY <3>1 DEF NodeOf, NextOf
      <4> QED
        BY <1>3, <4>1 DEF IsList
    <3>4. Successor(m, b) = Null
      BY <2>1, <3>1, <3>2, <3>3
    <3> QED
      BY <3>4, TailqAssumption DEF m, b
  <2>4. CASE k # 1
    <3>1. k - 1 \in 1 .. Len(t) /\ k - 1 = Len(t) /\ k - 2 \in 0 .. Len(t) /\ k - 2 # Len(t) /\ k - 2 + 1 = k - 1 /\ k - 1 < k /\ k - 1 - 1 = k - 2 /\ k - 1 # 0
      BY <1>1, <1>2, <2>2, <2>4
    <3>2. m.prev[b] = s[k - 1] /\ t[k - 1] = s[k - 1]
      BY <1>1, <1>2, <1>5, <3>1, <2>2 DEF NodeOf
    <3>3. m.prev[t[k - 1]] = NodeOf(t, k - 2)
      BY <1>3, <3>1 DEF IsList
    <3>4. m.next[NodeOf(t, k - 2)] = t[k - 1]
      <4>1. NextOf(t, k - 2) = t[k - 1]
        BY <3>1 DEF NextOf
      <4>2. m.next[NodeOf(t, k - 2)] = NextOf(t, k - 2)
        BY <1>3, <3>1 DEF IsList
      <4> QED
        BY <4>1, <4>2
    <3>5. Successor(m, b) = t[k - 1]
      BY <2>1, <3>2, <3>3, <3>4
    <3>6. t[k - 1] \in Members(t)
      BY <3>1 DEF Members
    <3> QED
      BY <3>5, <3>6 DEF m, b, t
  <2> QED
    BY <2>3, <2>4
<1> QED
  BY <1>6, <1>7

(* Pushing a token changes nothing else.                                   *)
LEMMA PushFailed ==
  ASSUME NEW e, Base(e), NEW t PROVE Push(e, t).failed = e.failed
BY DEF Push, Base, Fields

LEMMA ShowFailed ==
  ASSUME NEW e, Base(e) PROVE UndoShow(e).failed = e.failed
<1> DEFINE t1 == [kind |-> "register", old |-> e.register]
           t2 == [kind |-> "current", old |-> e.current]
           t3 == [kind |-> "show", buffer |-> e.current]
           e1 == Push(e, t1)
           e2 == Push(e1, t2)
<1>1. UndoShow(e) = Push(e2, t3)
  BY DEF UndoShow
<1> HIDE DEF t1, t2, t3
<1>2. Base(e1) /\ e1.failed = e.failed
  BY PushFields, PushFailed
<1> HIDE DEF e1
<1>3. Base(e2) /\ e2.failed = e1.failed
  BY <1>2, PushFields, PushFailed
<1> HIDE DEF e2
<1>4. Push(e2, t3).failed = e2.failed
  BY <1>3, PushFailed
<1> QED
  BY <1>1, <1>2, <1>3, <1>4

(* The current buffer has been closed, but its hooks have not returned.    *)
LEMMA ClosedCurrent ==
  ASSUME NEW e, NEW s, NEW h, RingOK(e, s, s, {}, h), ~e.register, Unused(e) # {}, NEW k \in 1 .. Len(s)
  PROVE  LET g == CloseCurrent(e, s[k]) IN
           /\ \E t, W : RingOK(g, t, W, {s[k]}, h)
           /\ g.failed = e.failed /\ g.register = FALSE
<1> DEFINE b == s[k]
           u == UndoShow(e)
           f == RemoveBuffer(u, b)
           t == RemoveAt(s, k)
           next == Successor(f.links, b)
           g == CloseCurrent(e, b)
<1>1. Ready(u, s, s, {}, h) /\ SameButTokens(e, u) /\ u.failed = e.failed /\ Unused(u) # {}
  BY ShowPushed, ShowFailed, StillUnused DEF RingOK
<1>2. g = IF next \notin Entries THEN EditByName(f, NoName, "ok") ELSE EditBuffer(f, next)
  BY DEF CloseCurrent
<1> HIDE DEF u
<1>3. Base(u) /\ u.links \in Links /\ IsList(u.links, s) /\ u.register = e.register
  BY <1>1 DEF Ready, SameButTokens
<1>4. Ready(f, t, s, {b}, h)
  BY <1>1, ReadyRemove
<1>5. f.live = u.live /\ f.tokens = u.tokens /\ f.register = u.register /\ f.failed = u.failed /\ DOMAIN f = Fields
  BY <1>3 DEF RemoveBuffer, Base, Fields
<1>6. f.links = RemoveEntry(u.links, b)
  BY <1>3 DEF RemoveBuffer, Base, Fields
<1>7. Unused(f) # {}
  BY <1>1, <1>5 DEF Unused, Mentioned
<1>8. next \in Entries => next \in Members(t)
  BY <1>3, <1>6, SuccessorIn
<1> HIDE DEF f, g, next, t, b
<1>9. ~f.register
  BY <1>3, <1>5
<1>10. CASE next \notin Entries
  <2>1. g = EditByName(f, NoName, "ok")
    BY <1>2, <1>10
  <2>2. "ok" \in {"ok", "unreadable", "interrupted"}
    OBVIOUS
  <2>3. f.register /\ f.undo => EditByName(f, NoName, "ok").current = f.current
    BY <1>9
  <2> DEFINE q == EditByName(f, NoName, "ok")
  <2>4. EditedTo(f, t, {b}, h, q, "ok")
    BY <1>4, <1>7, <2>2, <2>3, EditedByName
  <2> HIDE DEF q
  <2>5. g = q
    BY <2>1 DEF q
  <2> QED
    BY <1>1, <1>5, <2>4, <2>5 DEF g, b, EditedTo
<1>11. CASE next \in Entries
  <2>1. g = EditBuffer(f, next)
    BY <1>2, <1>11
  <2>2. Base(f) /\ ~f.dangling /\ f.live[next]
    BY <1>4, <1>8, <1>11 DEF Ready, Allocated
  <2>3. /\ DOMAIN g = Fields /\ g.links = f.links /\ g.live = f.live /\ g.undo = f.undo /\ g.tokens = f.tokens
        /\ g.current = next /\ g.register = f.register /\ g.view = next /\ g.failed = f.failed
        /\ g.dangling = (f.dangling \/ (next # "register" /\ ~f.live[next]))
    BY <2>1, <2>2 DEF EditBuffer, ShowView, Base, Fields
  <2>4. Base(g) /\ ~g.dangling
    BY <2>2, <2>3 DEF Base
  <2>5. g.register \in BOOLEAN /\ g.view = (IF g.register THEN "register" ELSE g.current) /\ g.current \in Members(t)
    BY <1>4, <1>8, <1>9, <1>11, <2>3 DEF Ready
  <2>6. f.register /\ f.undo => g.current = f.current
    BY <1>9
  <2>7. RingOK(g, t, s, {b}, h)
    BY <1>4, <2>3, <2>4, <2>5, <2>6, EditsKnown
  <2>8. g.failed = e.failed /\ g.register = FALSE
    <3>1. f.register \in BOOLEAN
      BY <1>4 DEF Ready
    <3> QED
      BY <1>1, <1>5, <1>9, <2>3, <3>1
  <2> QED
    BY <2>7, <2>8 DEF g, b
<1> QED
  BY <1>10, <1>11

-----------------------------------------------------------------------------
(* The functions that have not returned.                                   *)

(* The buffer that is being closed.                                        *)
Closing(c) == {c[i].buffer : i \in {j \in 1 .. Len(c) : c[j].kind = "closing"}}

(* Only commands outside of hooks close buffers.  While one is saved for   *)
(* that, no hook runs, and a register is not edited while one waits for    *)
(* hooks, nor between the files of EB if the tokens would not lead back.   *)
Savings == {"saved", "save", "open", "write"}
FrameFit(e, x, i) ==
  /\ "kind" \in DOMAIN x
  /\ x.kind = "files" => ~(e.register /\ e.undo)
  /\ x.kind \in {"close", "closing", "saved"} => i = 1
  /\ x.kind = "close" => ~e.register /\ x.buffer \in InRing(e)
  /\ x.kind = "saved" => x.buffer \in InRing(e) /\ (e.register => x.buffer # e.current)
OnlySaves(c) ==
  \A i \in 1 .. Len(c) : c[i].kind = "saved" => \A j \in 1 .. Len(c) : c[j].kind \in Savings
Fit(e, c) == IsSequence(c) /\ (\A i \in 1 .. Len(c) : FrameFit(e, c[i], i)) /\ OnlySaves(c)
NotSaving(c) == c # <<>> => Last(c).kind \notin Savings

LEMMA NothingFits == ASSUME NEW e PROVE Fit(e, <<>>) /\ Closing(<<>>) = {} /\ NotSaving(<<>>)
<1>1. IsSequence(<<>>) /\ Len(<<>>) = 0
  BY DEF IsSequence
<1> QED
  BY <1>1 DEF Fit, OnlySaves, Closing, NotSaving

(* No hook runs while a buffer is saved to be closed.                      *)
LEMMA NoneSaved ==
  ASSUME NEW e, NEW c, Fit(e, c), NotSaving(c)
  PROVE  \A i \in 1 .. Len(c) : c[i].kind # "saved"
<1> SUFFICES ASSUME NEW i \in 1 .. Len(c), c[i].kind = "saved" PROVE FALSE
  OBVIOUS
<1>1. PICK T : c \in Seq(T)
  BY DEF Fit, IsSequence
<1>2. c # <<>> /\ Len(c) \in 1 .. Len(c)
  BY <1>1
<1>3. Last(c) = c[Len(c)]
  BY <1>2, FrontSequence DEF Fit
<1> QED
  BY <1>2, <1>3 DEF Fit, OnlySaves, NotSaving

(* The ring has grown, or something else has been edited.                  *)
LEMMA FitStays ==
  ASSUME NEW e, NEW c, Fit(e, c), NEW f, f.undo = e.undo, f.register => e.register,
         InRing(e) \subseteq InRing(f), f.current = e.current \/ NotSaving(c)
  PROVE  Fit(f, c)
<1> SUFFICES ASSUME NEW i \in 1 .. Len(c) PROVE FrameFit(f, c[i], i)
  BY DEF Fit
<1>1. FrameFit(e, c[i], i)
  BY DEF Fit
<1>2. c[i].kind = "saved" => f.current = e.current
  BY NoneSaved
<1> DEFINE x == c[i]
<1> HIDE DEF x
<1> QED
  BY <1>1, <1>2 DEF FrameFit, x

(* A function returns.                                                     *)
LEMMA FitFront ==
  ASSUME NEW e, NEW c, Fit(e, c), c # <<>>
  PROVE  /\ Fit(e, Front(c)) /\ FrameFit(e, Last(c), Len(c))
         /\ Last(c).kind # "closing" => Closing(Front(c)) = Closing(c)
         /\ Last(c).kind \in {"close", "closing", "saved"} => Front(c) = <<>> /\ Len(c) = 1
         /\ Last(c).kind = "closing" => Closing(c) = {Last(c).buffer}
<1> DEFINE n == Len(c)
           d == Front(c)
<1>1. /\ IsSequence(d) /\ Len(d) = n - 1 /\ n \in Nat \ {0}
      /\ Last(c) = c[n] /\ \A i \in 1 .. (n - 1) : d[i] = c[i]
  BY FrontSequence DEF Fit
<1> HIDE DEF d
<1>2. n \in 1 .. n /\ \A i \in 1 .. (n - 1) : i \in 1 .. n
  BY <1>1
<1>3. Fit(e, d)
  BY <1>1, <1>2 DEF Fit, OnlySaves
<1>4. FrameFit(e, c[n], n)
  BY <1>2 DEF Fit
<1>5. ASSUME c[n].kind # "closing" PROVE Closing(d) = Closing(c)
  <2>1. \A i \in 1 .. n : c[i].kind = "closing" => i \in 1 .. (n - 1)
    BY <1>1, <1>5
  <2> QED
    BY <1>1, <1>2, <2>1 DEF Closing
<1>6. c[n].kind \in {"close", "closing", "saved"} => n = 1
  BY <1>4 DEF FrameFit
<1>7. n = 1 => d = <<>>
  <2> SUFFICES ASSUME n = 1 PROVE d = <<>>
    OBVIOUS
  <2>1. PICK T : d \in Seq(T)
    BY <1>1 DEF IsSequence
  <2> QED
    BY <1>1, <2>1
<1>8. n = 1 /\ c[n].kind = "closing" => Closing(c) = {c[n].buffer}
  <2> SUFFICES ASSUME n = 1, c[n].kind = "closing" PROVE Closing(c) = {c[1].buffer}
    OBVIOUS
  <2>1. {j \in 1 .. Len(c) : c[j].kind = "closing"} = {1}
    BY <1>1
  <2> QED
    BY <2>1 DEF Closing
<1> QED
  BY <1>1, <1>3, <1>4, <1>5, <1>6, <1>7, <1>8 DEF d

(* A function is called.                                                   *)
LEMMA FitAppend ==
  ASSUME NEW e, NEW c, Fit(e, c), NEW x, FrameFit(e, x, Len(c) + 1), x.kind \in Savings \/ NotSaving(c)
  PROVE  /\ Fit(e, Append(c, x))
         /\ x.kind # "closing" => Closing(Append(c, x)) = Closing(c)
         /\ x.kind = "closing" => Closing(Append(c, x)) = {x.buffer}
         /\ x.kind \notin Savings => NotSaving(Append(c, x))
<1> DEFINE n == Len(c)
           d == Append(c, x)
<1>1. /\ IsSequence(d) /\ Len(d) = n + 1 /\ n \in Nat /\ d[n + 1] = x /\ \A i \in 1 .. n : d[i] = c[i]
  BY AppendSequence DEF Fit
<1> HIDE DEF d
<1>0. d # <<>> /\ Last(d) = x
  <2>1. d # <<>>
    <3> SUFFICES ASSUME d = <<>> PROVE FALSE
      OBVIOUS
    <3>1. Len(d) = 0 /\ Len(d) = n + 1 /\ n \in Nat
      BY <1>1
    <3> QED
      BY <3>1
  <2>2. Last(d) = d[(n + 1)]
    <3>1. Last(d) = d[Len(d)]
      BY <1>1, <2>1, FrontSequence
    <3>2. Len(d) = (n + 1)
      BY <1>1
    <3> QED
      BY <3>1, <3>2
  <2> QED
    BY <1>1, <2>1, <2>2
<1>2. n + 1 \in 1 .. (n + 1) /\ \A i \in 1 .. (n + 1) : i \in 1 .. n \/ i = n + 1
  BY <1>1
<1>3. \A i \in 1 .. n : i \in 1 .. (n + 1)
  BY <1>1
<1>4. \A i \in 1 .. (n + 1) : FrameFit(e, d[i], i)
  BY <1>1, <1>2 DEF Fit
<1>5. ASSUME NEW i \in 1 .. (n + 1), d[i].kind = "saved", NEW j \in 1 .. (n + 1)
      PROVE  d[j].kind \in Savings
  <2>1. CASE x.kind \in Savings
    <3>1. CASE i = n + 1
      <4>1. FrameFit(e, d[i], i)
        BY <1>4
      <4>2. d[i].kind = "saved"
        BY <1>5
      <4>3. i = 1
        BY <4>1, <4>2 DEF FrameFit
      <4>4. n \in Nat
        BY <1>1
      <4>5. j = n + 1
        <5> HIDE DEF n
        <5> QED
          BY <3>1, <4>3, <4>4
      <4> QED
        BY <1>1, <2>1, <4>5
    <3>2. CASE i \in 1 .. n
      BY <1>1, <1>2, <1>5, <2>1, <3>2 DEF Fit, OnlySaves
    <3> QED
      BY <1>2, <3>1, <3>2
  <2>2. CASE x.kind \notin Savings
    <3>1. \A k \in 1 .. n : c[k].kind # "saved"
      BY <2>2, NoneSaved
    <3>2. x.kind # "saved"
      BY <2>2 DEF Savings
    <3> QED
      BY <1>1, <1>2, <1>5, <3>1, <3>2
  <2> QED
    BY <2>1, <2>2
<1>6. Fit(e, d)
  BY <1>1, <1>4, <1>5 DEF Fit, OnlySaves
<1>7. x.kind # "closing" => Closing(d) = Closing(c)
  <2> SUFFICES ASSUME x.kind # "closing" PROVE Closing(d) = Closing(c)
    OBVIOUS
  <2>1. \A i \in 1 .. (n + 1) : d[i].kind = "closing" => i \in 1 .. n
    BY <1>1, <1>2
  <2> QED
    BY <1>1, <1>3, <2>1 DEF Closing
<1>8. x.kind = "closing" => Closing(d) = {x.buffer}
  <2> SUFFICES ASSUME x.kind = "closing" PROVE Closing(d) = {x.buffer}
    OBVIOUS
  <2>1. n + 1 = 1
    BY <1>1 DEF FrameFit
  <2>2. {j \in 1 .. Len(d) : d[j].kind = "closing"} = {1}
    BY <1>1, <2>1
  <2> QED
    BY <1>1, <2>1, <2>2 DEF Closing
<1> QED
  BY <1>0, <1>6, <1>7, <1>8 DEF d, NotSaving

(* EB goes on with the next file.                                          *)
LEMMA FitRest ==
  ASSUME NEW e, NEW c, Fit(e, c), c # <<>>, Last(c).kind = "files", NEW r
  PROVE  LET d == [c EXCEPT ![Len(c)].rest = r] IN
           Fit(e, d) /\ Closing(d) = Closing(c) /\ NotSaving(d)
<1> DEFINE n == Len(c)
           x == [c[n] EXCEPT !.rest = r]
           d == [c EXCEPT ![n] = x]
<1>1. PICK T : c \in Seq(T)
  BY DEF Fit, IsSequence
<1>2. n \in 1 .. n /\ n \in Nat /\ Last(c) = c[n]
  BY <1>1, FrontSequence DEF Fit
<1>3. FrameFit(e, c[n], n) /\ c[n].kind = "files"
  BY <1>2 DEF Fit
<1>4. x.kind = "files" /\ FrameFit(e, x, n)
  <2>1. "kind" \in DOMAIN x /\ x.kind = "files"
    BY <1>3 DEF FrameFit
  <2> HIDE DEF x
  <2> QED
    BY <1>3, <2>1 DEF FrameFit
<1> HIDE DEF x, n
<1> DEFINE U == T \cup {x}
<1>5. c \in Seq(U) /\ x \in U
  BY <1>1
<1> HIDE DEF U
<1>6. d \in Seq(U) /\ Len(d) = n /\ \A j \in 1 .. n : d[j] = IF j = n THEN x ELSE c[j]
  BY <1>5, ExceptProps DEF n
<1>7. d = [c EXCEPT ![n].rest = r]
  BY DEF x
<1> HIDE DEF d
<1>8. \A j \in 1 .. n : d[j].kind = c[j].kind /\ (d[j] = c[j] \/ j = n)
  BY <1>3, <1>4, <1>6
<1>9. Fit(e, d)
  <2>1. \A j \in 1 .. n : FrameFit(e, d[j], j)
    BY <1>4, <1>6 DEF Fit, n
  <2>2. OnlySaves(d)
    BY <1>6, <1>8 DEF Fit, OnlySaves, n
  <2> QED
    BY <1>6, <2>1, <2>2 DEF Fit, IsSequence
<1>10. Closing(d) = Closing(c)
  <2>1. \A j \in 1 .. n : d[j].kind = "closing" => d[j] = c[j]
    BY <1>3, <1>8
  <2>2. \A j \in 1 .. n : c[j].kind = "closing" => d[j] = c[j]
    BY <1>3, <1>8
  <2> QED
    BY <1>6, <1>8, <2>1, <2>2 DEF Closing, n
<1>11. NotSaving(d)
  <2> SUFFICES ASSUME d # <<>> PROVE Last(d).kind \notin Savings
    BY DEF NotSaving
  <2>1. Last(d) = d[n]
    BY <1>6, <1>9, FrontSequence DEF Fit
  <2> QED
    BY <1>2, <1>4, <1>6, <2>1 DEF Savings
<1> QED
  BY <1>7, <1>9, <1>10, <1>11 DEF n

-----------------------------------------------------------------------------
(* Texts and files.                                                        *)

(* What has nothing to do with the ring, and its undo tokens.              *)
Plain(e, f) ==
  /\ Base(f) /\ SameButTokens(e, f)
  /\ \A s, V, K, h : RingOK(e, s, V, K, h) => RingOK(f, s, V, K, h)

LEMMA PlainItself == ASSUME NEW e, Base(e) PROVE Plain(e, e)
BY DEF Plain, SameButTokens, Base

LEMMA PlainFields ==
  ASSUME NEW e, NEW f, Plain(e, f), NEW g, SameRing(f, g) PROVE Plain(e, g)
<1>1. Base(g) /\ SameButTokens(e, g)
  BY DEF Plain, Base, SameRing, SameButTokens
<1>2. ASSUME NEW s, NEW V, NEW K, NEW h, RingOK(e, s, V, K, h) PROVE RingOK(g, s, V, K, h)
  <2>1. RingOK(f, s, V, K, h)
    BY <1>2 DEF Plain
  <2> QED
    BY <2>1, RingStays
<1> QED
  BY <1>1, <1>2 DEF Plain

LEMMA PlainToken ==
  ASSUME NEW e, NEW f, Plain(e, f), NEW t, t.kind \in PlainKinds, t.kind = "undo" => ~e.register
  PROVE  Plain(e, Push(f, t))
<1> DEFINE g == Push(f, t)
<1>1. SameButTokens(f, g) /\ Base(g)
  BY PushFields DEF Plain
<1>3. t.kind = "undo" => ~f.register
  BY DEF Plain, SameButTokens
<1>4. ASSUME NEW s, NEW V, NEW K, NEW h, RingOK(e, s, V, K, h) PROVE RingOK(g, s, V, K, h)
  <2>1. RingOK(f, s, V, K, h)
    BY <1>4 DEF Plain
  <2> QED
    BY <1>3, <2>1, PushPlain
<1> HIDE DEF g
<1>2. SameButTokens(e, g)
  BY <1>1 DEF Plain, SameButTokens
<1> QED
  BY <1>1, <1>2, <1>4 DEF Plain, g

(* Marking a buffer as changed.                                            *)
LEMMA PlainDirty ==
  ASSUME NEW e, NEW f, Plain(e, f) PROVE Plain(e, Dirtify(f))
<1> DEFINE t == [kind |-> "dirty", buffer |-> f.current, old |-> FALSE]
           g == Push(f, t)
           k == [g EXCEPT !.dirty[f.current] = TRUE]
<1>1. Dirtify(f) \in {f, k}
  BY DEF Dirtify
<1>2. t.kind \in PlainKinds /\ t.kind # "undo"
  BY DEF PlainKinds
<1> HIDE DEF t
<1>3. Plain(e, g)
  BY <1>2, PlainToken
<1> HIDE DEF g
<1>4. SameRing(g, k)
  BY <1>3 DEF Plain, SameRing, SameButTokens, Base, Fields
<1> HIDE DEF k
<1>5. Plain(e, k)
  BY <1>3, <1>4, PlainFields
<1> QED
  BY <1>1, <1>5

(* Insertions and deletions of the buffer that is shown.                   *)
LEMMA PlainChange ==
  ASSUME NEW e, Base(e), ~e.register, NEW text
  PROVE  Plain(e, Changed(e, text)) /\ Plain(e, Fail(ChangeText(e, text)))
<1> DEFINE f == ChangeText(e, text)
           t == [kind |-> "undo"]
<1>1. Plain(e, e) /\ SameRing(e, f) /\ SameRing(e, Fail(f))
  BY PlainItself, LoadedSame
<1>2. Plain(e, f) /\ Plain(e, Fail(f))
  BY <1>1, PlainFields
<1>3. t.kind \in PlainKinds
  BY DEF PlainKinds
<1> HIDE DEF t, f
<1>4. Plain(e, Dirtify(f))
  BY <1>2, PlainDirty
<1>5. Plain(e, Push(Dirtify(f), t))
  BY <1>3, <1>4, PlainToken
<1> QED
  BY <1>2, <1>5 DEF Changed, f, t

LEMMA PlainFail == ASSUME NEW e, Base(e) PROVE Plain(e, Fail(e))
BY PlainItself, LoadedSame, PlainFields

(* Writing a file.                                                         *)
LEMMA PlainDisk == ASSUME NEW e, Base(e), NEW n, NEW text PROVE Plain(e, [e EXCEPT !.disk[n] = text])
<1>1. SameRing(e, [e EXCEPT !.disk[n] = text])
  BY DEF SameRing, SameButTokens, Base, Fields
<1> QED
  BY <1>1, PlainItself, PlainFields

(* Putting it aside.                                                       *)
LEMMA PlainAside == ASSUME NEW e, Base(e), NEW f, NEW refused PROVE Plain(e, PutAside(e, f, refused))
<1> DEFINE t == [kind |-> "restore", id |-> e.id, name |-> f]
           u == [kind |-> "unlink", name |-> f]
           r == Renamed(e, f)
           w == Push(r, t)
           m == [w EXCEPT !.id = @ + 1]
<1>1. PutAside(e, f, refused) \in {e, m, Push(e, u)}
  <2>1. r.id = e.id
    BY DEF Renamed, Base, Fields
  <2>2. MakeSavepoint(e, f) = m
    BY <2>1 DEF MakeSavepoint, UndoRename
  <2> HIDE DEF m
  <2>3. CASE ~e.undo \/ (e.disk[f] # Absent /\ refused)
    BY <2>3 DEF PutAside
  <2>4. CASE ~(~e.undo \/ (e.disk[f] # Absent /\ refused)) /\ e.undo /\ e.disk[f] # Absent /\ ~refused
    BY <2>2, <2>4 DEF PutAside
  <2>5. CASE ~(~e.undo \/ (e.disk[f] # Absent /\ refused)) /\ ~(e.undo /\ e.disk[f] # Absent /\ ~refused)
    BY <2>5 DEF PutAside
  <2> QED
    BY <2>3, <2>4, <2>5
<1>2. t.kind \in PlainKinds /\ t.kind # "undo" /\ u.kind \in PlainKinds /\ u.kind # "undo"
  BY DEF PlainKinds
<1> HIDE DEF t, u
<1>3. SameRing(e, r)
  BY DEF Renamed, SameRing, SameButTokens, Base, Fields
<1> HIDE DEF r
<1>4. Plain(e, e) /\ Plain(e, r)
  BY <1>3, PlainItself, PlainFields
<1>5. Plain(e, w) /\ Plain(e, Push(e, u))
  BY <1>2, <1>4, PlainToken
<1> HIDE DEF w
<1>6. SameRing(w, m)
  BY <1>5 DEF Plain, SameRing, SameButTokens, Base, Fields
<1> HIDE DEF m
<1>7. Plain(e, m)
  BY <1>5, <1>6, PlainFields
<1> QED
  BY <1>1, <1>4, <1>5, <1>7

(* The buffer is clean then.                                               *)
LEMMA PlainWritten == ASSUME NEW e, NEW f, Plain(e, f), NEW b, NEW n PROVE Plain(e, Written(f, b, n))
<1> DEFINE t == [kind |-> "dirty", buffer |-> b, old |-> f.dirty[b]]
           u == [kind |-> "name", buffer |-> b, old |-> f.name[b]]
           g == Push(Push(f, t), u)
           k == [g EXCEPT !.dirty[b] = FALSE, !.name[b] = n]
<1>1. Written(f, b, n) \in {f, k}
  BY DEF Written, UndoName
<1>2. t.kind \in PlainKinds /\ t.kind # "undo" /\ u.kind \in PlainKinds /\ u.kind # "undo"
  BY DEF PlainKinds
<1> HIDE DEF t, u
<1>3. Plain(e, Push(f, t))
  BY <1>2, PlainToken
<1>4. Plain(e, g)
  BY <1>2, <1>3, PlainToken
<1> HIDE DEF g
<1>5. SameRing(g, k)
  BY <1>4 DEF Plain, SameRing, SameButTokens, Base, Fields
<1> HIDE DEF k
<1>6. Plain(e, k)
  BY <1>4, <1>5, PlainFields
<1> QED
  BY <1>1, <1>6

-----------------------------------------------------------------------------
(* The invariant of the ring.                                              *)

(* Hooks neither fail nor close buffers nor edit registers, the buffer is  *)
(* not closed that has been edited before a register, and a register is    *)
(* left for the same buffer only: in all of these cases, ring.c breaks     *)
(* RingIsRing.                                                             *)
RingCareful ==
  Cases \cap {"failing hook", "close in hook", "register in hook", "close behind register", "leave register"} = {}

RingFor(e, K, h) == \E s, V : RingOK(e, s, V, K, h)
RInv == RingFor(ed, Closing(calls), history) /\ Fit(ed, calls) /\ IsSequence(history)
Grows(e, f) == f.undo = e.undo /\ (f.register => e.register) /\ InRing(e) \subseteq InRing(f)

LEMMA OrderFor ==
  ASSUME NEW e, NEW K, NEW h, RingFor(e, K, h)
  PROVE  \E V : RingOK(e, Order(e), V, K, h)
<1>1. PICK s, V : RingOK(e, s, V, K, h)
  BY DEF RingFor
<1>2. Order(e) = s
  BY <1>1, RingFacts
<1> QED
  BY <1>1, <1>2

LEMMA PlainFor ==
  ASSUME NEW e, NEW f, Plain(e, f)
  PROVE  Grows(e, f) /\ f.current = e.current /\ \A K, h : RingFor(e, K, h) => RingFor(f, K, h)
<1>1. f.undo = e.undo /\ f.register = e.register /\ f.current = e.current /\ f.links = e.links
  BY DEF Plain, SameButTokens
<1>2. InRing(f) = InRing(e)
  BY <1>1 DEF InRing, Order
<1>3. \A K, h : RingFor(e, K, h) => RingFor(f, K, h)
  BY DEF Plain, RingFor
<1> QED
  BY <1>1, <1>2, <1>3 DEF Grows

LEMMA PlainFits ==
  ASSUME NEW e, NEW f, Plain(e, f), NEW c, Fit(e, c) PROVE Fit(f, c)
BY PlainFor, FitStays DEF Grows

(* teco_ring_edit() in or outside of hooks.                                *)
LEMMA EditFor ==
  ASSUME NEW e, NEW K, Unused(e) # {}, NEW n, NEW how \in {"ok", "unreadable", "interrupted"},
         e.register /\ e.undo => Edit(e, n, how).current = e.current
  PROVE  \A h : RingFor(e, K, h) => RingFor(Edit(e, n, how), K, h) /\ Grows(e, Edit(e, n, how))
<1> SUFFICES ASSUME NEW h, RingFor(e, K, h)
             PROVE  RingFor(Edit(e, n, how), K, h) /\ Grows(e, Edit(e, n, how))
  OBVIOUS
<1>1. PICK s, V : RingOK(e, s, V, K, h)
  BY DEF RingFor
<1>2. PICK t, W : /\ RingOK(Edit(e, n, how), t, W, K, h) /\ Members(s) \subseteq Members(t)
                  /\ Edit(e, n, how).register = FALSE /\ Edit(e, n, how).undo = e.undo
  BY <1>1, EditedFile
<1> DEFINE f == Edit(e, n, how)
<1> HIDE DEF f
<1>3. InRing(e) = Members(s) /\ InRing(f) = Members(t)
  <2>1. InRing(e) = Members(s)
    BY <1>1, RingFacts
  <2>2. RingOK(f, t, W, K, h)
    BY <1>2 DEF f
  <2>3. InRing(f) = Members(t)
    BY <2>2, RingFacts
  <2> QED
    BY <2>1, <2>3
<1> QED
  BY <1>2, <1>3 DEF f, RingFor, Grows

LEMMA EditIdFor ==
  ASSUME NEW e, NEW K, NEW b \in InRing(e), e.register /\ e.undo => b = e.current
  PROVE  LET f == EditExisting(UndoEdit(e), b) IN
           \A h : RingFor(e, K, h) => RingFor(f, K, h) /\ Grows(e, f)
<1> DEFINE f == EditExisting(UndoEdit(e), b)
<1> SUFFICES ASSUME NEW h, RingFor(e, K, h) PROVE RingFor(f, K, h) /\ Grows(e, f)
  OBVIOUS
<1>1. PICK s, V : RingOK(e, s, V, K, h)
  BY DEF RingFor
<1>2. InRing(e) = Members(s)
  BY <1>1, RingFacts
<1>3. RingOK(f, s, V, K, h) /\ f.register = FALSE /\ f.undo = e.undo
  BY <1>1, <1>2, EditedById
<1> HIDE DEF f
<1>4. InRing(f) = Members(s)
  BY <1>3, RingFacts
<1> QED
  BY <1>2, <1>3, <1>4 DEF RingFor, Grows

(* The base of these.                                                      *)
LEMMA ForFacts ==
  ASSUME NEW e, NEW K, NEW h, RingFor(e, K, h)
  PROVE  /\ Base(e) /\ ~e.dangling /\ e.current \in InRing(e) /\ e.current \in Entries
         /\ e.register \in BOOLEAN /\ InRing(e) = Members(Order(e)) /\ IsList(e.links, Order(e))
<1> DEFINE s == Order(e)
<1>1. PICK V : RingOK(e, s, V, K, h)
  BY OrderFor
<1> HIDE DEF s
<1>2. /\ Base(e) /\ ~e.dangling /\ e.current \in Members(s) /\ e.current \in Entries
      /\ e.register \in BOOLEAN /\ InRing(e) = Members(s) /\ IsList(e.links, s)
  BY <1>1, RingFacts
<1> QED
  BY <1>2 DEF s

(* If no function closes a buffer, none is closed.                         *)
LEMMA NoneClosing ==
  ASSUME NEW c, IsSequence(c), ~(\E i \in DOMAIN c : c[i].kind = "closing") PROVE Closing(c) = {}
<1>1. PICK T : c \in Seq(T)
  BY DEF IsSequence
<1>2. DOMAIN c = 1 .. Len(c)
  BY <1>1
<1>3. {j \in 1 .. Len(c) : c[j].kind = "closing"} = {}
  BY <1>2
<1> QED
  BY <1>3 DEF Closing

(* A command may be rubbed out later.                                      *)
LEMMA StopsHere ==
  ASSUME NEW e, NEW h, RingFor(e, {}, h), IsSequence(h)
  PROVE  LET g == Append(h, [tokens |-> Len(e.tokens), seen |-> <<Order(e), Rest(e)>>])
         IN  RingFor(e, {}, g) /\ IsSequence(g)
<1> DEFINE q == <<Order(e), Rest(e)>>
           g == Append(h, [tokens |-> Len(e.tokens), seen |-> q])
           s == Order(e)
           A == Look(e, s)
<1>1. PICK V : RingOK(e, s, V, {}, h)
  BY OrderFor
<1>2. V = s
  BY <1>1 DEF RingOK, IsClosing
<1>3. RightLook(A, KeptBy(e.tokens)) /\ Base(e)
  <2>1. KeptBy(e.tokens) \cup {} = KeptBy(e.tokens)
    OBVIOUS
  <2>2. RightLook(A, KeptBy(e.tokens) \cup {}) /\ Base(e)
    BY <1>1 DEF RingOK
  <2> HIDE DEF A
  <2> QED
    BY <2>1, <2>2
<1>4. IsSeen(A, q)
  BY DEF IsSeen, Look, Rest
<1>5. IsSequence(g)
  BY AppendSequence
<1> HIDE DEF q
<1>6. e.undo => HasTrail(e.tokens, A, e.links.next, g)
  <2> SUFFICES ASSUME e.undo PROVE HasTrail(e.tokens, A, e.links.next, g)
    OBVIOUS
  <2>1. HasTrail(e.tokens, A, e.links.next, h) /\ IsSequence(e.tokens)
    BY <1>1, <1>2, <1>3 DEF RingOK, Base
  <2> HIDE DEF A
  <2> QED
    BY <1>3, <1>4, <2>1, TrailStops
<1> HIDE DEF g
<1>7. RingOK(e, s, s, {}, g)
  BY <1>1, <1>2, <1>6 DEF RingOK
<1>8. RingFor(e, {}, g) /\ IsSequence(g)
  BY <1>5, <1>7 DEF RingFor
<1> QED
  BY <1>8 DEF g, q

-----------------------------------------------------------------------------
(* Functions that go on or return, commands that are executed.             *)

LEMMA OuterRing ==
  ASSUME RingCareful, RInv, NEW e, NEW c, RingFor(e, Closing(c), history),
         Closing(calls) = {} => Closing(c) = {} \/ ~e.failed, Fit(e, c), Outer(e, c)
  PROVE  RInv'
<1>1. /\ ed' = e /\ history' = history /\ calls' = (IF e.failed THEN <<>> ELSE c)
      /\ e.failed /\ (\E i \in DOMAIN calls : calls[i].kind = "closing") => "failing hook" \in Cases
  BY DEF Outer, Becomes
<1>2. CASE ~e.failed
  BY <1>1, <1>2 DEF RInv
<1>3. CASE e.failed
  <2>1. "failing hook" \notin Cases
    BY DEF RingCareful
  <2>2. IsSequence(calls)
    BY DEF RInv, Fit
  <2>3. Closing(calls) = {}
    BY <1>1, <1>3, <2>1, <2>2, NoneClosing
  <2>4. RingFor(e, {}, history) /\ calls' = <<>>
    BY <1>1, <1>3, <2>3
  <2> QED
    BY <1>1, <2>4, NothingFits DEF RInv
<1> QED
  BY <1>2, <1>3

LEMMA ExecutedRing ==
  ASSUME RingCareful, RInv, NEW e, NEW c, \A h : RingFor(ed, Closing(calls), h) => RingFor(e, Closing(calls), h),
         Closing(c) = Closing(calls), Fit(e, c), Executed(e, c)
  PROVE  RInv'
<1>1. /\ ed' = e /\ calls' = (IF e.failed THEN <<>> ELSE c)
      /\ e.failed /\ (\E i \in DOMAIN calls : calls[i].kind = "closing") => "failing hook" \in Cases
      /\ history' = IF calls = <<>>
                    THEN Append(history, [tokens |-> Len(ed.tokens), seen |-> <<Order(ed), Rest(ed)>>])
                    ELSE history
  BY DEF Executed, Becomes
<1>2. RingFor(ed, Closing(calls), history) /\ IsSequence(history)
  BY DEF RInv
<1>3. RingFor(ed, Closing(calls), history') /\ IsSequence(history')
  <2>1. CASE calls # <<>>
    BY <1>1, <1>2, <2>1
  <2>2. CASE calls = <<>>
    <3>1. Closing(calls) = {}
      BY <2>2, NothingFits
    <3>2. RingFor(ed, {}, history) /\ IsSequence(history)
      BY <1>2, <3>1
    <3> QED
      BY <1>1, <2>2, <3>1, <3>2, StopsHere
  <2> QED
    BY <2>1, <2>2
<1>4. RingFor(e, Closing(calls), history')
  BY <1>3
<1>5. CASE ~e.failed
  BY <1>1, <1>3, <1>4, <1>5 DEF RInv
<1>6. CASE e.failed
  <2>1. "failing hook" \notin Cases
    BY DEF RingCareful
  <2>2. IsSequence(calls)
    BY DEF RInv, Fit
  <2>3. Closing(calls) = {}
    BY <1>1, <1>6, <2>1, <2>2, NoneClosing
  <2>4. RingFor(e, {}, history') /\ calls' = <<>>
    BY <1>1, <1>4, <1>6, <2>3
  <2> QED
    BY <1>1, <1>3, <2>4, NothingFits DEF RInv
<1> QED
  BY <1>5, <1>6

(* A function fails.                                                       *)
LEMMA FailedRing == ASSUME RingCareful, RInv, Outer(Fail(ed), <<>>) PROVE RInv'
<1> DEFINE e == Fail(ed)
<1>1. Base(ed) /\ RingFor(ed, Closing(calls), history)
  BY ForFacts DEF RInv
<1>2. Plain(ed, e)
  BY <1>1, PlainFail
<1>3. e.failed
  BY <1>1 DEF Fail, Base, Fields
<1>4. e.failed /\ (\E i \in DOMAIN calls : calls[i].kind = "closing") => "failing hook" \in Cases
  BY DEF Outer, Becomes
<1>5. Closing(calls) = {}
  <2>1. "failing hook" \notin Cases
    BY DEF RingCareful
  <2>2. IsSequence(calls)
    BY DEF RInv, Fit
  <2> QED
    BY <1>3, <1>4, <2>1, <2>2, NoneClosing
<1> HIDE DEF e
<1>6. RingFor(e, Closing(<<>>), history) /\ Fit(e, <<>>) /\ Closing(<<>>) = {}
  BY <1>1, <1>2, <1>5, PlainFor, NothingFits
<1>7. Outer(e, <<>>)
  BY DEF e
<1> QED
  BY <1>6, <1>7, OuterRing

-----------------------------------------------------------------------------
(* The actions again.                                                      *)

LEMMA RInvFacts ==
  ASSUME RInv
  PROVE  /\ Base(ed) /\ Plain(ed, ed) /\ Fit(ed, calls) /\ RingFor(ed, Closing(calls), history)
         /\ MayExecute => NotSaving(calls)
         /\ Cardinality(Unused(ed)) > 0 => Unused(ed) # {}
<1>1. RingFor(ed, Closing(calls), history) /\ Fit(ed, calls)
  BY DEF RInv
<1>2. Base(ed)
  BY <1>1, ForFacts
<1>3. MayExecute => NotSaving(calls)
  BY DEF MayExecute, NotSaving, Top, Savings, Phases
<1>4. Cardinality(Unused(ed)) > 0 => Unused(ed) # {}
  BY FS_EmptySet
<1> QED
  BY <1>1, <1>2, <1>3, <1>4, PlainItself

(* A function calls another one, which is not about closing buffers.       *)
LEMMA FitCall ==
  ASSUME NEW e, NEW c, Fit(e, c), NEW x, "kind" \in DOMAIN x,
         x.kind \notin {"close", "closing", "saved", "files"}, x.kind \in Savings \/ NotSaving(c)
  PROVE  Fit(e, Append(c, x)) /\ Closing(Append(c, x)) = Closing(c)
<1>1. FrameFit(e, x, Len(c) + 1)
  BY DEF FrameFit
<1> QED
  BY <1>1, FitAppend

LEMMA NewFits ==
  ASSUME NEW e, NEW c, Fit(e, c)
  PROVE  /\ \A kind : kind \in {"edit", "all"} /\ NotSaving(c) =>
              Fit(e, Call(c, kind)) /\ Closing(Call(c, kind)) = Closing(c)
         /\ \A b, n : Fit(e, CallSave(c, b, n)) /\ Closing(CallSave(c, b, n)) = Closing(c)
<1>1. ASSUME NEW kind, kind \in {"edit", "all"}, NotSaving(c)
      PROVE  Fit(e, Call(c, kind)) /\ Closing(Call(c, kind)) = Closing(c)
  <2> DEFINE x == [kind |-> kind]
  <2>1. "kind" \in DOMAIN x /\ x.kind \notin {"close", "closing", "saved", "files"}
    BY <1>1
  <2> HIDE DEF x
  <2>2. Fit(e, Append(c, x)) /\ Closing(Append(c, x)) = Closing(c)
    BY <1>1, <2>1, FitCall
  <2> QED
    BY <2>2 DEF Call, x
<1>2. ASSUME NEW b, NEW n PROVE Fit(e, CallSave(c, b, n)) /\ Closing(CallSave(c, b, n)) = Closing(c)
  <2> DEFINE x == [kind |-> "save", buffer |-> b, name |-> n]
  <2>1. "kind" \in DOMAIN x /\ x.kind = "save"
    OBVIOUS
  <2> HIDE DEF x
  <2>2. x.kind \notin {"close", "closing", "saved", "files"} /\ x.kind \in Savings
    BY <2>1 DEF Savings
  <2>3. Fit(e, Append(c, x)) /\ Closing(Append(c, x)) = Closing(c)
    BY <2>1, <2>2, FitCall
  <2> QED
    BY <2>3 DEF CallSave, x
<1> QED
  BY <1>1, <1>2

(* The editing of a file by a command or a hook.                           *)
LEMMA ExecutedEdit ==
  ASSUME RingCareful, RInv, MayExecute, NEW e,
         \A h : RingFor(ed, Closing(calls), h) => RingFor(e, Closing(calls), h) /\ Grows(ed, e),
         Executed(e, Call(calls, "edit"))
  PROVE  RInv'
<1>1. Fit(ed, calls) /\ NotSaving(calls) /\ Grows(ed, e)
  BY RInvFacts
<1>2. Fit(e, calls)
  BY <1>1, FitStays DEF Grows
<1>3. Fit(e, Call(calls, "edit")) /\ Closing(Call(calls, "edit")) = Closing(calls)
  BY <1>1, <1>2, NewFits
<1> DEFINE c == Call(calls, "edit")
<1> HIDE DEF c
<1>4. Fit(e, c) /\ Closing(c) = Closing(calls) /\ Executed(e, c)
  BY <1>3 DEF c
<1>5. \A h : RingFor(ed, Closing(calls), h) => RingFor(e, Closing(calls), h)
  OBVIOUS
<1> QED
  BY <1>4, <1>5, ExecutedRing

(* Commands that only change texts, or nothing.                            *)
LEMMA ExecutedPlain ==
  ASSUME RingCareful, RInv, NEW e, Plain(ed, e), NEW c, Fit(ed, c), Closing(c) = Closing(calls), Executed(e, c)
  PROVE  RInv'
<1>1. Fit(e, c) /\ \A h : RingFor(ed, Closing(calls), h) => RingFor(e, Closing(calls), h)
  BY PlainFor, PlainFits
<1> QED
  BY <1>1, ExecutedRing

LEMMA OuterPlain ==
  ASSUME RingCareful, RInv, NEW e, Plain(ed, e), NEW c, Fit(ed, c), Closing(c) = Closing(calls), Outer(e, c)
  PROVE  RInv'
<1>1. Fit(e, c) /\ RingFor(e, Closing(c), history)
  BY PlainFor, PlainFits DEF RInv
<1> QED
  BY <1>1, OuterRing

(* EB.                                                                     *)
LEMMA EditFileRing == ASSUME RingCareful, RInv, EditFile PROVE RInv'
<1>1. PICK n \in Names \cup {NoName}, how \in {"ok", "unreadable", "interrupted"} :
        /\ MayExecute
        /\ \E e \in {Edit(ed, n, how)} : MayLeave(e.current) /\ Executed(e, Call(calls, "edit"))
  BY DEF EditFile
<1> DEFINE e == Edit(ed, n, how)
<1>2. MayExecute /\ MayLeave(e.current) /\ Executed(e, Call(calls, "edit"))
  BY <1>1
<1>3. ed.register /\ ed.undo => e.current = ed.current
  BY <1>2 DEF MayLeave, RingCareful
<1>4. Unused(ed) # {}
  BY <1>2, RInvFacts DEF MayExecute
<1>5. \A h : RingFor(ed, Closing(calls), h) => RingFor(e, Closing(calls), h) /\ Grows(ed, e)
  BY <1>3, <1>4, EditFor
<1> HIDE DEF e
<1> QED
  BY <1>2, <1>5, ExecutedEdit

LEMMA EditByIdRing == ASSUME RingCareful, RInv, EditById PROVE RInv'
<1>1. PICK b \in InRing(ed) :
        MayExecute /\ MayLeave(b) /\ Executed(EditExisting(UndoEdit(ed), b), Call(calls, "edit"))
  BY DEF EditById
<1> DEFINE e == EditExisting(UndoEdit(ed), b)
<1>2. ed.register /\ ed.undo => b = ed.current
  BY <1>1 DEF MayLeave, RingCareful
<1>3. \A h : RingFor(ed, Closing(calls), h) => RingFor(e, Closing(calls), h) /\ Grows(ed, e)
  BY <1>2, EditIdFor
<1>4. Executed(e, Call(calls, "edit"))
  BY <1>1
<1> HIDE DEF e
<1> QED
  BY <1>1, <1>3, <1>4, ExecutedEdit

(* EB with a pattern.                                                      *)
LEMMA EditFilesRing == ASSUME RingCareful, RInv, EditFiles PROVE RInv'
<1>1. PICK m, n \in Names :
        MayExecute /\ MayLeave("another") /\ Executed(ed, Append(calls, [kind |-> "files", rest |-> <<m, n>>]))
  BY DEF EditFiles
<1> DEFINE x == [kind |-> "files", rest |-> <<m, n>>]
           c == Append(calls, x)
<1>2. /\ Base(ed) /\ Plain(ed, ed) /\ Fit(ed, calls) /\ RingFor(ed, Closing(calls), history) /\ NotSaving(calls)
  BY <1>1, RInvFacts
<1>3. ~(ed.register /\ ed.undo)
  <2>1. ed.current \in Entries
    BY <1>2, ForFacts
  <2>2. "another" # ed.current
    BY <2>1, AddressesAssumption
  <2>3. ~(ed.register /\ ed.undo /\ "another" # ed.current)
    BY <1>1 DEF MayLeave, RingCareful
  <2> QED
    BY <2>2, <2>3
<1>4. "kind" \in DOMAIN x /\ x.kind = "files"
  OBVIOUS
<1> HIDE DEF x
<1>5. FrameFit(ed, x, Len(calls) + 1)
  BY <1>3, <1>4 DEF FrameFit
<1>6. Fit(ed, c) /\ Closing(c) = Closing(calls)
  BY <1>2, <1>4, <1>5, FitAppend
<1>7. Executed(ed, c)
  BY <1>1 DEF x
<1> HIDE DEF c
<1> QED
  BY <1>2, <1>6, <1>7, ExecutedPlain

LEMMA EditNextRing == ASSUME RingCareful, RInv, EditNextFile PROVE RInv'
<1> DEFINE d == [calls EXCEPT ![Len(calls)].rest = Tail(@)]
           e == Edit(ed, Head(Top.rest), "ok")
           c == Call(d, "edit")
<1>1. calls # <<>> /\ Last(calls).kind = "files" /\ Unused(ed) # {} /\ Outer(e, c)
  BY RInvFacts DEF EditNextFile, Waits, Top
<1>2. /\ Fit(ed, calls) /\ RingFor(ed, Closing(calls), history)
  BY RInvFacts
<1>3. Fit(ed, d) /\ Closing(d) = Closing(calls) /\ NotSaving(d)
  BY <1>1, <1>2, FitRest
<1>4. ~(ed.register /\ ed.undo)
  BY <1>1, <1>2, FitFront DEF FrameFit
<1>5. RingFor(e, Closing(calls), history) /\ Grows(ed, e)
  <2>1. "ok" \in {"ok", "unreadable", "interrupted"}
    OBVIOUS
  <2>2. ed.register /\ ed.undo => e.current = ed.current
    BY <1>4
  <2>3. \A h : RingFor(ed, Closing(calls), h) => RingFor(e, Closing(calls), h) /\ Grows(ed, e)
    BY <1>1, <2>1, <2>2, EditFor
  <2> QED
    BY <1>2, <2>3
<1> HIDE DEF e, d
<1>6. Fit(e, d)
  BY <1>3, <1>5, FitStays DEF Grows
<1>7. Fit(e, c) /\ Closing(c) = Closing(calls)
  BY <1>3, <1>6, NewFits
<1> HIDE DEF c
<1> QED
  BY <1>1, <1>5, <1>7, OuterRing

(* EQ outside of hooks.                                                    *)
LEMMA EditRegisterRing == ASSUME RingCareful, RInv, EditRegister PROVE RInv'
<1> DEFINE e == ShowView([UndoEdit(ed) EXCEPT !.register = TRUE], "register")
<1>1. calls = <<>> /\ Executed(e, calls)
  BY DEF EditRegister, RingCareful
<1>2. ASSUME NEW K, NEW h, RingFor(ed, K, h) PROVE RingFor(e, K, h)
  BY <1>2, EditedRegister DEF RingFor
<1> HIDE DEF e
<1>3. Fit(e, calls)
  BY <1>1, NothingFits
<1> QED
  BY <1>1, <1>2, <1>3, ExecutedRing

(* EF of a buffer of the ring.                                             *)
LEMMA ClosedOther ==
  ASSUME NEW b \in InRing(ed), b # ed.current
  PROVE  \A h : RingFor(ed, {}, h) => RingFor(UndoReinsert(RemoveBuffer(ed, b), b), {}, h)
<1> SUFFICES ASSUME NEW h, RingFor(ed, {}, h) PROVE RingFor(UndoReinsert(RemoveBuffer(ed, b), b), {}, h)
  OBVIOUS
<1>1. PICK s, V : RingOK(ed, s, V, {}, h)
  BY DEF RingFor
<1>2. V = s
  BY <1>1 DEF RingOK, IsClosing
<1>3. InRing(ed) = Members(s)
  BY <1>1, RingFacts
<1>4. PICK k \in 1 .. Len(s) : b = s[k]
  BY <1>3 DEF Members
<1> DEFINE f == RemoveBuffer(ed, s[k])
           t == RemoveAt(s, k)
           g == UndoReinsert(f, s[k])
<1>5. RingOK(f, t, s, {s[k]}, h)
  BY <1>1, <1>2, <1>4, RingRemove
<1> HIDE DEF f, t
<1>6. RingOK(g, t, t, {}, h)
  BY <1>5, Reinserted
<1> QED
  BY <1>4, <1>6 DEF RingFor, f, g

LEMMA CloseFor ==
  ASSUME RInv, NEW b \in InRing(ed), ed.register => b # ed.current, Closing(calls) = {}
  PROVE  LET r == CloseBuffer(ed, <<>>, b) IN
           /\ Fit(r[1], r[2]) /\ Closing(r[2]) = {}
           /\ \A h : RingFor(ed, {}, h) => RingFor(r[1], {}, h)
<1>1. CASE b = ed.current
  <2> DEFINE x == [kind |-> "close", buffer |-> b]
             c == Append(<<>>, x)
  <2>1. CloseBuffer(ed, <<>>, b) = <<ed, c>>
    BY <1>1 DEF CloseBuffer, CallWith
  <2>2. "kind" \in DOMAIN x /\ x.kind = "close" /\ x.buffer = b
    OBVIOUS
  <2> HIDE DEF x
  <2>3. Fit(ed, <<>>) /\ NotSaving(<<>>) /\ Closing(<<>>) = {} /\ Len(<<>>) + 1 = 1
    BY NothingFits
  <2>4. FrameFit(ed, x, 1)
    BY <1>1, <2>2 DEF FrameFit
  <2>5. FrameFit(ed, x, Len(<<>>) + 1)
    BY <2>3, <2>4
  <2>6. Fit(ed, c) /\ Closing(c) = {}
    BY <2>2, <2>3, <2>5, FitAppend
  <2> HIDE DEF c
  <2> QED
    BY <2>1, <2>6
<1>2. CASE b # ed.current
  <2> DEFINE f == UndoReinsert(RemoveBuffer(ed, b), b)
  <2>1. CloseBuffer(ed, <<>>, b) = <<f, <<>>>>
    BY <1>2 DEF CloseBuffer
  <2>2. \A h : RingFor(ed, {}, h) => RingFor(f, {}, h)
    BY <1>2, ClosedOther
  <2> HIDE DEF f
  <2>3. Fit(f, <<>>) /\ Closing(<<>>) = {}
    BY NothingFits
  <2> QED
    BY <2>1, <2>2, <2>3
<1> QED
  BY <1>1, <1>2

(* What is saved first is closed afterwards.                               *)
LEMMA SaveFirst ==
  ASSUME RInv, calls = <<>>, NEW b \in InRing(ed), ed.register => b # ed.current
  PROVE  LET c == CallSave(CallWith(calls, "saved", b), b, NoName)
         IN  Fit(ed, c) /\ Closing(c) = Closing(calls)
<1> DEFINE x == [kind |-> "saved", buffer |-> b]
           c == Append(<<>>, x)
           d == CallSave(c, b, NoName)
<1>1. "kind" \in DOMAIN x /\ x.kind = "saved" /\ x.buffer = b
  OBVIOUS
<1> HIDE DEF x
<1>2. Fit(ed, <<>>) /\ NotSaving(<<>>) /\ Closing(<<>>) = {} /\ Len(<<>>) + 1 = 1
  BY NothingFits
<1>3. FrameFit(ed, x, 1)
  BY <1>1 DEF FrameFit
<1>4. FrameFit(ed, x, Len(<<>>) + 1)
  BY <1>2, <1>3
<1>5. Fit(ed, c) /\ Closing(c) = {}
  BY <1>1, <1>2, <1>4, FitAppend
<1>6. c = CallWith(calls, "saved", b)
  BY DEF CallWith, x
<1> HIDE DEF c
<1>7. Fit(ed, d) /\ Closing(d) = {}
  BY <1>5, NewFits
<1> QED
  BY <1>2, <1>6, <1>7 DEF d

LEMMA CloseCommandRing == ASSUME RingCareful, RInv, CloseCommand PROVE RInv'
<1>1. PICK b \in InRing(ed), mode \in {"plain", "force", "save"} :
        /\ MayExecute
        /\ calls # <<>> => "close in hook" \in Cases
        /\ ed.register /\ b = ed.current => "close behind register" \in Cases
        /\ CASE mode = "plain" /\ ed.dirty[b] -> Executed(Fail(ed), calls)
             [] mode = "save" -> Executed(ed, CallSave(CallWith(calls, "saved", b), b, NoName))
             [] OTHER -> \E r \in {CloseBuffer(ed, calls, b)} : Executed(r[1], r[2])
  BY DEF CloseCommand
<1>2. calls = <<>>
  BY <1>1 DEF RingCareful
<1>3. ed.register => b # ed.current
  <2>1. "close behind register" \notin Cases
    BY DEF RingCareful
  <2> QED
    BY <1>1, <2>1
<1>4. \/ Executed(Fail(ed), calls)
      \/ Executed(ed, CallSave(CallWith(calls, "saved", b), b, NoName))
      \/ Executed(CloseBuffer(ed, calls, b)[1], CloseBuffer(ed, calls, b)[2])
  BY <1>1
<1>5. Base(ed) /\ Plain(ed, ed) /\ Fit(ed, calls)
  BY RInvFacts
<1>6. CASE Executed(Fail(ed), calls)
  BY <1>5, <1>6, PlainFail, ExecutedPlain
<1>7. CASE Executed(ed, CallSave(CallWith(calls, "saved", b), b, NoName))
  <2> DEFINE c == CallSave(CallWith(calls, "saved", b), b, NoName)
  <2>1. Fit(ed, c) /\ Closing(c) = Closing(calls)
    BY <1>2, <1>3, SaveFirst
  <2>2. Executed(ed, c)
    BY <1>7
  <2> HIDE DEF c
  <2> QED
    BY <1>5, <2>1, <2>2, ExecutedPlain
<1>8. CASE Executed(CloseBuffer(ed, calls, b)[1], CloseBuffer(ed, calls, b)[2])
  <2> DEFINE r == CloseBuffer(ed, <<>>, b)
             e == r[1]
             c == r[2]
  <2>1. Closing(calls) = {}
    BY <1>2, NothingFits
  <2>2. Fit(e, c) /\ Closing(c) = {} /\ \A h : RingFor(ed, {}, h) => RingFor(e, {}, h)
    BY <1>3, <2>1, CloseFor
  <2>3. Executed(e, c)
    BY <1>2, <1>8
  <2> HIDE DEF e, c
  <2> QED
    BY <2>1, <2>2, <2>3, ExecutedRing
<1> QED
  BY <1>4, <1>6, <1>7, <1>8

LEMMA CloseSavedRing == ASSUME RingCareful, RInv, CloseSaved PROVE RInv'
<1> DEFINE b == Top.buffer
           r == CloseBuffer(ed, <<>>, b)
           e == r[1]
           c == r[2]
<1>1. calls # <<>> /\ Last(calls).kind = "saved" /\ b = Last(calls).buffer
      /\ \E q \in {CloseBuffer(ed, Front(calls), b)} : Outer(q[1], q[2])
  BY DEF CloseSaved, Waits, Top
<1>2. Fit(ed, calls) /\ RingFor(ed, Closing(calls), history)
  BY RInvFacts
<1>3. Front(calls) = <<>> /\ FrameFit(ed, Last(calls), Len(calls)) /\ Closing(Front(calls)) = Closing(calls)
  BY <1>1, <1>2, FitFront
<1>4. Closing(calls) = {}
  BY <1>3, NothingFits
<1>5. b \in InRing(ed) /\ (ed.register => b # ed.current)
  BY <1>1, <1>3 DEF FrameFit
<1>6. Outer(e, c)
  BY <1>1, <1>3
<1>7. Fit(e, c) /\ Closing(c) = {} /\ \A h : RingFor(ed, {}, h) => RingFor(e, {}, h)
  BY <1>4, <1>5, CloseFor
<1> HIDE DEF e, c
<1>8. RingFor(e, Closing(c), history)
  BY <1>2, <1>4, <1>7
<1> QED
  BY <1>6, <1>7, <1>8, OuterRing

(* The hooks have returned.                                                *)
LEMMA CloseHookRing ==
  ASSUME RingCareful, RInv, Waits("close"), Cardinality(Unused(ed)) > 0,
         Outer(CloseCurrent(ed, Top.buffer), CallWith(Front(calls), "closing", Top.buffer))
  PROVE  RInv'
<1> DEFINE b == Top.buffer
           e == CloseCurrent(ed, b)
           x == [kind |-> "closing", buffer |-> b]
           c == Append(<<>>, x)
<1>1. calls # <<>> /\ Last(calls).kind = "close" /\ b = Last(calls).buffer /\ ~ed.failed
  BY DEF Waits, Top, Idle
<1>2. Fit(ed, calls) /\ RingFor(ed, Closing(calls), history) /\ Unused(ed) # {}
  BY RInvFacts
<1>3. Front(calls) = <<>> /\ FrameFit(ed, Last(calls), Len(calls)) /\ Closing(Front(calls)) = Closing(calls)
  BY <1>1, <1>2, FitFront
<1>4. Closing(calls) = {}
  BY <1>3, NothingFits
<1>5. b \in InRing(ed) /\ ~ed.register
  BY <1>1, <1>3 DEF FrameFit
<1>6. Outer(e, c)
  BY <1>3 DEF CallWith
<1>7. RingFor(e, {b}, history) /\ e.failed = ed.failed
  <2>1. PICK s, V : RingOK(ed, s, V, {}, history)
    BY <1>2, <1>4 DEF RingFor
  <2>2. V = s
    BY <2>1 DEF RingOK, IsClosing
  <2>3. InRing(ed) = Members(s)
    BY <2>1, RingFacts
  <2>4. PICK k \in 1 .. Len(s) : b = s[k]
    BY <1>5, <2>3 DEF Members
  <2> DEFINE g == CloseCurrent(ed, s[k])
  <2>5. (\E t, W : RingOK(g, t, W, {s[k]}, history)) /\ g.failed = ed.failed
    BY <1>2, <1>5, <2>1, <2>2, ClosedCurrent
  <2>6. e = g
    BY <2>4
  <2> HIDE DEF e, g, b
  <2> QED
    BY <2>4, <2>5, <2>6 DEF RingFor
<1> HIDE DEF e
<1>8. Fit(e, c) /\ Closing(c) = {b}
  <2>1. "kind" \in DOMAIN x /\ x.kind = "closing" /\ x.buffer = b
    OBVIOUS
  <2> DEFINE q == <<>>
  <2> HIDE DEF x, b
  <2>2. Fit(e, q) /\ NotSaving(q) /\ Len(q) + 1 = 1
    BY NothingFits
  <2>3. FrameFit(e, x, 1)
    <3>1. x.kind \notin {"files", "close", "saved"}
      BY <2>1
    <3> QED
      BY <2>1, <3>1 DEF FrameFit
  <2>4. c = Append(q, x)
    OBVIOUS
  <2> HIDE DEF c, q
  <2>5. FrameFit(e, x, Len(q) + 1)
    BY <2>2, <2>3
  <2>6. /\ Fit(e, Append(q, x))
        /\ x.kind = "closing" => Closing(Append(q, x)) = {x.buffer}
    BY <2>2, <2>5, FitAppend
  <2> QED
    BY <2>1, <2>4, <2>6
<1> HIDE DEF c, b
<1>9. RingFor(e, Closing(c), history) /\ ~e.failed
  BY <1>1, <1>7, <1>8
<1> QED
  BY <1>6, <1>8, <1>9, OuterRing

LEMMA ClosingHookRing ==
  ASSUME RingCareful, RInv, Waits("closing"), Outer(UndoReinsert(ed, Top.buffer), Front(calls))
  PROVE  RInv'
<1> DEFINE b == Top.buffer
           e == UndoReinsert(ed, b)
<1>1. calls # <<>> /\ Last(calls).kind = "closing" /\ b = Last(calls).buffer /\ Outer(e, Front(calls))
  BY DEF Waits, Top
<1>2. Fit(ed, calls) /\ RingFor(ed, Closing(calls), history)
  BY RInvFacts
<1>3. Front(calls) = <<>> /\ Closing(calls) = {b}
  BY <1>1, <1>2, FitFront
<1>4. RingFor(e, {}, history)
  <2>1. PICK s, V : RingOK(ed, s, V, {b}, history)
    BY <1>2, <1>3 DEF RingFor
  <2>2. RingOK(e, s, s, {}, history)
    BY <2>1, Reinserted
  <2> QED
    BY <2>2 DEF RingFor
<1> HIDE DEF e
<1>5. Fit(e, <<>>) /\ Closing(<<>>) = {}
  BY NothingFits
<1> QED
  BY <1>1, <1>3, <1>4, <1>5, OuterRing

LEMMA ReturnRing ==
  ASSUME RingCareful, RInv, calls # <<>>, Last(calls).kind # "closing", NEW e, Plain(ed, e), Outer(e, Front(calls))
  PROVE  RInv'
<1>1. Fit(ed, Front(calls)) /\ Closing(Front(calls)) = Closing(calls)
  BY RInvFacts, FitFront
<1> DEFINE c == Front(calls)
<1> HIDE DEF c
<1>2. Fit(ed, c) /\ Closing(c) = Closing(calls) /\ Outer(e, c)
  BY <1>1 DEF c
<1> QED
  BY <1>2, OuterPlain

LEMMA HookReturnsRing == ASSUME RingCareful, RInv, HookReturns PROVE RInv'
<1>1. CASE Waits("edit") /\ Outer(ed, Front(calls))
  <2>1. calls # <<>> /\ Last(calls).kind = "edit"
    BY <1>1 DEF Waits, Top
  <2> QED
    BY <1>1, <2>1, RInvFacts, ReturnRing
<1>2. CASE /\ Waits("close") /\ Cardinality(Unused(ed)) > 0
           /\ Outer(CloseCurrent(ed, Top.buffer), CallWith(Front(calls), "closing", Top.buffer))
  BY <1>2, CloseHookRing
<1>3. CASE Waits("closing") /\ Outer(UndoReinsert(ed, Top.buffer), Front(calls))
  BY <1>3, ClosingHookRing
<1> QED
  BY <1>1, <1>2, <1>3 DEF HookReturns

(* Saving changes neither the ring nor what is edited.                     *)
LEMMA SaveStepsRing ==
  ASSUME RingCareful, RInv, SaveCommand \/ SaveAllCommand \/ SaveNext PROVE RInv'
<1>0. Base(ed) /\ Plain(ed, ed) /\ Fit(ed, calls) /\ (MayExecute => NotSaving(calls))
  BY RInvFacts
<1>1. CASE SaveCommand
  <2>1. PICK b, n : Executed(ed, CallSave(calls, b, n))
    BY <1>1 DEF SaveCommand
  <2> DEFINE c == CallSave(calls, b, n)
  <2>2. Fit(ed, c) /\ Closing(c) = Closing(calls)
    BY <1>0, NewFits
  <2>3. Executed(ed, c)
    BY <2>1
  <2> HIDE DEF c
  <2> QED
    BY <1>0, <2>2, <2>3, ExecutedPlain
<1>2. CASE SaveAllCommand
  <2> DEFINE c == Call(calls, "all")
  <2>1. MayExecute /\ Executed(ed, c)
    BY <1>2 DEF SaveAllCommand
  <2>2. Fit(ed, c) /\ Closing(c) = Closing(calls)
    BY <1>0, <2>1, NewFits
  <2> HIDE DEF c
  <2> QED
    BY <1>0, <2>1, <2>2, ExecutedPlain
<1>3. CASE SaveNext
  <2> DEFINE dirty == {b \in InRing(ed) : ed.dirty[b]}
             c == CallSave(calls, FirstOf(ed, dirty), NoName)
  <2>1. calls # <<>> /\ Last(calls).kind = "all" /\ (Outer(ed, Front(calls)) \/ Outer(ed, c))
    BY <1>3 DEF SaveNext, Waits, Top
  <2>2. Fit(ed, c) /\ Closing(c) = Closing(calls)
    BY <1>0, NewFits
  <2> HIDE DEF c
  <2>3. CASE Outer(ed, Front(calls))
    BY <1>0, <2>1, <2>3, ReturnRing
  <2>4. CASE Outer(ed, c)
    BY <1>0, <2>2, <2>4, OuterPlain
  <2> QED
    BY <2>1, <2>3, <2>4
<1> QED
  BY <1>1, <1>2, <1>3

(* A step of saving is followed by the next one.                           *)
LEMMA GoesOn ==
  ASSUME RingCareful, RInv, calls # <<>>, Last(calls).kind \in {"save", "open"}, NEW e, Plain(ed, e),
         NEW x, "kind" \in DOMAIN x, x.kind \in {"open", "write"}, Outer(e, Append(Front(calls), x))
  PROVE  RInv'
<1> DEFINE d == Front(calls)
           c == Append(d, x)
<1>1. Fit(ed, d) /\ Closing(d) = Closing(calls)
  BY RInvFacts, FitFront
<1> HIDE DEF d
<1>2. x.kind \notin {"close", "closing", "saved", "files"} /\ x.kind \in Savings
  BY DEF Savings
<1>3. Fit(ed, c) /\ Closing(c) = Closing(calls)
  BY <1>1, <1>2, FitCall
<1>4. Outer(e, c)
  BY DEF d
<1> HIDE DEF c
<1> QED
  BY <1>3, <1>4, OuterPlain

LEMMA WriteStepsRing ==
  ASSUME RingCareful, RInv, StartSaving \/ OpenFile \/ WriteFile PROVE RInv'
<1>0. Base(ed) /\ Plain(ed, ed) /\ Fit(ed, calls)
  BY RInvFacts
<1>1. calls # <<>> => "kind" \in DOMAIN Last(calls)
  BY <1>0, FitFront DEF FrameFit
<1>2. CASE StartSaving
  <2>1. PICK refused \in BOOLEAN :
          /\ Waits("save")
          /\ \E f \in {NameFor(ed, Top)} :
               IF f = NoName THEN Outer(Fail(ed), <<>>)
               ELSE Outer(PutAside(ed, f, refused), Append(Front(calls), [Top EXCEPT !.kind = "open", !.name = f]))
    BY <1>2 DEF StartSaving
  <2> DEFINE f == NameFor(ed, Top)
             x == [Top EXCEPT !.kind = "open", !.name = f]
             e == PutAside(ed, f, refused)
  <2>2. Outer(Fail(ed), <<>>) \/ Outer(e, Append(Front(calls), x))
    BY <2>1
  <2>3. calls # <<>> /\ Last(calls).kind = "save" /\ "kind" \in DOMAIN Top
    BY <1>1, <2>1 DEF Waits, Top
  <2>4. "kind" \in DOMAIN x /\ x.kind = "open"
    BY <2>3
  <2>5. Plain(ed, e)
    BY <1>0, PlainAside
  <2> HIDE DEF x, e
  <2> QED
    BY <2>2, <2>3, <2>4, <2>5, GoesOn, FailedRing
<1>3. CASE OpenFile
  <2> DEFINE x == [Top EXCEPT !.kind = "write"]
             e == [ed EXCEPT !.disk[Top.name] = Torn]
  <2>1. Waits("open") /\ (Outer(Fail(ed), <<>>) \/ Outer(e, Append(Front(calls), x)))
    BY <1>3 DEF OpenFile
  <2>3. calls # <<>> /\ Last(calls).kind = "open" /\ "kind" \in DOMAIN Top
    BY <1>1, <2>1 DEF Waits, Top
  <2>4. "kind" \in DOMAIN x /\ x.kind = "write"
    BY <2>3
  <2>5. Plain(ed, e)
    BY <1>0, PlainDisk
  <2> HIDE DEF x, e
  <2> QED
    BY <2>1, <2>3, <2>4, <2>5, GoesOn, FailedRing
<1>4. CASE WriteFile
  <2>1. PICK text :
          /\ Waits("write")
          /\ \/ Outer(Fail(ed), <<>>)
             \/ Outer(Written([ed EXCEPT !.disk[Top.name] = text], Top.buffer, Top.name), Front(calls))
    <3>1. PICK how \in {"ok", "failed", "lost"} :
            /\ Waits("write")
            /\ IF how = "failed" THEN Outer(Fail(ed), <<>>)
               ELSE Outer(Written([ed EXCEPT !.disk[Top.name] = IF how = "ok" THEN Content(ed, Top.buffer) ELSE Torn],
                                  Top.buffer, Top.name), Front(calls))
      BY <1>4 DEF WriteFile
    <3> DEFINE text == IF how = "ok" THEN Content(ed, Top.buffer) ELSE Torn
    <3>2. /\ Waits("write")
          /\ \/ Outer(Fail(ed), <<>>)
             \/ Outer(Written([ed EXCEPT !.disk[Top.name] = text], Top.buffer, Top.name), Front(calls))
      BY <3>1
    <3> HIDE DEF text
    <3> QED
      BY <3>2
  <2> DEFINE f == [ed EXCEPT !.disk[Top.name] = text]
             e == Written(f, Top.buffer, Top.name)
  <2>2. Plain(ed, f)
    BY <1>0, PlainDisk
  <2> HIDE DEF f
  <2>3. Plain(ed, e)
    BY <2>2, PlainWritten
  <2>4. Outer(Fail(ed), <<>>) \/ Outer(e, Front(calls))
    BY <2>1 DEF f
  <2>5. calls # <<>> /\ Last(calls).kind = "write"
    BY <2>1 DEF Waits, Top
  <2> HIDE DEF e
  <2> QED
    BY <2>3, <2>4, <2>5, ReturnRing, FailedRing
<1> QED
  BY <1>2, <1>3, <1>4

(* Insertions, ER, errors; EB has edited all of its files.                 *)
LEMMA TextStepsRing ==
  ASSUME RingCareful, RInv, Insert \/ ReadFile \/ Refuse \/ EditFilesDone \/ HookFails PROVE RInv'
<1>0. Base(ed) /\ Plain(ed, ed) /\ Fit(ed, calls)
  BY RInvFacts
<1>1. CASE Insert
  <2>1. PICK text \in Texts : ~ed.register /\ Executed(Changed(ed, text), calls)
    BY <1>1 DEF Insert
  <2>2. Plain(ed, Changed(ed, text))
    BY <1>0, <2>1, PlainChange
  <2> QED
    BY <1>0, <2>1, <2>2, ExecutedPlain
<1>2. CASE ReadFile
  <2>1. PICK text \in Texts : ~ed.register /\ (Executed(Fail(ChangeText(ed, text)), calls) \/ Executed(Changed(ed, text), calls))
    <3>1. PICK text \in Texts, interrupted \in BOOLEAN :
            ~ed.register /\ Executed(IF interrupted THEN Fail(ChangeText(ed, text)) ELSE Changed(ed, text), calls)
      BY <1>2 DEF ReadFile
    <3> QED
      BY <3>1
  <2>2. Plain(ed, Changed(ed, text)) /\ Plain(ed, Fail(ChangeText(ed, text)))
    BY <1>0, <2>1, PlainChange
  <2> QED
    BY <1>0, <2>1, <2>2, ExecutedPlain
<1>3. CASE Refuse
  <2>1. Executed(Fail(ed), calls) /\ Plain(ed, Fail(ed))
    BY <1>0, <1>3, PlainFail DEF Refuse
  <2> QED
    BY <1>0, <2>1, ExecutedPlain
<1>4. CASE EditFilesDone
  <2>1. calls # <<>> /\ Last(calls).kind = "files" /\ Outer(ed, Front(calls))
    BY <1>4 DEF EditFilesDone, Waits, Top
  <2> QED
    BY <1>0, <2>1, ReturnRing
<1>5. CASE HookFails
  <2>1. Outer(Fail(ed), <<>>)
    BY <1>5 DEF HookFails
  <2> QED
    BY <2>1, FailedRing
<1> QED
  BY <1>1, <1>2, <1>3, <1>4, <1>5

-----------------------------------------------------------------------------
(* Rubout, the end of a command line, crashes, again.                      *)

(* What comes back is what the user has seen.                              *)
ShowsAgain(e, seen) ==
  /\ Order(e) = seen[1] /\ e.current = seen[2].current
  /\ e.register = seen[2].register /\ e.view = seen[2].view

LEMMA RubbedTo ==
  ASSUME NEW e, NEW s, NEW h, RingOK(e, s, s, {}, h), e.undo, IsSequence(h), h # <<>>
  PROVE  LET g == [RunTokens(e, Last(h).tokens + 1) EXCEPT !.failed = FALSE] IN
           RingFor(g, {}, Front(h)) /\ ShowsAgain(g, Last(h).seen)
<1> DEFINE n == Last(h).tokens
           m == Len(h)
           tk == e.tokens
           q == Front(h)
           g == RunTokens(e, n + 1)
           f == [g EXCEPT !.failed = FALSE]
<1>1. /\ IsSequence(q) /\ Len(q) = m - 1 /\ m \in Nat \ {0}
      /\ Last(h) = h[m] /\ \A i \in 1 .. (m - 1) : q[i] = h[i]
  BY FrontSequence
<1>2. m \in 1 .. m /\ \A i \in 1 .. (m - 1) : i \in 1 .. m /\ i <= m
  BY <1>1
<1>3. PICK a : Trail(tk, a, e.links.next) /\ a[Len(tk)] = Look(e, s) /\ Stops(tk, a, h)
  BY DEF RingOK, HasTrail
<1>4. Base(e) /\ LooksLike(e, a[Len(tk)])
  BY <1>3 DEF RingOK
<1>5. /\ n \in 0 .. Len(tk) /\ RightLook(a[n], KeptIn(tk, n)) /\ IsSeen(a[n], Last(h).seen)
  BY <1>1, <1>2, <1>3 DEF Stops
<1>6. /\ Base(g) /\ g.undo = e.undo /\ LooksLike(g, a[n]) /\ Trail(g.tokens, a, g.links.next)
      /\ Len(g.tokens) = n /\ \A i \in 1 .. n : g.tokens[i] = tk[i]
  BY <1>3, <1>4, <1>5, RubbedLooks
<1> HIDE DEF g, q
<1> DEFINE A == a[n]
           r == A.seq
<1>7. KeptBy(g.tokens) = KeptIn(tk, n)
  BY <1>6 DEF KeptBy, KeptIn
<1>8. Look(g, r) = A
  <2>1. A \in Looks
    BY <1>5 DEF RightLook, IsLook
  <2>2. A = [seq |-> A.seq, live |-> A.live, current |-> A.current, register |-> A.register, view |-> A.view]
    <3> HIDE DEF A
    <3> QED
      BY <2>1 DEF Looks
  <2>3. g.live = A.live /\ g.current = A.current /\ g.register = A.register /\ g.view = A.view
    BY <1>6 DEF LooksLike
  <2> HIDE DEF A
  <2> QED
    BY <2>2, <2>3 DEF Look
<1>9. Stops(g.tokens, a, q)
  <2>1. ASSUME NEW i \in 1 .. (m - 1)
        PROVE  /\ q[i].tokens \in 0 .. n /\ RightLook(a[q[i].tokens], KeptIn(g.tokens, q[i].tokens))
               /\ IsSeen(a[q[i].tokens], q[i].seen)
    <3>1. i \in 1 .. m /\ q[i] = h[i] /\ i <= m
      BY <1>1, <1>2
    <3> DEFINE k == h[i].tokens
    <3>2. k \in 0 .. Len(tk) /\ RightLook(a[k], KeptIn(tk, k)) /\ IsSeen(a[k], h[i].seen)
      BY <1>3, <3>1 DEF Stops
    <3>3. k <= n
      BY <1>1, <1>2, <1>3, <3>1 DEF Stops
    <3> HIDE DEF k, n
    <3>4. k \in 0 .. n
      BY <1>5, <3>2, <3>3
    <3>5. KeptIn(g.tokens, k) = KeptIn(tk, k)
      <4>1. \A j \in 1 .. k : g.tokens[j] = tk[j]
        BY <1>5, <1>6, <3>4
      <4> QED
        BY <4>1 DEF KeptIn
    <3> QED
      BY <3>1, <3>2, <3>4, <3>5 DEF k
  <2>2. \A i, j \in 1 .. (m - 1) : i <= j => q[i].tokens <= q[j].tokens
    BY <1>1, <1>2, <1>3 DEF Stops
  <2> QED
    BY <1>1, <1>6, <2>1, <2>2 DEF Stops
<1>10. HasTrail(g.tokens, A, g.links.next, q)
  BY <1>6, <1>9 DEF HasTrail
<1>11. IsClosing(r, r, {}, g.links.next)
  BY <1>5 DEF IsClosing, RightLook, IsLook, Looks
<1> HIDE DEF A
<1>12. RightLook(A, KeptBy(g.tokens) \cup {})
  <2>1. KeptIn(tk, n) \cup {} = KeptIn(tk, n)
    OBVIOUS
  <2> QED
    BY <1>5, <1>7, <2>1 DEF A
<1>13. LooksLike(g, A)
  BY <1>6 DEF A
<1>14. RingOK(g, r, r, {}, q)
  BY <1>6, <1>8, <1>10, <1>11, <1>12, <1>13 DEF RingOK
<1>15. SameRing(g, f)
  BY <1>6 DEF SameRing, SameButTokens, Base, Fields
<1> HIDE DEF f
<1>16. RingOK(f, r, r, {}, q)
  BY <1>14, <1>15, RingStays
<1>17. Order(f) = r
  BY <1>16, RingFacts
<1>18. f.current = A.current /\ f.register = A.register /\ f.view = A.view
  BY <1>13, <1>15 DEF SameRing, SameButTokens, LooksLike
<1>19. ShowsAgain(f, Last(h).seen)
  BY <1>5, <1>17, <1>18 DEF ShowsAgain, IsSeen, A
<1>20. RingFor(f, {}, q)
  BY <1>16 DEF RingFor
<1> QED
  BY <1>19, <1>20 DEF f, g, q

LEMMA RuboutRing ==
  ASSUME RInv, Rubout
  PROVE  RInv' /\ ShowsAgain(ed', Last(history).seen)
<1> DEFINE g == [RunTokens(ed, Last(history).tokens + 1) EXCEPT !.failed = FALSE]
<1>1. ed.undo /\ calls = <<>> /\ history # <<>> /\ ed' = g /\ history' = Front(history) /\ calls' = calls
  BY DEF Rubout
<1>2. Closing(calls) = {} /\ IsSequence(history)
  BY <1>1, NothingFits DEF RInv
<1>3. PICK s, V : RingOK(ed, s, V, {}, history)
  BY <1>2 DEF RInv, RingFor
<1>4. V = s
  BY <1>3 DEF RingOK, IsClosing
<1>5. RingFor(g, {}, Front(history)) /\ ShowsAgain(g, Last(history).seen)
  BY <1>1, <1>2, <1>3, <1>4, RubbedTo
<1> HIDE DEF g
<1>6. IsSequence(Front(history))
  BY <1>1, <1>2, FrontSequence
<1> QED
  BY <1>1, <1>2, <1>5, <1>6, NothingFits DEF RInv

(* What is left after the tokens from a certain one on have been dropped.  *)
IsFreed(tk, a, b) == \E j \in 1 .. Len(tk) : a <= j /\ tk[j].kind = "reinsert" /\ tk[j].buffer = b
Freed(e, a, f) ==
  /\ DOMAIN f = Fields /\ f.links = e.links /\ f.current = e.current /\ f.register = e.register
  /\ f.view = e.view /\ f.undo = e.undo /\ ~f.dangling
  /\ f.live \in [Entries -> BOOLEAN]
  /\ \A b \in Entries : f.live[b] <=> e.live[b] /\ ~IsFreed(e.tokens, a, b)

(* One more: no buffer is freed twice.                                     *)
LEMMA FreedOne ==
  ASSUME NEW e, NEW a \in 1 .. Len(e.tokens), Len(e.tokens) \in Nat, NEW f, Freed(e, a + 1, f),
         \A j \in 1 .. Len(e.tokens) : e.tokens[j].kind = "reinsert" =>
           e.tokens[j].buffer \in Entries /\ e.live[e.tokens[j].buffer],
         \A j, k \in 1 .. Len(e.tokens) : j < k /\ e.tokens[j].kind = "reinsert" /\ e.tokens[k].kind = "reinsert" =>
           e.tokens[j].buffer # e.tokens[k].buffer
  PROVE  Freed(e, a, DropToken(f, e.tokens[a]))
<1> DEFINE tk == e.tokens
           t == tk[a]
           g == DropToken(f, t)
<1>1. \A j \in 1 .. Len(tk) : a <= j <=> j = a \/ a + 1 <= j
  OBVIOUS
<1>2. \A b : IsFreed(tk, a, b) <=> (t.kind = "reinsert" /\ t.buffer = b) \/ IsFreed(tk, a + 1, b)
  BY <1>1 DEF IsFreed
<1>3. CASE t.kind = "reinsert"
  <2> DEFINE c == t.buffer
  <2>1. g = FreeBuffer(f, c)
    BY <1>3 DEF DropToken
  <2>2. c \in Entries /\ e.live[c]
    BY <1>3
  <2>3. ~IsFreed(tk, a + 1, c)
    <3> SUFFICES ASSUME NEW j \in 1 .. Len(tk), a + 1 <= j, tk[j].kind = "reinsert", tk[j].buffer = c PROVE FALSE
      BY DEF IsFreed
    <3>1. a < j
      OBVIOUS
    <3> QED
      BY <1>3, <3>1
  <2>4. f.live[c]
    BY <2>2, <2>3 DEF Freed
  <2> HIDE DEF t, c, g
  <2>5. /\ DOMAIN g = Fields /\ g.links = f.links /\ g.current = f.current /\ g.register = f.register
        /\ g.view = f.view /\ g.undo = f.undo /\ g.live = [f.live EXCEPT ![c] = FALSE]
        /\ g.dangling = (f.dangling \/ ~f.live[c])
    BY <2>1 DEF FreeBuffer, Freed, Fields
  <2>6. ~g.dangling
    BY <2>4, <2>5 DEF Freed
  <2>7. g.live \in [Entries -> BOOLEAN] /\ \A b \in Entries : g.live[b] <=> f.live[b] /\ b # c
    BY <2>5 DEF Freed
  <2>8. \A b \in Entries : g.live[b] <=> e.live[b] /\ ~IsFreed(tk, a, b)
    BY <1>2, <1>3, <2>7 DEF Freed, c
  <2> QED
    BY <2>5, <2>6, <2>7, <2>8 DEF Freed, g, t
<1>4. CASE t.kind # "reinsert"
  <2>1. g \in {f, DropPoint(f, t)}
    BY <1>4 DEF DropToken
  <2> HIDE DEF t, g
  <2>2. /\ DOMAIN g = Fields /\ g.links = f.links /\ g.current = f.current /\ g.register = f.register
        /\ g.view = f.view /\ g.undo = f.undo /\ g.live = f.live /\ g.dangling = f.dangling
    BY <2>1 DEF DropPoint, Freed, Fields
  <2>3. \A b : IsFreed(tk, a, b) <=> IsFreed(tk, a + 1, b)
    BY <1>2, <1>4
  <2> QED
    BY <2>2, <2>3 DEF Freed, g, t
<1> QED
  BY <1>3, <1>4

LEMMA FreedAll ==
  ASSUME NEW e, IsSequence(e.tokens), Freed(e, Len(e.tokens) + 1, e),
         \A j \in 1 .. Len(e.tokens) : e.tokens[j].kind = "reinsert" =>
           e.tokens[j].buffer \in Entries /\ e.live[e.tokens[j].buffer],
         \A j, k \in 1 .. Len(e.tokens) : j < k /\ e.tokens[j].kind = "reinsert" /\ e.tokens[k].kind = "reinsert" =>
           e.tokens[j].buffer # e.tokens[k].buffer
  PROVE  \E f : Freed(e, 1, f) /\ DropTokens(e) = [f EXCEPT !.tokens = <<>>]
<1> DEFINE s == e.tokens
           m == Len(s)
<1>1. PICK T : s \in Seq(T)
  BY DEF IsSequence
<1>2. m \in Nat /\ DOMAIN s = 1 .. m
  BY <1>1
<1>3. PICK it : /\ Rolls(FALSE, it, s, e)
                /\ FoldRight(LAMBDA t, f : DropToken(f, t), s, e) = it[DOMAIN s]
  BY <1>1, FoldDrops
<1>4. DropTokens(e) = [it[1 .. m] EXCEPT !.tokens = <<>>]
  BY <1>2, <1>3 DEF DropTokens
<1> HIDE DEF s, m
<1> DEFINE S == {k \in Nat : k <= m => Freed(e, m - k + 1, it[(m - k + 1) .. m])}
<1>5. 0 \in S
  <2>1. (m - 0 + 1) .. m = {} /\ m - 0 + 1 = m + 1
    BY <1>2
  <2>2. it[{}] = e
    BY <1>3 DEF Rolls
  <2> QED
    BY <2>1, <2>2 DEF s, m
<1>6. ASSUME NEW k \in Nat, k \in S PROVE k + 1 \in S
  <2> SUFFICES ASSUME k + 1 <= m PROVE Freed(e, m - (k + 1) + 1, it[(m - (k + 1) + 1) .. m])
    OBVIOUS
  <2> DEFINE a == m - k
             I == a .. m
             f == it[(a + 1) .. m]
  <2>1. Freed(e, a + 1, f)
    <3>1. k <= m
      BY <1>2
    <3> QED
      BY <1>6, <3>1
  <2>0. a \in 1 .. m /\ m - (k + 1) + 1 = a
    BY <1>2
  <2> HIDE DEF a
  <2>3. Min(I) = a /\ I \ {a} = (a + 1) .. m /\ I # {}
    <3>1. a \in Nat /\ m \in Nat /\ a <= m
      BY <1>2, <2>0
    <3> HIDE DEF f
    <3> QED
      BY <3>1, LeastOfInterval, Zenon
  <2>4. I \subseteq 1 .. m
    BY <1>2, <2>0
  <2> HIDE DEF I
  <2>5. it[I] = Roll(FALSE, it[I \ {Min(I)}], s[Min(I)])
    BY <1>2, <1>3, <2>3, <2>4 DEF Rolls
  <2>6. it[I] = DropToken(f, s[a])
    BY <2>3, <2>5 DEF Roll
  <2>7. Freed(e, a, DropToken(f, s[a]))
    <3> HIDE DEF f
    <3>1. a \in 1 .. Len(e.tokens) /\ Len(e.tokens) \in Nat
      BY <1>2, <2>0 DEF s, m
    <3>2. Freed(e, a, DropToken(f, e.tokens[a]))
      BY <2>1, <3>1, FreedOne
    <3> QED
      BY <3>2 DEF s
  <2>8. Freed(e, a, it[a .. m])
    BY <2>6, <2>7 DEF I
  <2> QED
    BY <2>0, <2>8
<1> HIDE DEF S
<1>7. m \in S
  BY <1>2, <1>5, <1>6, SetInduction
<1>8. Freed(e, m - m + 1, it[(m - m + 1) .. m]) /\ m - m + 1 = 1
  BY <1>2, <1>7 DEF S
<1>9. Freed(e, 1, it[1 .. m])
  BY <1>8
<1> QED
  BY <1>4, <1>9

(* Accepting the command line frees what has been kept.                    *)
LEMMA DroppedRing ==
  ASSUME NEW e, NEW s, NEW h, RingOK(e, s, s, {}, h)
  PROVE  RingFor(DropTokens(e), {}, <<>>)
<1> DEFINE tk == e.tokens
           N == Len(tk)
<1>1. /\ Base(e) /\ IsList(e.links, s) /\ e.links \in Links /\ ~e.dangling /\ s \in Seq(Entries) /\ Distinct(s)
      /\ e.live \in [Entries -> BOOLEAN] /\ e.current \in Entries /\ e.register \in BOOLEAN
      /\ e.view \in Entries \cup {"register"} /\ e.current \in Members(s)
      /\ e.view = (IF e.register THEN "register" ELSE e.current)
      /\ Allocated(e.live, s, KeptBy(tk) \cup {})
      /\ \A b \in KeptBy(tk) : b \in Entries /\ b \notin Members(s)
  BY RingFacts
<1>2. IsSequence(tk) /\ N \in Nat
  BY <1>1, SequenceLength DEF Base
<1>3. \A j \in 1 .. N : tk[j].kind = "reinsert" => tk[j].buffer \in Entries /\ e.live[tk[j].buffer]
  <2> SUFFICES ASSUME NEW j \in 1 .. N, tk[j].kind = "reinsert"
               PROVE  tk[j].buffer \in Entries /\ e.live[tk[j].buffer]
    OBVIOUS
  <2>1. tk[j].buffer \in KeptBy(tk)
    BY DEF KeptBy, KeptIn
  <2> QED
    BY <1>1, <2>1 DEF Allocated
<1>4. ASSUME NEW j \in 1 .. N, NEW k \in 1 .. N, j < k, tk[j].kind = "reinsert", tk[k].kind = "reinsert"
      PROVE  tk[j].buffer # tk[k].buffer
  <2>1. e.undo
    <3> SUFFICES ASSUME ~e.undo PROVE FALSE
      OBVIOUS
    <3>1. tk = <<>>
      BY DEF RingOK
    <3> QED
      BY <3>1
  <2>2. PICK a : Trail(tk, a, e.links.next)
    BY <2>1 DEF RingOK, HasTrail
  <2>3. k - 1 \in 1 .. N /\ j <= k - 1 /\ k - 1 \in 0 .. N
    BY <1>2, <1>4
  <2>4. tk[j].buffer \notin Members(a[k - 1].seq)
    BY <1>4, <2>2, <2>3 DEF Trail
  <2>5. PlaceOf(a[k - 1].seq, tk[k].buffer, a[k].seq, e.links.next[tk[k].buffer])
    BY <1>4, <2>2 DEF Trail, LeadsBack, PlainKinds
  <2>6. tk[k].buffer \in Members(a[k - 1].seq)
    BY <2>5 DEF PlaceOf, Members
  <2> QED
    BY <2>4, <2>6
<1>5. Freed(e, N + 1, e)
  <2>1. \A b : ~IsFreed(tk, N + 1, b)
    BY <1>2 DEF IsFreed
  <2> QED
    BY <1>1, <2>1 DEF Freed, Base
<1>6. PICK f : Freed(e, 1, f) /\ DropTokens(e) = [f EXCEPT !.tokens = <<>>]
  BY <1>2, <1>3, <1>4, <1>5, FreedAll
<1> DEFINE none == <<>>
           g == [f EXCEPT !.tokens = none]
<1>0. KeptBy(none) = {} /\ Len(none) = 0 /\ IsSequence(none)
  BY NothingKept
<1> HIDE DEF none
<1>7. /\ DOMAIN g = Fields /\ g.links = e.links /\ g.current = e.current /\ g.register = e.register
      /\ g.view = e.view /\ g.undo = e.undo /\ ~g.dangling /\ g.live \in [Entries -> BOOLEAN] /\ g.tokens = none
      /\ \A b \in Entries : g.live[b] <=> e.live[b] /\ ~IsFreed(tk, 1, b)
  BY <1>6 DEF Freed, Fields
<1> HIDE DEF g
<1>8. Base(g)
  BY <1>0, <1>7 DEF Base
<1>9. \A b \in Entries : IsFreed(tk, 1, b) <=> b \in KeptBy(tk)
  BY <1>2 DEF IsFreed, KeptBy, KeptIn
<1>10. \A b \in Entries : g.live[b] <=> b \in Members(s)
  BY <1>1, <1>7, <1>9 DEF Allocated
<1> DEFINE A == Look(g, s)
<1>11. /\ A.seq = s /\ A.live = g.live /\ A.current = g.current /\ A.register = g.register /\ A.view = g.view
       /\ IsLook(A)
  BY <1>1, <1>7 DEF Look, IsLook, Looks
<1> HIDE DEF A
<1>12. LooksLike(g, A)
  BY <1>1, <1>7, <1>11 DEF LooksLike
<1>13. RightLook(A, {} \cup {})
  BY <1>1, <1>7, <1>10, <1>11 DEF RightLook
<1>14. IsClosing(s, s, {}, g.links.next)
  BY <1>1 DEF IsClosing
<1>15. HasTrail(<<>>, A, g.links.next, <<>>)
  BY <1>11, NoTrail
<1>16. RingOK(g, s, s, {}, <<>>)
  BY <1>0, <1>7, <1>8, <1>12, <1>13, <1>14, <1>15 DEF RingOK, A, none
<1> QED
  BY <1>6, <1>16 DEF RingFor, g, none

LEMMA TerminateRing == ASSUME RInv, Terminate PROVE RInv'
<1>1. calls = <<>> /\ ed' = DropTokens(ed) /\ history' = <<>> /\ calls' = calls
  BY DEF Terminate
<1>2. Closing(calls) = {}
  BY <1>1, NothingFits
<1>3. PICK s, V : RingOK(ed, s, V, {}, history)
  BY <1>2 DEF RInv, RingFor
<1>4. V = s
  BY <1>3 DEF RingOK, IsClosing
<1>5. RingFor(DropTokens(ed), {}, <<>>)
  BY <1>3, <1>4, DroppedRing
<1> QED
  BY <1>1, <1>2, <1>5, NothingFits, NothingKept DEF RInv

(* An editor that has just been started has a ring, of which it edits one  *)
(* buffer, and no tokens.                                                  *)
LEMMA FreshRing ==
  ASSUME NEW e, Base(e), e.tokens = <<>>, NEW s, e.links \in Links, IsList(e.links, s), ~e.dangling, ~e.register,
         e.live \in [Entries -> BOOLEAN], \A b \in Entries : e.live[b] <=> b \in Members(s),
         e.register \in BOOLEAN, e.current \in Entries, e.current \in Members(s), e.view = e.current
  PROVE  RingFor(e, {}, <<>>)
<1> DEFINE A == Look(e, s)
<1>1. s \in Seq(Entries) /\ Distinct(s)
  BY DEF IsList
<1>2. /\ A.seq = s /\ A.live = e.live /\ A.current = e.current /\ A.register = e.register /\ A.view = e.view
      /\ IsLook(A)
  BY <1>1 DEF Look, IsLook, Looks
<1> HIDE DEF A
<1>3. LooksLike(e, A)
  BY <1>2 DEF LooksLike
<1>4. RightLook(A, {} \cup {})
  BY <1>2 DEF RightLook
<1>5. IsClosing(s, s, {}, e.links.next)
  BY <1>1 DEF IsClosing
<1>6. HasTrail(<<>>, A, e.links.next, <<>>)
  BY <1>2, NoTrail
<1>7. KeptBy(e.tokens) = {}
  BY NothingKept
<1>8. RingOK(e, s, s, {}, <<>>)
  BY <1>3, <1>4, <1>5, <1>6, <1>7 DEF RingOK, A
<1> QED
  BY <1>8 DEF RingFor

LEMMA InitRing == ASSUME Init PROVE RInv
<1>1. /\ ed \in InitStates /\ calls = <<>> /\ history = <<>>
  BY DEF Init
<1>2. /\ IsList(ed.links, Order(ed)) /\ {b \in Entries : ed.live[b]} = InRing(ed)
      /\ ed.current \in InRing(ed) /\ ed.view = ed.current
  BY <1>1, InitialRingsAssumption
<1>3. /\ DOMAIN ed = Fields /\ ed.tokens = <<>> /\ ed.links \in Links /\ ed.live \in [Entries -> BOOLEAN]
      /\ ed.current \in Entries /\ ed.register \in {FALSE} /\ ed.dangling \in {FALSE}
  BY <1>1, InitStatesAssumption DEF Fields
<1> DEFINE s == Order(ed)
<1>4. InRing(ed) = Members(s)
  BY <1>2, OrderIsTheList DEF Members
<1> HIDE DEF s
<1>5. Base(ed)
  BY <1>3, NothingKept DEF Base
<1>6. \A b \in Entries : ed.live[b] <=> b \in Members(s)
  BY <1>2, <1>4
<1>7. RingFor(ed, {}, <<>>)
  <2>1. ~ed.dangling /\ ~ed.register /\ ed.register \in BOOLEAN
    BY <1>3
  <2>2. IsList(ed.links, s)
    BY <1>2 DEF s
  <2> QED
    BY <1>2, <1>3, <1>4, <1>5, <1>6, <2>1, <2>2, FreshRing
<1> QED
  BY <1>1, <1>7, NothingFits, NothingKept DEF RInv

(* After a crash, the editor is started without files.                     *)
LEMMA CrashRing == ASSUME RInv, Crash PROVE RInv'
<1> DEFINE b == CHOOSE x \in Entries : TRUE
           none == <<>>
           off == FALSE
           e0 == [links |-> EmptyTailq, live |-> [x \in Entries |-> FALSE], name |-> [x \in Entries |-> NoName],
                  dirty |-> [x \in Entries |-> FALSE], text |-> [x \in Entries |-> ""],
                  past |-> [x \in Entries |-> <<>>],
                  current |-> b, register |-> off, view |-> b, disk |-> ed.disk, points |-> ed.points, id |-> 0,
                  tokens |-> none, undo |-> ed.undo, failed |-> FALSE, dangling |-> off]
           e == NewBuffer(e0, b)
           s == Append(<<>>, b)
<1>1. ed' = e /\ calls' = <<>> /\ history' = <<>>
  BY DEF Crash, NewEditor
<1>2. b \in Entries
  <2>1. RingFor(ed, Closing(calls), history)
    BY DEF RInv
  <2>2. ed.current \in Entries
    BY <2>1, ForFacts
  <2> QED
    BY <2>2
<1> HIDE DEF b
<1>3. EmptyTailq \in Links /\ IsList(EmptyTailq, <<>>)
  <2>1. EmptyTailq \in Links
    BY DEF EmptyTailq, Links, Nodes
  <2>2. Root \in Nodes /\ EmptyTailq.next[Root] = Null /\ EmptyTailq.prev[Root] = Root
    BY DEF EmptyTailq, Nodes
  <2>3. Len(<<>>) = 0 /\ <<>> \in Seq(Entries)
    OBVIOUS
  <2> QED
    BY <2>1, <2>2, <2>3 DEF IsList, Distinct, NodeOf, NextOf
<1>4. IsList(InsertTail(EmptyTailq, b), s) /\ InsertTail(EmptyTailq, b) \in Links
  <2>1. Len(<<>>) = 0 /\ <<>> \in Seq(Entries) /\ \A i \in 1 .. Len(<<>>) : <<>>[i] # b
    OBVIOUS
  <2> QED
    BY <1>2, <1>3, <2>1, InsertTailAppends
<1>5. Members(s) = {b}
  <2>1. Len(s) = 1 /\ s[1] = b
    OBVIOUS
  <2> HIDE DEF s
  <2> QED
    BY <2>1 DEF Members
<1> HIDE DEF s, none, off
<1>6. /\ DOMAIN e = Fields /\ e.tokens = none /\ e.links = InsertTail(EmptyTailq, b)
      /\ e.live = [[x \in Entries |-> FALSE] EXCEPT ![b] = TRUE]
      /\ e.current = b /\ e.register = off /\ e.view = b /\ e.dangling = off
  BY DEF NewBuffer, Fields
<1> HIDE DEF e, e0
<1>7. e.live \in [Entries -> BOOLEAN] /\ \A x \in Entries : e.live[x] <=> x \in Members(s)
  BY <1>2, <1>5, <1>6
<1>8. Base(e) /\ e.tokens = <<>>
  BY <1>6, NothingKept DEF Base, none
<1>9. ~e.dangling /\ ~e.register /\ e.register \in BOOLEAN
  BY <1>6 DEF off
<1>10. RingFor(e, {}, <<>>)
  BY <1>2, <1>4, <1>5, <1>6, <1>7, <1>8, <1>9, FreshRing
<1> QED
  BY <1>1, <1>10, NothingFits, NothingKept DEF RInv

LEMMA NextRing == ASSUME RingCareful, RInv, Next PROVE RInv'
<1>1. CASE EditFile \/ EditFiles \/ EditNextFile \/ EditById \/ EditRegister
  BY <1>1, EditFileRing, EditFilesRing, EditNextRing, EditByIdRing, EditRegisterRing
<1>2. CASE CloseCommand \/ CloseSaved \/ HookReturns
  BY <1>2, CloseCommandRing, CloseSavedRing, HookReturnsRing
<1>3. CASE SaveCommand \/ SaveAllCommand \/ SaveNext \/ StartSaving \/ OpenFile \/ WriteFile
  BY <1>3, SaveStepsRing, WriteStepsRing
<1>4. CASE Insert \/ ReadFile \/ Refuse \/ EditFilesDone \/ HookFails
  BY <1>4, TextStepsRing
<1>5. CASE Rubout \/ Terminate \/ Crash
  BY <1>5, RuboutRing, TerminateRing, CrashRing
<1> QED
  BY <1>1, <1>2, <1>3, <1>4, <1>5 DEF Next

(* What RingIsRing says of it.                                             *)
LEMMA RInvIsRing == ASSUME RInv PROVE RingIsRing
<1> DEFINE s == Order(ed)
           K == Closing(calls)
<1>1. RingFor(ed, K, history) /\ IsSequence(calls)
  BY DEF RInv, Fit
<1>2. PICK V : RingOK(ed, s, V, K, history)
  BY <1>1, OrderFor
<1> HIDE DEF s, K
<1>3. /\ Base(ed) /\ IsList(ed.links, s) /\ ~ed.dangling /\ ed.current \in Members(s)
      /\ ed.view = (IF ed.register THEN "register" ELSE ed.current)
      /\ Allocated(ed.live, s, KeptBy(ed.tokens) \cup K) /\ InRing(ed) = Members(s)
      /\ \A b \in KeptBy(ed.tokens) : b \in Entries
      /\ \A b \in K : b \in Entries
      /\ s \in Seq(Entries)
  BY <1>2, RingFacts
<1>4. Kept(ed) = KeptBy(ed.tokens) \cup K
  <2>1. PICK T : ed.tokens \in Seq(T)
    BY <1>3 DEF Base, IsSequence
  <2>2. PICK U : calls \in Seq(U)
    BY <1>1 DEF IsSequence
  <2>3. DOMAIN ed.tokens = 1 .. Len(ed.tokens) /\ DOMAIN calls = 1 .. Len(calls)
    BY <2>1, <2>2
  <2>4. {t.buffer : t \in {u \in ToSet(ed.tokens) : u.kind = "reinsert"}} = KeptBy(ed.tokens)
    BY <2>3 DEF ToSet, KeptBy, KeptIn
  <2>5. {c.buffer : c \in {d \in ToSet(calls) : d.kind = "closing"}} = K
    BY <2>3 DEF ToSet, Closing, K
  <2> QED
    BY <2>4, <2>5 DEF Kept
<1>5. Members(s) \subseteq Entries
  BY <1>3 DEF Members
<1>6. {b \in Entries : ed.live[b]} = InRing(ed) \cup Kept(ed)
  BY <1>3, <1>4, <1>5 DEF Allocated
<1> QED
  BY <1>3, <1>6 DEF RingIsRing, s

(* The buffers that are allocated are those of the ring, those that undo   *)
(* tokens will reinsert, and the one that is being closed; no memory is    *)
(* used that has been freed; and a buffer of the ring, or a register, is   *)
(* edited and shown: whatever ring.c has done, failed at or rubbed out.    *)
THEOREM RingIsRingProof ==
  ASSUME RingCareful PROVE Spec => []RingIsRing
<1>1. RInv /\ Next => RInv'
  BY NextRing
<1>2. RInv /\ UNCHANGED vars => RInv'
  BY DEF RInv, vars
<1> QED
  BY <1>1, <1>2, InitRing, RInvIsRing, PTL DEF Spec

(* Rubbing out a command shows the ring again that the user has seen       *)
(* before it: the same buffers in the same order, of which the same one,   *)
(* or a register, is edited (the tokens of ring.c, run by undo.c).         *)
RuboutShowsAgain == Rubout => ShowsAgain(ed', Last(history).seen)

THEOREM RuboutShowsAgainProof ==
  ASSUME RingCareful PROVE Spec => [][RuboutShowsAgain]_vars
<1>1. RInv /\ Next => RInv'
  BY NextRing
<1>2. RInv /\ UNCHANGED vars => RInv'
  BY DEF RInv, vars
<1>3. RInv => RuboutShowsAgain
  BY RuboutRing DEF RuboutShowsAgain
<1> QED
  BY <1>1, <1>2, <1>3, InitRing, PTL DEF Spec
=============================================================================
