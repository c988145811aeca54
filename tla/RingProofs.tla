----------------------------- MODULE RingProofs -----------------------------
(***************************************************************************)
(* The operations of tail queues do to the list what their names say, and  *)
(* reinserting an entry takes back its removal, whatever has happened to   *)
(* the list in between, as long as that has been taken back before.        *)
(*                                                                         *)
(* And the original of a file that is saved survives: until the command    *)
(* line is accepted it is in the file or in a save point, through errors,  *)
(* interruptions, rubout and crashes.  The state says so because the first *)
(* token about a file brings back its original, and the tokens that follow *)
(* bring back what it has been in between, in the opposite order.          *)
(***************************************************************************)
EXTENDS Ring, SequenceLemmas

-----------------------------------------------------------------------------
(* Tail queues.                                                            *)

(* The nodes of a list are different from each other and from null.        *)
LEMMA NodesDiffer ==
  ASSUME NEW s \in Seq(Entries), Distinct(s)
  PROVE  /\ \A i, j \in 0..Len(s) : NodeOf(s, i) = NodeOf(s, j) => i = j
         /\ \A i \in 0..Len(s) : NodeOf(s, i) \in Nodes /\ NodeOf(s, i) # Null
<1>1. \A i \in 1..Len(s) : s[i] \in Entries
  BY ElementOfSeq
<1> QED
  BY <1>1, TailqAssumption DEF NodeOf, Nodes, Distinct

(* teco_tailq_insert_tail() appends.                                       *)
LEMMA InsertTailAppends ==
  ASSUME NEW l \in Links, NEW s \in Seq(Entries), IsList(l, s),
         NEW b \in Entries, \A i \in 1..Len(s) : s[i] # b
  PROVE  IsList(InsertTail(l, b), Append(s, b)) /\ InsertTail(l, b) \in Links
<1> DEFINE t == Append(s, b)
           n == Len(s)
           m == InsertTail(l, b)
<1>1. /\ t \in Seq(Entries) /\ Len(t) = n + 1 /\ t[n + 1] = b
      /\ \A i \in 1..n : t[i] = s[i]
      /\ n \in Nat
  BY AppendProperties
<1> HIDE DEF t
<1>2. Distinct(t)
  <2> SUFFICES ASSUME NEW i \in 1..(n + 1), NEW j \in 1..(n + 1), t[i] = t[j]
               PROVE  i = j
    BY <1>1 DEF Distinct
  <2>1. CASE i \in 1..n /\ j \in 1..n
    <3>1. s[i] = s[j]
      BY <1>1, <2>1
    <3> QED  BY <2>1, <3>1 DEF IsList, Distinct
  <2>2. CASE i \in 1..n /\ j = n + 1
    <3>1. s[i] = b
      BY <1>1, <2>2
    <3> QED  BY <2>2, <3>1
  <2>3. CASE i = n + 1 /\ j \in 1..n
    <3>1. s[j] = b
      BY <1>1, <2>3
    <3> QED  BY <2>3, <3>1
  <2>4. CASE i = n + 1 /\ j = n + 1
    BY <2>4
  <2> QED  BY <1>1, <2>1, <2>2, <2>3, <2>4
<1>3. /\ \A i \in 0..n : NodeOf(t, i) = NodeOf(s, i)
      /\ NodeOf(t, n + 1) = b
  BY <1>1 DEF NodeOf
<1>4. /\ \A i, j \in 0..n : NodeOf(s, i) = NodeOf(s, j) => i = j
      /\ \A i \in 0..n : NodeOf(s, i) \in Nodes /\ NodeOf(s, i) # Null
  BY NodesDiffer DEF IsList
<1>5. l.prev[Root] = NodeOf(s, n) /\ b \in Nodes /\ Root \in Nodes /\ b # Root
  BY TailqAssumption DEF IsList, Nodes
<1>6. \A i \in 0..n : NodeOf(s, i) # b
  BY <1>5 DEF NodeOf
<1>7. /\ l.next \in [Nodes -> Nodes \cup {Null}] /\ l.prev \in [Nodes -> Nodes \cup {Null}]
      /\ m.next = [l.next EXCEPT ![b] = Null, ![NodeOf(s, n)] = b]
      /\ m.prev = [l.prev EXCEPT ![b] = NodeOf(s, n), ![Root] = b]
  BY <1>5 DEF Links, InsertTail
<1>8. m \in Links
  BY <1>4, <1>5, <1>7 DEF Links, InsertTail
<1>9. \A i \in 0..(n + 1) : m.next[NodeOf(t, i)] = NextOf(t, i)
  <2> SUFFICES ASSUME NEW i \in 0..(n + 1) PROVE m.next[NodeOf(t, i)] = NextOf(t, i)
    OBVIOUS
  <2>1. CASE i = n + 1
    BY <1>1, <1>3, <1>4, <1>5, <1>6, <1>7, <2>1 DEF NextOf
  <2>2. CASE i = n
    BY <1>1, <1>3, <1>4, <1>5, <1>7, <2>2 DEF NextOf
  <2>3. CASE i \in 0..(n - 1)
    <3>1. l.next[NodeOf(s, i)] = s[i + 1] /\ t[i + 1] = s[i + 1]
      BY <1>1, <2>3 DEF IsList, NextOf
    <3>2. NodeOf(s, i) # NodeOf(s, n) /\ NodeOf(s, i) # b /\ NodeOf(s, i) \in Nodes
      BY <1>1, <1>4, <1>6, <2>3
    <3>3. m.next[NodeOf(s, i)] = l.next[NodeOf(s, i)]
      BY <1>7, <3>2
    <3> QED  BY <1>1, <1>3, <2>3, <3>1, <3>3 DEF NextOf
  <2> QED  BY <1>1, <2>1, <2>2, <2>3
<1>10. \A i \in 1..(n + 1) : m.prev[t[i]] = NodeOf(t, i - 1)
  <2> SUFFICES ASSUME NEW i \in 1..(n + 1) PROVE m.prev[t[i]] = NodeOf(t, i - 1)
    OBVIOUS
  <2>1. CASE i = n + 1
    BY <1>1, <1>3, <1>5, <1>7, <2>1
  <2>2. CASE i \in 1..n
    <3>1. l.prev[s[i]] = NodeOf(s, i - 1) /\ t[i] = s[i] /\ s[i] # b
      BY <1>1, <2>2 DEF IsList
    <3>2. s[i] \in Nodes /\ s[i] # Root
      BY <2>2, ElementOfSeq, TailqAssumption DEF Nodes
    <3>3. m.prev[s[i]] = l.prev[s[i]]
      BY <1>7, <3>1, <3>2
    <3> QED  BY <1>1, <1>3, <2>2, <3>1, <3>3
  <2> QED  BY <1>1, <2>1, <2>2
<1>11. m.prev[Root] = NodeOf(t, n + 1)
  BY <1>3, <1>5, <1>7
<1>12. IsList(m, t)
  BY <1>1, <1>2, <1>9, <1>10, <1>11 DEF IsList
<1> QED
  BY <1>8, <1>12 DEF t

(* teco_tailq_remove() takes out one entry and leaves its own pointers.    *)
LEMMA RemoveEntryRemoves ==
  ASSUME NEW l \in Links, NEW s \in Seq(Entries), IsList(l, s), NEW k \in 1..Len(s)
  PROVE  /\ IsList(RemoveEntry(l, s[k]), RemoveAt(s, k))
         /\ RemoveEntry(l, s[k]) \in Links
         /\ RemoveEntry(l, s[k]).next[s[k]] = NextOf(s, k)
<1> DEFINE t == RemoveAt(s, k)
           n == Len(s)
           m == RemoveEntry(l, s[k])
           old(i) == IF i < k THEN i ELSE i + 1
<1>1. /\ t \in Seq(Entries) /\ Len(t) = n - 1 /\ n \in Nat /\ k \in 1..n
      /\ \A i \in 1..(n - 1) : t[i] = s[old(i)]
  BY RemoveAtProps
<1>2. /\ \A i, j \in 0..n : NodeOf(s, i) = NodeOf(s, j) => i = j
      /\ \A i \in 0..n : NodeOf(s, i) \in Nodes /\ NodeOf(s, i) # Null
  BY NodesDiffer DEF IsList
<1>3. /\ \A i \in 0..n : l.next[NodeOf(s, i)] = NextOf(s, i)
      /\ \A i \in 1..n : l.prev[NodeOf(s, i)] = NodeOf(s, i - 1)
      /\ \A i \in 1..n : NodeOf(s, i) = s[i]
      /\ l.prev[Root] = NodeOf(s, n) /\ NodeOf(s, 0) = Root
  BY DEF IsList, NodeOf
<1>4. Distinct(t)
  <2> SUFFICES ASSUME NEW i \in 1..(n - 1), NEW j \in 1..(n - 1), t[i] = t[j] PROVE i = j
    BY <1>1 DEF Distinct
  <2>1. s[old(i)] = s[old(j)] /\ old(i) \in 1..n /\ old(j) \in 1..n
    BY <1>1
  <2>2. old(i) = old(j)
    BY <2>1 DEF IsList, Distinct
  <2> QED  BY <1>1, <2>2
<1>5. /\ l.next \in [Nodes -> Nodes \cup {Null}] /\ l.prev \in [Nodes -> Nodes \cup {Null}]
      /\ m.next = [l.next EXCEPT ![NodeOf(s, k - 1)] = NextOf(s, k)]
      /\ m.prev = [l.prev EXCEPT ![IF NextOf(s, k) # Null THEN NextOf(s, k) ELSE Root] = NodeOf(s, k - 1)]
  <2>1. l.prev[s[k]] = NodeOf(s, k - 1) /\ l.next[s[k]] = NextOf(s, k)
    BY <1>1, <1>3
  <2> QED  BY <2>1 DEF Links, RemoveEntry
<1>6. k < n => NextOf(s, k) = NodeOf(s, k + 1) /\ NextOf(s, k) # Null
  BY <1>1, <1>2 DEF NextOf, NodeOf
<1>7. k = n => NextOf(s, k) = Null
  BY <1>1 DEF NextOf
<1>8. NextOf(s, k) \in Nodes \cup {Null}
  BY <1>1, <1>2, <1>6, <1>7
<1>9. m \in Links /\ Root \in Nodes
  <2>1. NodeOf(s, k - 1) \in Nodes
    BY <1>1, <1>2
  <2>2. m.next \in [Nodes -> Nodes \cup {Null}] /\ m.prev \in [Nodes -> Nodes \cup {Null}]
    BY <1>5, <1>8, <2>1, ZenonT(60)
  <2> QED  BY <2>2 DEF Links, RemoveEntry, Nodes
<1>10. /\ \A i \in 0..(n - 1) : NodeOf(t, i) = NodeOf(s, IF i = 0 THEN 0 ELSE old(i))
       /\ NodeOf(t, 0) = Root
  BY <1>1, <1>3 DEF NodeOf
<1> HIDE DEF t, m
<1>11. ASSUME NEW i \in 0..(n - 1) PROVE m.next[NodeOf(t, i)] = NextOf(t, i)
  <2>1. CASE i = k - 1
    <3>1. NodeOf(t, i) = NodeOf(s, k - 1) /\ NodeOf(s, k - 1) \in Nodes
      BY <1>1, <1>2, <1>10, <2>1
    <3>2. m.next[NodeOf(t, i)] = NextOf(s, k)
      BY <1>5, <3>1
    <3>3. CASE k = n
      BY <1>1, <1>7, <2>1, <3>2, <3>3 DEF NextOf
    <3>4. CASE k < n
      <4>1. k \in 1..(n - 1) /\ n - 1 # k - 1
        BY <1>1, <3>4
      <4>2. t[k] = s[k + 1]
        BY <1>1, <4>1
      <4> QED  BY <1>1, <2>1, <3>2, <3>4, <4>1, <4>2 DEF NextOf
    <3> QED  BY <1>1, <3>3, <3>4
  <2>2. CASE i # k - 1
    <3> DEFINE j == IF i = 0 THEN 0 ELSE old(i)
    <3>1. /\ j \in 0..n /\ j # k - 1 /\ j # k /\ NodeOf(t, i) = NodeOf(s, j)
          /\ NodeOf(s, j) \in Nodes /\ NodeOf(s, j) # NodeOf(s, k - 1)
      BY <1>1, <1>2, <1>10, <2>2
    <3>2. m.next[NodeOf(t, i)] = NextOf(s, j)
      BY <1>3, <1>5, <3>1
    <3>3. CASE i = n - 1
      BY <1>1, <2>2, <3>1, <3>2, <3>3 DEF NextOf
    <3>4. CASE i < n - 1
      <4>1. i + 1 \in 1..(n - 1) /\ j # n /\ old(i + 1) = j + 1
        BY <1>1, <2>2, <3>4
      <4>2. t[i + 1] = s[j + 1]
        BY <1>1, <4>1
      <4> QED  BY <1>1, <3>2, <3>4, <4>1, <4>2 DEF NextOf
    <3> QED  BY <1>1, <3>3, <3>4
  <2> QED  BY <2>1, <2>2
<1>12. ASSUME NEW i \in 1..(n - 1) PROVE m.prev[t[i]] = NodeOf(t, i - 1)
  <2> DEFINE j == old(i)
  <2>0. j \in 1..n /\ j # k /\ t[i] = s[j]
    BY <1>1
  <2>1. /\ j \in 1..n /\ j # k /\ t[i] = NodeOf(s, j) /\ NodeOf(s, j) \in Nodes
        /\ NodeOf(s, j) # Root
    <3>1. j \in 0..n /\ j # 0
      BY <1>1, <2>0
    <3> HIDE DEF j
    <3> QED  BY <1>1, <1>2, <1>3, <2>0, <3>1
  <2>2. CASE j = k + 1
    <3>1. k < n /\ NextOf(s, k) = t[i] /\ NextOf(s, k) # Null
      BY <1>1, <1>6, <2>1, <2>2
    <3>2. m.prev[t[i]] = NodeOf(s, k - 1)
      BY <1>5, <2>1, <3>1
    <3>3. NodeOf(t, i - 1) = NodeOf(s, k - 1)
      BY <1>1, <1>10, <2>1, <2>2
    <3> QED  BY <3>2, <3>3
  <2>3. CASE j # k + 1
    <3>1. k < n => NodeOf(s, j) # NodeOf(s, k + 1)
      BY <1>1, <1>2, <2>1, <2>3
    <3>2. t[i] # (IF NextOf(s, k) # Null THEN NextOf(s, k) ELSE Root)
      BY <1>1, <1>6, <1>7, <2>1, <3>1
    <3>3. m.prev[t[i]] = NodeOf(s, j - 1)
      BY <1>3, <1>5, <2>1, <3>2
    <3>4. NodeOf(t, i - 1) = NodeOf(s, j - 1)
      BY <1>1, <1>10, <2>1, <2>3
    <3> QED  BY <3>3, <3>4
  <2> QED  BY <2>2, <2>3
<1>13. m.prev[Root] = NodeOf(t, n - 1)
  <2>1. CASE k = n
    <3>1. m.prev[Root] = NodeOf(s, k - 1)
      BY <1>5, <1>7, <1>9, <2>1
    <3> QED  BY <1>1, <1>10, <2>1, <3>1
  <2>2. CASE k < n
    <3>1. NextOf(s, k) # Root /\ NextOf(s, k) # Null
      BY <1>1, <1>2, <1>3, <1>6, <2>2
    <3>2. m.prev[Root] = NodeOf(s, n)
      BY <1>3, <1>5, <1>9, <3>1
    <3> QED  BY <1>1, <1>10, <2>2, <3>2
  <2> QED  BY <1>1, <2>1, <2>2
<1>14. m.next[s[k]] = NextOf(s, k)
  <2>1. s[k] # NodeOf(s, k - 1) /\ s[k] \in Nodes
    BY <1>1, <1>2, <1>3
  <2> QED  BY <1>1, <1>3, <1>5, <2>1
<1> QED
  BY <1>1, <1>4, <1>9, <1>11, <1>12, <1>13, <1>14 DEF IsList, t, m

(* teco_tailq_insert_before() inserts before an entry.                     *)
LEMMA InsertBeforeInserts ==
  ASSUME NEW l \in Links, NEW t \in Seq(Entries), IsList(l, t), NEW k \in 1..Len(t),
         NEW s \in Seq(Entries), Distinct(s), t = RemoveAt(s, k), Len(s) = Len(t) + 1
  PROVE  /\ IsList(InsertBefore(l, t[k], s[k]), s)
         /\ InsertBefore(l, t[k], s[k]) \in Links
<1> DEFINE n == Len(s)
           b == s[k]
           m == InsertBefore(l, t[k], b)
           old(i) == IF i < k THEN i ELSE i + 1
           new(i) == IF i < k THEN i ELSE i - 1
<1>1. /\ n \in Nat /\ k \in 1..n /\ k < n /\ Len(t) = n - 1
      /\ \A i \in 1..(n - 1) : t[i] = s[old(i)]
  <2>1. Len(t) \in Nat /\ n \in Nat /\ k \in 1..n /\ k < n /\ Len(t) = n - 1
    OBVIOUS
  <2>2. \A i \in 1..(n - 1) : RemoveAt(s, k)[i] = IF i < k THEN s[i] ELSE s[i + 1]
    BY <2>1, RemoveAtProps
  <2>3. \A i \in 1..(n - 1) : t[i] = IF i < k THEN s[i] ELSE s[i + 1]
    BY <2>2
  <2> QED  BY <2>1, <2>3
<1>2. \A i \in 1..n : i # k => new(i) \in 1..(n - 1) /\ s[i] = t[new(i)]
  <2> SUFFICES ASSUME NEW i \in 1..n, i # k PROVE new(i) \in 1..(n - 1) /\ s[i] = t[new(i)]
    OBVIOUS
  <2>1. new(i) \in 1..(n - 1) /\ old(new(i)) = i
    BY <1>1
  <2>2. t[new(i)] = s[old(new(i))]
    <3> HIDE DEF new
    <3> QED  BY <1>1, <2>1
  <2> QED  BY <2>1, <2>2
<1>3. /\ \A i, j \in 0..n : NodeOf(s, i) = NodeOf(s, j) => i = j
      /\ \A i \in 0..n : NodeOf(s, i) \in Nodes /\ NodeOf(s, i) # Null
      /\ \A i \in 1..n : NodeOf(s, i) = s[i]
      /\ NodeOf(s, 0) = Root /\ NodeOf(t, 0) = Root
  <2>1. \A i \in 1..n : NodeOf(s, i) = s[i]
    BY <1>1 DEF NodeOf
  <2> QED  BY <2>1, NodesDiffer DEF NodeOf
<1>4. \A i \in 0..(n - 1) : NodeOf(t, i) = NodeOf(s, IF i = 0 THEN 0 ELSE old(i))
  BY <1>1 DEF NodeOf
<1>5. /\ \A i \in 0..(n - 1) : l.next[NodeOf(t, i)] = NextOf(t, i)
      /\ \A i \in 1..(n - 1) : l.prev[t[i]] = NodeOf(t, i - 1)
      /\ l.prev[Root] = NodeOf(t, n - 1)
  BY <1>1 DEF IsList
<1>6. /\ t[k] = NodeOf(s, k + 1) /\ l.prev[t[k]] = NodeOf(s, k - 1)
      /\ b = NodeOf(s, k)
  <2>1. k \in 1..(n - 1) /\ old(k) = k + 1
    BY <1>1
  <2>2. t[k] = NodeOf(s, k + 1)
    BY <1>1, <1>3, <2>1
  <2>3. NodeOf(t, k - 1) = NodeOf(s, k - 1)
    BY <1>1, <1>4, <2>1
  <2> QED  BY <1>3, <1>5, <2>1, <2>2, <2>3
<1>7. /\ l.next \in [Nodes -> Nodes \cup {Null}] /\ l.prev \in [Nodes -> Nodes \cup {Null}]
      /\ m.next = [l.next EXCEPT ![NodeOf(s, k)] = NodeOf(s, k + 1), ![NodeOf(s, k - 1)] = NodeOf(s, k)]
      /\ m.prev = [l.prev EXCEPT ![NodeOf(s, k)] = NodeOf(s, k - 1), ![NodeOf(s, k + 1)] = NodeOf(s, k)]
  BY <1>6 DEF Links, InsertBefore
<1>8. /\ k - 1 \in 0..n /\ k \in 0..n /\ k + 1 \in 0..n
      /\ NodeOf(s, k - 1) \in Nodes /\ NodeOf(s, k) \in Nodes /\ NodeOf(s, k + 1) \in Nodes
      /\ NodeOf(s, k - 1) # NodeOf(s, k) /\ NodeOf(s, k + 1) # NodeOf(s, k)
  BY <1>1, <1>3
<1>9. m \in Links
  <2>1. m.next \in [Nodes -> Nodes \cup {Null}]
    BY <1>7, <1>8
  <2>2. m.prev \in [Nodes -> Nodes \cup {Null}]
    BY <1>7, <1>8
  <2> QED  BY <2>1, <2>2 DEF Links, InsertBefore
<1> HIDE DEF m
<1>10. ASSUME NEW i \in 0..n PROVE m.next[NodeOf(s, i)] = NextOf(s, i)
  <2>1. CASE i = k
    BY <1>1, <1>3, <1>7, <1>8, <2>1 DEF NextOf
  <2>2. CASE i = k - 1
    BY <1>1, <1>6, <1>7, <1>8, <2>2 DEF NextOf
  <2>3. CASE i # k /\ i # k - 1
    <3> DEFINE j == IF i = 0 THEN 0 ELSE new(i)
    <3>1. j \in 0..(n - 1) /\ j # k - 1 /\ (IF j = 0 THEN 0 ELSE old(j)) = i
      BY <1>1, <2>3
    <3>2. l.next[NodeOf(s, i)] = NextOf(t, j)
      BY <1>4, <1>5, <3>1
    <3>3. m.next[NodeOf(s, i)] = l.next[NodeOf(s, i)]
      <4>1. NodeOf(s, i) # NodeOf(s, k) /\ NodeOf(s, i) # NodeOf(s, k - 1) /\ NodeOf(s, i) \in Nodes
        BY <1>3, <1>8, <2>3
      <4>2. /\ l.next \in [Nodes -> Nodes \cup {Null}]
            /\ m.next = [l.next EXCEPT ![NodeOf(s, k)] = NodeOf(s, k + 1), ![NodeOf(s, k - 1)] = NodeOf(s, k)]
        BY <1>7
      <4> HIDE DEF n, b
      <4> QED  BY <4>1, <4>2
    <3>4. CASE i = n
      <4>0. n \in Nat /\ k \in 1..n /\ k < n /\ Len(t) = n - 1
        BY <1>1
      <4>1. j = Len(t)
        <5> HIDE DEF n
        <5> QED  BY <3>4, <4>0
      <4> HIDE DEF j
      <4> QED  BY <3>2, <3>3, <3>4, <4>1 DEF NextOf
    <3>5. CASE i < n
      <4>1. j # Len(t) /\ i + 1 \in 1..n /\ i + 1 # k /\ new(i + 1) = j + 1
        BY <1>1, <2>3, <3>5
      <4>2. t[j + 1] = s[i + 1]
        BY <1>2, <4>1
      <4> QED  BY <3>2, <3>3, <3>5, <4>1, <4>2 DEF NextOf
    <3> QED  BY <1>1, <3>4, <3>5
  <2> QED  BY <2>1, <2>2, <2>3
<1>11. ASSUME NEW i \in 1..n PROVE m.prev[s[i]] = NodeOf(s, i - 1)
  <2>1. CASE i = k
    BY <1>3, <1>7, <1>8, <2>1
  <2>2. CASE i = k + 1
    BY <1>1, <1>3, <1>7, <1>8, <2>2
  <2>3. CASE i # k /\ i # k + 1
    <3>1. /\ new(i) \in 1..(n - 1) /\ s[i] = t[new(i)]
          /\ (IF new(i) - 1 = 0 THEN 0 ELSE old(new(i) - 1)) = i - 1
      BY <1>1, <1>2, <2>3
    <3>2. NodeOf(t, new(i) - 1) = NodeOf(s, i - 1)
      BY <1>1, <1>4, <3>1
    <3>3. l.prev[s[i]] = NodeOf(s, i - 1)
      BY <1>5, <3>1, <3>2
    <3>4. s[i] # NodeOf(s, k) /\ s[i] # NodeOf(s, k + 1) /\ s[i] \in Nodes
      <4>1. s[i] = NodeOf(s, i) /\ i \in 0..n
        BY <1>1, <1>3
      <4> QED  BY <1>3, <1>8, <2>3, <4>1
    <3> QED  BY <1>7, <3>3, <3>4
  <2> QED  BY <2>1, <2>2, <2>3
<1>12. m.prev[Root] = NodeOf(s, n)
  <2>1. Root # NodeOf(s, k) /\ Root # NodeOf(s, k + 1) /\ Root \in Nodes
    <3>1. 0 \in 0..n /\ k # 0 /\ k + 1 # 0
      BY <1>1
    <3> QED  BY <1>3, <1>8, <3>1
  <2>2. NodeOf(t, n - 1) = NodeOf(s, n)
    BY <1>1, <1>4
  <2> QED  BY <1>5, <1>7, <2>1, <2>2
<1> QED
  BY <1>9, <1>10, <1>11, <1>12 DEF IsList, m

(* A buffer that was closed when the ring was s goes back to its place:    *)
(* not even its previous entry, which may have changed, is needed, as long *)
(* as the ring has become again what it was without the buffer, and the    *)
(* buffer's pointer to the next one has been left alone (the assumption    *)
(* that the comment in teco_undo_ring_reinsert_action() states).           *)
THEOREM ReinsertionRestores ==
  ASSUME NEW l \in Links, NEW s \in Seq(Entries), IsList(l, s), NEW k \in 1..Len(s),
         NEW m \in Links, IsList(m, RemoveAt(s, k)),
         m.next[s[k]] = RemoveEntry(l, s[k]).next[s[k]]
  PROVE  IsList(Reinsert(m, s[k]), s)
<1> DEFINE t == RemoveAt(s, k)
           n == Len(s)
<1>1. /\ t \in Seq(Entries) /\ Len(t) = n - 1 /\ n \in Nat /\ k \in 1..n
      /\ \A i \in 1..(n - 1) : t[i] = IF i < k THEN s[i] ELSE s[i + 1]
  BY RemoveAtProps
<1>2. m.next[s[k]] = NextOf(s, k)
  BY RemoveEntryRemoves
<1>3. Distinct(s) /\ s[k] \in Entries /\ \A i \in 1..n : s[i] \in Entries
  BY ElementOfSeq DEF IsList
<1> HIDE DEF t
<1>4. CASE k = n
  <2>1. Reinsert(m, s[k]) = InsertTail(m, s[k])
    BY <1>2, <1>4 DEF Reinsert, NextOf
  <2>2. \A i \in 1..Len(t) : t[i] # s[k]
    BY <1>1, <1>3, <1>4 DEF Distinct
  <2>3. IsList(InsertTail(m, s[k]), Append(t, s[k]))
    BY <1>1, <1>3, <2>2, InsertTailAppends DEF t
  <2>4. Append(t, s[k]) = s
    <3>1. /\ Append(t, s[k]) \in Seq(Entries) /\ Len(Append(t, s[k])) = n
          /\ \A i \in 1..n : Append(t, s[k])[i] = s[i]
      BY <1>1, <1>3, <1>4, AppendProperties
    <3> QED  BY <3>1, SeqEqual
  <2> QED  BY <2>1, <2>3, <2>4
<1>5. CASE k < n
  <2>1. k \in 1..(n - 1) /\ NextOf(s, k) = s[k + 1] /\ t[k] = s[k + 1] /\ s[k + 1] # Null
    BY <1>1, <1>3, <1>5, TailqAssumption DEF NextOf
  <2>2. Reinsert(m, s[k]) = InsertBefore(m, t[k], s[k])
    BY <1>2, <2>1 DEF Reinsert
  <2>3. IsList(InsertBefore(m, t[k], s[k]), s)
    <3>1. k \in 1..Len(t) /\ Len(s) = Len(t) + 1
      BY <1>1, <2>1
    <3>2. IsList(m, t) /\ t = RemoveAt(s, k)
      BY DEF t
    <3> QED  BY <1>1, <1>3, <3>1, <3>2, InsertBeforeInserts
  <2> QED  BY <2>2, <2>3
<1> QED
  BY <1>1, <1>4, <1>5

-----------------------------------------------------------------------------
(* Running and dropping tokens.                                            *)

Roll(run, f, t) == IF run THEN RunToken([f EXCEPT !.tokens = Front(@)], t) ELSE DropToken(f, t)
Rolls(run, it, s, e) ==
  it = [I \in SUBSET DOMAIN s |->
          IF I = {} THEN e ELSE Roll(run, it[I \ {Min(I)}], s[Min(I)])]

(* There is a function that does what the recursion of FoldRight() says.   *)
LEMMA RollsExist ==
  ASSUME NEW run, NEW T, NEW s \in Seq(T), NEW e
  PROVE  \E it : Rolls(run, it, s, e)
<1> DEFINE D == DOMAIN s
           N == Len(s)
           Small(n) == {I \in SUBSET D : Cardinality(I) <= n}
           Body(f, I) == IF I = {} THEN e ELSE Roll(run, f[I \ {Min(I)}], s[Min(I)])
           Is(f, n) == f = [I \in Small(n) |-> Body(f, I)]
           S == {n \in Nat : \E f : Is(f, n)}
<1>1. /\ D = 1 .. N /\ N \in Nat /\ IsFiniteSet(D) /\ Cardinality(D) = N
  <2>1. D = 1 .. N /\ N \in Nat
    OBVIOUS
  <2> HIDE DEF D, N
  <2> QED
    BY <2>1, FS_Interval
<1> HIDE DEF D, N
<1>2. ASSUME NEW I \in SUBSET D PROVE IsFiniteSet(I) /\ Cardinality(I) \in Nat /\ Cardinality(I) <= N
  BY <1>1, FS_Subset, FS_CardinalityType
<1>3. ASSUME NEW I \in SUBSET D, I # {}
      PROVE  /\ Min(I) \in I /\ I \ {Min(I)} \in SUBSET D
             /\ Cardinality(I \ {Min(I)}) = Cardinality(I) - 1
  <2>1. I \in SUBSET Nat
    BY <1>1
  <2>2. Min(I) \in I
    BY <2>1, <1>3, MinLemma
  <2> QED
    BY <2>2, <1>2, FS_RemoveElement
<1>4. 0 \in S
  <2>1. \A I \in SUBSET D : Cardinality(I) <= 0 <=> I = {}
    BY <1>2, FS_EmptySet
  <2> DEFINE f == [I \in Small(0) |-> e]
  <2>2. \A I \in Small(0) : Body(f, I) = e
    BY <2>1
  <2>3. Is(f, 0)
    BY <2>2
  <2> HIDE DEF f, Is
  <2> QED
    BY <2>3
<1>5. ASSUME NEW n \in Nat, n \in S PROVE n + 1 \in S
  <2>1. PICK f : Is(f, n)
    BY <1>5
  <2> DEFINE V(I) == IF Cardinality(I) <= n THEN f[I] ELSE Body(f, I)
             g == [I \in Small(n + 1) |-> V(I)]
  <2>2. ASSUME NEW I \in Small(n + 1) PROVE g[I] = Body(g, I)
    <3>1. g[I] = Body(f, I)
      <4>1. CASE Cardinality(I) <= n
        BY <2>1, <4>1
      <4> QED
        BY <4>1
    <3>2. CASE I = {}
      BY <3>1, <3>2
    <3>3. CASE I # {}
      <4> DEFINE J == I \ {Min(I)}
      <4>1. J \in SUBSET D /\ Cardinality(J) = Cardinality(I) - 1 /\ Cardinality(I) \in Nat
        BY <1>2, <1>3, <3>3
      <4>2. Cardinality(J) <= n /\ J \in Small(n + 1)
        BY <4>1
      <4> HIDE DEF J
      <4>3. g[J] = f[J]
        BY <4>2
      <4> HIDE DEF g
      <4> QED
        BY <3>1, <3>3, <4>3 DEF J
    <3> QED
      BY <3>2, <3>3
  <2>3. Is(g, n + 1)
    <3> HIDE DEF V, Body
    <3>1. g = [I \in Small(n + 1) |-> g[I]]
      OBVIOUS
    <3> HIDE DEF g
    <3> QED
      BY <2>2, <3>1
  <2> HIDE DEF g, Is
  <2> QED
    BY <2>3
<1> HIDE DEF S
<1>6. N \in S
  BY <1>1, <1>4, <1>5, SetInduction
<1>7. PICK f : Is(f, N)
  BY <1>6 DEF S
<1>8. Small(N) = SUBSET D
  BY <1>2
<1> QED
  BY <1>7, <1>8 DEF Rolls, D

(* What FoldRight() computes.                                              *)
LEMMA FoldRuns ==
  ASSUME NEW T, NEW s \in Seq(T), NEW e
  PROVE  \E it : /\ Rolls(TRUE, it, s, e)
                 /\ FoldRight(LAMBDA t, f : RunToken([f EXCEPT !.tokens = Front(@)], t), s, e) = it[DOMAIN s]
<1> DEFINE it == CHOOSE it : Rolls(TRUE, it, s, e)
<1>1. Rolls(TRUE, it, s, e)
  BY RollsExist
<1>2. FoldRight(LAMBDA t, f : RunToken([f EXCEPT !.tokens = Front(@)], t), s, e) = it[DOMAIN s]
  BY DEF FoldRight, MapThenFoldSet, Rolls, Roll
<1> HIDE DEF it
<1> QED
  BY <1>1, <1>2

(* What undo.c computes when it drops tokens.                              *)
LEMMA FoldDrops ==
  ASSUME NEW T, NEW s \in Seq(T), NEW e
  PROVE  \E it : /\ Rolls(FALSE, it, s, e)
                 /\ FoldRight(LAMBDA t, f : DropToken(f, t), s, e) = it[DOMAIN s]
<1> DEFINE it == CHOOSE it : Rolls(FALSE, it, s, e)
<1>1. Rolls(FALSE, it, s, e)
  BY RollsExist
<1>2. FoldRight(LAMBDA t, f : DropToken(f, t), s, e) = it[DOMAIN s]
  BY DEF FoldRight, MapThenFoldSet, Rolls, Roll
<1> HIDE DEF it
<1> QED
  BY <1>1, <1>2

-----------------------------------------------------------------------------
(* Editors and their tokens, as far as files are concerned.                *)

Fields == {"links", "live", "name", "dirty", "text", "past", "current", "register", "view", "disk",
           "points", "id", "tokens", "undo", "failed", "dangling"}
FileKinds == {"restore", "unlink"}
Kinds == {"register", "current", "show", "free", "remove", "reinsert", "dirty", "name", "undo"} \cup FileKinds

IsSequence(s) == \E T : s \in Seq(T)

(* Appending to a sequence of anything.                                    *)
LEMMA AppendSequence ==
  ASSUME NEW s, IsSequence(s), NEW t
  PROVE  /\ IsSequence(Append(s, t)) /\ Len(Append(s, t)) = Len(s) + 1 /\ Len(s) \in Nat
         /\ Append(s, t)[Len(s) + 1] = t /\ \A i \in 1 .. Len(s) : Append(s, t)[i] = s[i]
<1>1. PICK T : s \in Seq(T)
  BY DEF IsSequence
<1> DEFINE U == T \cup {t}
<1>2. s \in Seq(U) /\ t \in U
  BY <1>1
<1> HIDE DEF U
<1>3. Append(s, t) \in Seq(U) /\ Len(Append(s, t)) = Len(s) + 1 /\ Len(s) \in Nat
  BY <1>2
<1>4. Append(s, t)[Len(s) + 1] = t /\ \A i \in 1 .. Len(s) : Append(s, t)[i] = s[i]
  BY <1>2, AppendProperties
<1> QED
  BY <1>3, <1>4 DEF IsSequence

(* Taking the last element off a sequence of anything.                     *)
LEMMA FrontSequence ==
  ASSUME NEW s, IsSequence(s), s # <<>>
  PROVE  /\ IsSequence(Front(s)) /\ Len(Front(s)) = Len(s) - 1 /\ Len(s) \in Nat \ {0}
         /\ Last(s) = s[Len(s)] /\ \A i \in 1 .. (Len(s) - 1) : Front(s)[i] = s[i]
<1>1. PICK T : s \in Seq(T)
  BY DEF IsSequence
<1>2. /\ Front(s) \in Seq(T) /\ Len(Front(s)) = Len(s) - 1 /\ Len(s) \in 1 .. Len(s)
      /\ Last(s) = s[Len(s)] /\ \A i \in 1 .. (Len(s) - 1) : Front(s)[i] = s[i]
  BY <1>1, FrontProps
<1>3. Len(s) \in Nat
  BY <1>1
<1> QED
  BY <1>2, <1>3 DEF IsSequence

(* Save points are numbered as they are made.                              *)
NumbersGrow(e) ==
  /\ \A i \in 1 .. Len(e.tokens) : e.tokens[i].kind = "restore" => e.tokens[i].id \in Int /\ e.tokens[i].id < e.id
  /\ \A i, j \in 1 .. Len(e.tokens) :
       i < j /\ e.tokens[i].kind = "restore" /\ e.tokens[j].kind = "restore" => e.tokens[i].id < e.tokens[j].id
Sane(e) ==
  /\ DOMAIN e = Fields /\ DOMAIN e.disk = Names /\ e.id \in Int
  /\ IsSequence(e.tokens) /\ \A i \in 1 .. Len(e.tokens) : e.tokens[i].kind \in Kinds
  /\ NumbersGrow(e)

(* The first token of a file brings back what it has been.                 *)
IsOf(t, f) == t.kind \in FileKinds /\ t.name = f
BringsBack(e, t, text) ==
  IF t.kind = "unlink" THEN text = Absent
  ELSE PointsOf(e, t) # {} /\ \A p \in PointsOf(e, t) : p.text = text
IsUntouched(e, f, text) ==
  e.disk[f] = text /\ \A i \in 1 .. Len(e.tokens) : ~IsOf(e.tokens[i], f)
ComesBack(e, f, text) ==
  \E i \in 1 .. Len(e.tokens) :
    /\ IsOf(e.tokens[i], f) /\ BringsBack(e, e.tokens[i], text)
    /\ \A j \in 1 .. (i - 1) : ~IsOf(e.tokens[j], f)
FilesKept(e, files) ==
  \A f \in Names : IsUntouched(e, f, files[f]) \/ ComesBack(e, f, files[f])
NoFileTokens(e) == \A i \in 1 .. Len(e.tokens) : e.tokens[i].kind \notin FileKinds

(* Nothing happens to files.                                               *)
SameFiles(e, f) ==
  /\ DOMAIN e = Fields /\ DOMAIN f = Fields
  /\ f.disk = e.disk /\ f.points = e.points /\ f.id = e.id /\ f.undo = e.undo
  /\ IsSequence(e.tokens) /\ IsSequence(f.tokens)
  /\ Len(e.tokens) \in Nat /\ Len(f.tokens) \in Nat /\ Len(f.tokens) >= Len(e.tokens)
  /\ \A i \in 1 .. Len(e.tokens) : f.tokens[i] = e.tokens[i]
  /\ \A i \in 1 .. Len(f.tokens) : i > Len(e.tokens) => f.tokens[i].kind \in Kinds \ FileKinds

(* The length of a sequence of anything.                                   *)
LEMMA SequenceLength == ASSUME NEW s, IsSequence(s) PROVE Len(s) \in Nat
BY DEF IsSequence

(* Nothing happens to files when nothing happens,                          *)
LEMMA SameItself == ASSUME NEW e, DOMAIN e = Fields, IsSequence(e.tokens) PROVE SameFiles(e, e)
BY SequenceLength DEF SameFiles

(* nor if nothing happens to them twice,                                   *)
LEMMA SameAgain ==
  ASSUME NEW e, NEW f, NEW g, SameFiles(e, f), SameFiles(f, g)
  PROVE  SameFiles(e, g)
<1>1. \A i \in 1 .. Len(e.tokens) : i \in 1 .. Len(f.tokens) /\ g.tokens[i] = e.tokens[i]
  BY DEF SameFiles
<1>2. ASSUME NEW i \in 1 .. Len(g.tokens), i > Len(e.tokens)
      PROVE  g.tokens[i].kind \in Kinds \ FileKinds
  <2>1. CASE i > Len(f.tokens)
    BY <1>2, <2>1 DEF SameFiles
  <2>2. CASE i <= Len(f.tokens)
    <3>1. i \in 1 .. Len(f.tokens) /\ g.tokens[i] = f.tokens[i]
      BY <1>2, <2>2 DEF SameFiles
    <3> QED
      BY <1>2, <3>1 DEF SameFiles
  <2> QED
    BY <1>2, <2>1, <2>2 DEF SameFiles
<1> QED
  BY <1>1, <1>2 DEF SameFiles

(* nor when a token of something else is pushed (undo.c).                  *)
LEMMA PushSame ==
  ASSUME NEW e, DOMAIN e = Fields, IsSequence(e.tokens), NEW t, t.kind \in Kinds \ FileKinds
  PROVE  SameFiles(e, Push(e, t))
<1>1. CASE ~e.undo
  BY <1>1, SameItself DEF Push
<1>2. CASE e.undo
  <2> DEFINE u == Append(e.tokens, t)
             f == [e EXCEPT !.tokens = u]
  <2>1. Push(e, t) = f
    BY <1>2 DEF Push
  <2>2. /\ IsSequence(u) /\ Len(u) = Len(e.tokens) + 1 /\ Len(e.tokens) \in Nat
        /\ u[Len(e.tokens) + 1] = t /\ \A i \in 1 .. Len(e.tokens) : u[i] = e.tokens[i]
    BY AppendSequence
  <2> HIDE DEF u
  <2>3. /\ DOMAIN f = Fields /\ f.disk = e.disk /\ f.points = e.points /\ f.id = e.id /\ f.undo = e.undo
        /\ f.tokens = u
    BY DEF Fields
  <2> HIDE DEF f
  <2>4. \A i \in 1 .. Len(u) : i > Len(e.tokens) => u[i].kind \in Kinds \ FileKinds
    <3> SUFFICES ASSUME NEW i \in 1 .. Len(u), i > Len(e.tokens) PROVE u[i].kind \in Kinds \ FileKinds
      OBVIOUS
    <3>1. i = Len(e.tokens) + 1
      BY <2>2
    <3> QED
      BY <2>2, <3>1
  <2> QED
    BY <2>1, <2>2, <2>3, <2>4 DEF SameFiles
<1> QED
  BY <1>1, <1>2

(* So files are as safe as before.                                         *)
LEMMA SameKeeps ==
  ASSUME NEW e, NEW f, Sane(e), SameFiles(e, f)
  PROVE  /\ Sane(f) /\ f.undo = e.undo
         /\ \A files : FilesKept(e, files) => FilesKept(f, files)
         /\ NoFileTokens(e) => NoFileTokens(f)
<1>1. /\ \A i \in 1 .. Len(e.tokens) : i \in 1 .. Len(f.tokens) /\ f.tokens[i] = e.tokens[i]
      /\ \A i \in 1 .. Len(f.tokens) : i \in 1 .. Len(e.tokens) \/ f.tokens[i].kind \in Kinds \ FileKinds
  BY DEF SameFiles
<1>2. \A i \in 1 .. Len(f.tokens) : f.tokens[i].kind \in Kinds
  BY <1>1 DEF Sane, Kinds
<1>3. \A i \in 1 .. Len(f.tokens) : f.tokens[i].kind = "restore" => i \in 1 .. Len(e.tokens) /\ f.tokens[i] = e.tokens[i]
  BY <1>1 DEF FileKinds
<1>4. NumbersGrow(f)
  BY <1>3 DEF NumbersGrow, Sane, SameFiles
<1>5. Sane(f)
  BY <1>2, <1>4 DEF Sane, SameFiles
<1>6. ASSUME NEW files, FilesKept(e, files), NEW n \in Names
      PROVE  IsUntouched(f, n, files[n]) \/ ComesBack(f, n, files[n])
  <2>1. \A t : PointsOf(f, t) = PointsOf(e, t)
    BY DEF PointsOf, SameFiles
  <2>2. \A t : BringsBack(e, t, files[n]) => BringsBack(f, t, files[n])
    BY <2>1 DEF BringsBack
  <2>3. CASE IsUntouched(e, n, files[n])
    <3>1. \A i \in 1 .. Len(f.tokens) : ~IsOf(f.tokens[i], n)
      BY <1>1, <2>3 DEF IsUntouched, IsOf
    <3> QED
      BY <2>3, <3>1 DEF IsUntouched, SameFiles
  <2>4. CASE ComesBack(e, n, files[n])
    <3>1. PICK i \in 1 .. Len(e.tokens) :
            /\ IsOf(e.tokens[i], n) /\ BringsBack(e, e.tokens[i], files[n])
            /\ \A j \in 1 .. (i - 1) : ~IsOf(e.tokens[j], n)
      BY <2>4 DEF ComesBack
    <3>2. Len(e.tokens) \in Nat
      BY DEF SameFiles
    <3>3. \A j \in 1 .. (i - 1) : j \in 1 .. Len(e.tokens)
      BY <3>1, <3>2
    <3> QED
      BY <1>1, <2>2, <3>1, <3>3 DEF ComesBack
  <2> QED
    BY <1>6, <2>3, <2>4 DEF FilesKept
<1>7. \A files : FilesKept(e, files) => FilesKept(f, files)
  BY <1>6 DEF FilesKept
<1>8. NoFileTokens(e) => NoFileTokens(f)
  BY <1>1 DEF NoFileTokens
<1> QED
  BY <1>5, <1>7, <1>8 DEF SameFiles

-----------------------------------------------------------------------------
(* Running and dropping tokens, a save point.                              *)

(* What a token that is run leaves alone, and what it does to files.       *)
LEMMA RunTokenFields ==
  ASSUME NEW e, DOMAIN e = Fields, NEW t, t.kind \in Kinds
  PROVE  /\ DOMAIN RunToken(e, t) = Fields
         /\ RunToken(e, t).tokens = e.tokens /\ RunToken(e, t).undo = e.undo
         /\ t.kind \notin FileKinds => /\ RunToken(e, t).disk = e.disk /\ RunToken(e, t).points = e.points
                                       /\ RunToken(e, t).id = e.id
         /\ t.kind = "unlink" => /\ RunToken(e, t).disk = [e.disk EXCEPT ![t.name] = Absent]
                                 /\ RunToken(e, t).points = e.points /\ RunToken(e, t).id = e.id
         /\ t.kind = "restore" =>
              /\ RunToken(e, t).disk = [e.disk EXCEPT ![t.name] = IF PointsOf(e, t) = {} THEN @ ELSE (CHOOSE p \in PointsOf(e, t) : TRUE).text]
              /\ RunToken(e, t).points = e.points \ PointsOf(e, t) /\ RunToken(e, t).id = e.id - 1
<1>1. CASE t.kind \notin FileKinds
  <2>1. CASE t.kind \in {"register", "current"}
    BY <2>1, <1>1 DEF RunToken, Fields, FileKinds
  <2>2. CASE t.kind \in {"show", "free"}
    BY <2>2, <1>1 DEF RunToken, Fields, FileKinds, ShowView, FreeBuffer
  <2>3. CASE t.kind \in {"remove", "reinsert"}
    BY <2>3, <1>1 DEF RunToken, Fields, FileKinds, RemoveBuffer
  <2>4. CASE t.kind \in {"dirty", "name"}
    BY <2>4, <1>1 DEF RunToken, Fields, FileKinds
  <2>5. CASE t.kind = "undo"
    <3>1. RunToken(e, t) = SciUndo(e)
      BY <2>5 DEF RunToken
    <3>2. SciUndo(e) \in {[e EXCEPT !.dangling = TRUE], [e EXCEPT !.text[e.view] = Last(e.past[e.view]), !.past[e.view] = Front(@)], e}
      BY DEF SciUndo
    <3> DEFINE f == SciUndo(e)
    <3>3. DOMAIN f = Fields /\ f.tokens = e.tokens /\ f.undo = e.undo /\ f.disk = e.disk /\ f.points = e.points /\ f.id = e.id
      <4>1. CASE f = [e EXCEPT !.dangling = TRUE] \/ f = e
        BY <4>1 DEF Fields
      <4>2. CASE f = [e EXCEPT !.text[e.view] = Last(e.past[e.view]), !.past[e.view] = Front(@)]
        <5> HIDE DEF f
        <5> QED
          BY <4>2 DEF Fields
      <4> QED
        BY <3>2, <4>1, <4>2
    <3> HIDE DEF f
    <3> QED
      BY <2>5, <3>1, <3>3 DEF FileKinds, f
  <2> QED
    BY <1>1, <2>1, <2>2, <2>3, <2>4, <2>5 DEF Kinds
<1>2. CASE t.kind = "unlink"
  BY <1>2 DEF RunToken, Fields, FileKinds
<1>3. CASE t.kind = "restore"
  <2>1. RunToken(e, t) = RestorePoint(e, t)
    BY <1>3 DEF RunToken
  <2> QED
    BY <1>3, <2>1 DEF RestorePoint, Fields, FileKinds
<1> QED
  BY <1>1, <1>2, <1>3 DEF FileKinds

(* What a token that is dropped leaves alone.                              *)
LEMMA DropTokenFields ==
  ASSUME NEW e, DOMAIN e = Fields, e.id \in Int, NEW t
  PROVE  /\ DOMAIN DropToken(e, t) = Fields /\ DropToken(e, t).id \in Int
         /\ DropToken(e, t).undo = e.undo /\ DropToken(e, t).disk = e.disk
BY DEF DropToken, DropPoint, FreeBuffer, Fields

(* One token that is run.                                                  *)
Popped(e) == RunToken([e EXCEPT !.tokens = Front(@)], Last(e.tokens))

(* teco_undo_pop() runs one token: files come back as they did before.     *)
LEMMA PoppedKeeps ==
  ASSUME NEW e, Sane(e), e.tokens # <<>>
  PROVE  /\ Sane(Popped(e)) /\ Popped(e).undo = e.undo /\ Popped(e).tokens = Front(e.tokens)
         /\ \A files : FilesKept(e, files) => FilesKept(Popped(e), files)
         /\ NoFileTokens(e) => /\ NoFileTokens(Popped(e))
                               /\ Popped(e).disk = e.disk /\ Popped(e).points = e.points
<1> DEFINE u == Front(e.tokens)
           t == Last(e.tokens)
           n == Len(e.tokens)
           d == [e EXCEPT !.tokens = u]
           g == RunToken(d, t)
<1>1. /\ IsSequence(u) /\ Len(u) = n - 1 /\ n \in Nat \ {0} /\ t = e.tokens[n]
      /\ \A i \in 1 .. (n - 1) : u[i] = e.tokens[i]
  BY FrontSequence DEF Sane
<1>2. /\ DOMAIN d = Fields /\ d.tokens = u /\ d.disk = e.disk /\ d.points = e.points /\ d.id = e.id /\ d.undo = e.undo
  BY DEF Sane, Fields
<1>3. t.kind \in Kinds
  BY <1>1 DEF Sane
<1>4. \A x : PointsOf(d, x) = PointsOf(e, x)
  BY <1>2 DEF PointsOf
<1> HIDE DEF u, t, n, d
<1>5. /\ DOMAIN g = Fields /\ g.tokens = u /\ g.undo = e.undo
      /\ t.kind \notin FileKinds => g.disk = e.disk /\ g.points = e.points /\ g.id = e.id
      /\ t.kind = "unlink" => g.disk = [e.disk EXCEPT ![t.name] = Absent] /\ g.points = e.points /\ g.id = e.id
      /\ t.kind = "restore" =>
           /\ g.disk = [e.disk EXCEPT ![t.name] = IF PointsOf(e, t) = {} THEN @ ELSE (CHOOSE p \in PointsOf(e, t) : TRUE).text]
           /\ g.points = e.points \ PointsOf(e, t) /\ g.id = e.id - 1
  <2> DEFINE P == PointsOf(d, t)
  <2>1. DOMAIN d = Fields /\ P = PointsOf(e, t)
    BY <1>2, <1>4
  <2>2. /\ DOMAIN g = Fields /\ g.tokens = d.tokens /\ g.undo = d.undo
        /\ t.kind \notin FileKinds => g.disk = d.disk /\ g.points = d.points /\ g.id = d.id
        /\ t.kind = "unlink" => g.disk = [d.disk EXCEPT ![t.name] = Absent] /\ g.points = d.points /\ g.id = d.id
        /\ t.kind = "restore" =>
             /\ g.disk = [d.disk EXCEPT ![t.name] = IF P = {} THEN @ ELSE (CHOOSE p \in P : TRUE).text]
             /\ g.points = d.points \ P /\ g.id = d.id - 1
    BY <1>3, <2>1, RunTokenFields, Zenon
  <2> HIDE DEF P, g
  <2>3. /\ t.kind \notin FileKinds => g.disk = e.disk /\ g.points = e.points /\ g.id = e.id
        /\ t.kind = "unlink" => g.disk = [e.disk EXCEPT ![t.name] = Absent] /\ g.points = e.points /\ g.id = e.id
        /\ t.kind = "restore" =>
             /\ g.disk = [e.disk EXCEPT ![t.name] = IF P = {} THEN @ ELSE (CHOOSE p \in P : TRUE).text]
             /\ g.points = e.points \ P /\ g.id = e.id - 1
    BY <1>2, <2>2
  <2> QED
    BY <1>2, <2>1, <2>2, <2>3
<1>6. Popped(e) = g
  BY DEF Popped, d, u, t
<1> HIDE DEF g
<1>7. \A i \in 1 .. Len(u) : i \in 1 .. n /\ i < n /\ u[i] = e.tokens[i]
  BY <1>1
<1>8. /\ \A i \in 1 .. n : e.tokens[i].kind = "restore" => e.tokens[i].id \in Int /\ e.tokens[i].id < e.id
      /\ \A i, j \in 1 .. n :
           i < j /\ e.tokens[i].kind = "restore" /\ e.tokens[j].kind = "restore" => e.tokens[i].id < e.tokens[j].id
      /\ e.id \in Int /\ n \in 1 .. n
  BY <1>1 DEF Sane, NumbersGrow, n
<1>9. \A i \in 1 .. Len(u) : u[i].kind = "restore" =>
        /\ u[i].id \in Int /\ u[i].id < e.id
        /\ t.kind = "restore" => u[i].id < t.id /\ t.id \in Int /\ t.id < e.id
  BY <1>1, <1>7, <1>8
<1>10. NumbersGrow(g)
  <2>1. \A i \in 1 .. Len(u) : u[i].kind = "restore" => u[i].id \in Int /\ u[i].id < g.id
    <3>1. CASE t.kind = "restore"
      <4>1. g.id = e.id - 1
        BY <1>5, <3>1
      <4> QED
        BY <1>8, <1>9, <3>1, <4>1
    <3>2. CASE t.kind # "restore"
      <4>1. g.id = e.id
        BY <1>3, <1>5, <3>2 DEF FileKinds
      <4> QED
        BY <1>9, <4>1
    <3> QED
      BY <3>1, <3>2
  <2>2. \A i, j \in 1 .. Len(u) : i < j /\ u[i].kind = "restore" /\ u[j].kind = "restore" => u[i].id < u[j].id
    BY <1>7, <1>8
  <2> QED
    BY <1>5, <2>1, <2>2 DEF NumbersGrow
<1>11. Sane(g)
  <2>1. DOMAIN g.disk = Names /\ g.id \in Int
    BY <1>5, <1>3, <1>8 DEF Sane, FileKinds
  <2>2. \A i \in 1 .. Len(u) : u[i].kind \in Kinds
    BY <1>7 DEF Sane, n
  <2> QED
    BY <1>1, <1>5, <1>10, <2>1, <2>2 DEF Sane
<1>12. ASSUME NEW files, FilesKept(e, files), NEW f \in Names
       PROVE  IsUntouched(g, f, files[f]) \/ ComesBack(g, f, files[f])
  <2>1. CASE IsUntouched(e, f, files[f])
    <3>1. ~IsOf(t, f) /\ \A i \in 1 .. Len(u) : ~IsOf(u[i], f)
      BY <1>1, <1>7, <1>8, <2>1 DEF IsUntouched, n
    <3>2. g.disk[f] = e.disk[f]
      BY <1>5, <3>1, <1>3 DEF IsOf, FileKinds, Sane
    <3> QED
      BY <1>5, <2>1, <3>1, <3>2 DEF IsUntouched
  <2>2. CASE ComesBack(e, f, files[f])
    <3>1. PICK i \in 1 .. n :
            /\ IsOf(e.tokens[i], f) /\ BringsBack(e, e.tokens[i], files[f])
            /\ \A j \in 1 .. (i - 1) : ~IsOf(e.tokens[j], f)
      BY <2>2 DEF ComesBack, n
    <3>2. CASE i = n
      <4>1. IsOf(t, f) /\ BringsBack(e, t, files[f])
        BY <1>1, <3>1, <3>2
      <4>2. \A j \in 1 .. Len(u) : ~IsOf(u[j], f)
        BY <1>1, <1>7, <3>1, <3>2
      <4>3. g.disk[f] = files[f]
        <5>1. CASE t.kind = "unlink"
          BY <1>5, <4>1, <5>1 DEF IsOf, BringsBack, Sane
        <5>2. CASE t.kind = "restore"
          <6> DEFINE q == CHOOSE p \in PointsOf(e, t) : TRUE
          <6>1. PointsOf(e, t) # {} /\ \A p \in PointsOf(e, t) : p.text = files[f]
            BY <4>1, <5>2 DEF BringsBack
          <6>2. q \in PointsOf(e, t)
            BY <6>1
          <6>3. q.text = files[f]
            BY <6>1, <6>2
          <6> HIDE DEF q
          <6>4. g.disk = [e.disk EXCEPT ![t.name] = q.text] /\ t.name = f /\ DOMAIN e.disk = Names
            BY <1>5, <4>1, <5>2, <6>1 DEF q, IsOf, Sane
          <6> QED
            BY <6>3, <6>4
        <5> QED
          BY <4>1, <5>1, <5>2 DEF IsOf, FileKinds
      <4> QED
        BY <1>5, <4>2, <4>3 DEF IsUntouched
    <3>3. CASE i # n
      <4>1. i \in 1 .. Len(u) /\ u[i] = e.tokens[i]
        BY <1>1, <3>1, <3>3
      <4>2. \A j \in 1 .. (i - 1) : ~IsOf(u[j], f)
        <5>1. \A j \in 1 .. (i - 1) : j \in 1 .. Len(u)
          BY <1>1, <4>1
        <5> QED
          BY <1>7, <3>1, <5>1
      <4>3. BringsBack(g, u[i], files[f])
        <5>1. CASE u[i].kind = "unlink"
          BY <3>1, <4>1, <5>1 DEF BringsBack
        <5>2. CASE u[i].kind = "restore"
          <6>1. PointsOf(g, u[i]) = PointsOf(e, u[i])
            <7>1. CASE t.kind = "restore"
              <8>1. u[i].id # t.id
                BY <1>9, <4>1, <5>2, <7>1
              <8> QED
                BY <1>5, <7>1, <8>1 DEF PointsOf
            <7>2. CASE t.kind # "restore"
              BY <1>3, <1>5, <7>2 DEF PointsOf, FileKinds
            <7> QED
              BY <7>1, <7>2
          <6> QED
            BY <3>1, <4>1, <6>1 DEF BringsBack
        <5> QED
          BY <3>1, <4>1, <5>1, <5>2 DEF IsOf, FileKinds
      <4> QED
        BY <1>5, <3>1, <4>1, <4>2, <4>3 DEF ComesBack
    <3> QED
      BY <3>2, <3>3
  <2> QED
    BY <1>12, <2>1, <2>2 DEF FilesKept
<1>13. \A files : FilesKept(e, files) => FilesKept(g, files)
  BY <1>12 DEF FilesKept
<1>14. ASSUME NoFileTokens(e) PROVE NoFileTokens(g) /\ g.disk = e.disk /\ g.points = e.points
  BY <1>1, <1>5, <1>7, <1>8, <1>14 DEF NoFileTokens, n
<1> QED
  BY <1>5, <1>6, <1>11, <1>13, <1>14 DEF u

(* The first element of an interval, and the others.                       *)
LEMMA LeastOfInterval ==
  ASSUME NEW a \in Nat, NEW m \in Nat, a <= m
  PROVE  Min(a .. m) = a /\ (a .. m) \ {a} = (a + 1) .. m /\ a .. m # {}
<1> DEFINE I == a .. m
<1>1. a \in I /\ I \in SUBSET Nat /\ (\A i \in I : a <= i) /\ I \ {a} = (a + 1) .. m
  OBVIOUS
<1> HIDE DEF I
<1>2. Min(I) \in I /\ \A i \in I : Min(I) <= i
  BY <1>1, MinLemma
<1>3. Min(I) \in Nat
  BY <1>1, <1>2
<1>4. Min(I) = a
  BY <1>1, <1>2, <1>3
<1> QED
  BY <1>1, <1>4 DEF I

(* Rubbing out runs all the tokens from the n-th one on, the last one      *)
(* first.                                                                  *)
LEMMA RubbedKeeps ==
  ASSUME NEW e, Sane(e), NEW n \in Nat \ {0}
  PROVE  /\ Sane(RunTokens(e, n)) /\ RunTokens(e, n).undo = e.undo
         /\ \A files : FilesKept(e, files) => FilesKept(RunTokens(e, n), files)
         /\ NoFileTokens(e) => /\ NoFileTokens(RunTokens(e, n))
                               /\ RunTokens(e, n).disk = e.disk /\ RunTokens(e, n).points = e.points
<1> DEFINE N == Len(e.tokens)
           s == SubSeq(e.tokens, n, N)
           m == Len(s)
           Good(f) == /\ Sane(f) /\ f.undo = e.undo
                      /\ \A files : FilesKept(e, files) => FilesKept(f, files)
                      /\ NoFileTokens(e) => NoFileTokens(f) /\ f.disk = e.disk /\ f.points = e.points
           Left(f, k) == /\ Len(f.tokens) = N - k
                         /\ \A i \in 1 .. (N - k) : f.tokens[i] = e.tokens[i]
<1>1. PICK T : e.tokens \in Seq(T)
  BY DEF Sane, IsSequence
<1>2. /\ s \in Seq(T) /\ N \in Nat /\ m \in Nat /\ DOMAIN s = 1 .. m
      /\ m <= N /\ \A i \in 1 .. m : s[i] = e.tokens[n + i - 1] /\ N - (m - i) = n + i - 1
  <2>1. N \in Nat
    BY <1>1
  <2>2. \A i \in n .. N : e.tokens[i] \in T
    BY <1>1
  <2>3. /\ s \in Seq(T) /\ m = (IF n <= N THEN N - n + 1 ELSE 0)
        /\ \A i \in 1 .. (N - n + 1) : s[i] = e.tokens[n + i - 1]
    <3> HIDE DEF N
    <3> QED
      BY <2>1, <2>2, SubSeqProperties
  <2> HIDE DEF s, N
  <2>4. m \in Nat /\ DOMAIN s = 1 .. m
    BY <2>3
  <2> HIDE DEF m
  <2> QED
    BY <2>1, <2>3, <2>4
<1>3. PICK it : /\ Rolls(TRUE, it, s, e)
                /\ FoldRight(LAMBDA t, f : RunToken([f EXCEPT !.tokens = Front(@)], t), s, e) = it[DOMAIN s]
  BY <1>2, FoldRuns
<1>4. RunTokens(e, n) = it[1 .. m]
  BY <1>2, <1>3 DEF RunTokens
<1> HIDE DEF s, m, N
<1> DEFINE S == {k \in Nat : k <= m => Good(it[(m - k + 1) .. m]) /\ Left(it[(m - k + 1) .. m], k)}
<1>5. 0 \in S
  <2>1. (m - 0 + 1) .. m = {}
    BY <1>2
  <2>2. it[{}] = e
    BY <1>3 DEF Rolls
  <2>3. Good(e) /\ Left(e, 0)
    BY <1>2 DEF N
  <2> HIDE DEF Good, Left
  <2> QED
    BY <2>1, <2>2, <2>3
<1>6. ASSUME NEW k \in Nat, k \in S PROVE k + 1 \in S
  <2> SUFFICES ASSUME k + 1 <= m
               PROVE  Good(it[(m - (k + 1) + 1) .. m]) /\ Left(it[(m - (k + 1) + 1) .. m], k + 1)
    OBVIOUS
  <2> DEFINE a == m - k
             I == a .. m
             f == it[(a + 1) .. m]
  <2>1. Good(f) /\ Left(f, k)
    <3> HIDE DEF Good, Left
    <3>1. k <= m
      BY <1>2
    <3> QED
      BY <1>6, <3>1
  <2>0. a \in 1 .. m /\ m - (k + 1) + 1 = a
    BY <1>2
  <2> HIDE DEF a
  <2>3. Min(I) = a /\ I \ {a} = (a + 1) .. m /\ I # {}
    <3>1. a \in Nat /\ m \in Nat /\ a <= m
      BY <1>2, <2>0
    <3> HIDE DEF f
    <3> QED
      BY <3>1, LeastOfInterval, Zenon
  <2>4. I \subseteq 1 .. m
    BY <1>2, <2>0
  <2> HIDE DEF I
  <2>5. it[I] = Roll(TRUE, it[I \ {Min(I)}], s[Min(I)])
    BY <1>2, <1>3, <2>3, <2>4 DEF Rolls
  <2>6. it[I] = Roll(TRUE, f, s[a])
    BY <2>3, <2>5
  <2> HIDE DEF f
  <2>7. s[a] = e.tokens[n + a - 1] /\ N - k = n + a - 1 /\ N - k \in 1 .. (N - k) /\ N - k > 0
    BY <1>2, <2>0 DEF a
  <2>8. s[a] = f.tokens[N - k] /\ Len(f.tokens) = N - k
    BY <2>1, <2>7
  <2>9. f.tokens # <<>>
    BY <2>7, <2>8
  <2>10. /\ Front(f.tokens) = Popped(f).tokens
         /\ Len(Front(f.tokens)) = N - k - 1 /\ Last(f.tokens) = f.tokens[N - k]
         /\ \A i \in 1 .. (N - k - 1) : Front(f.tokens)[i] = f.tokens[i]
    BY <2>1, <2>8, <2>9, FrontSequence, PoppedKeeps DEF Sane
  <2>11. it[I] = Popped(f)
    BY <2>6, <2>8, <2>10 DEF Roll, Popped
  <2>12. Good(Popped(f))
    BY <2>1, <2>9, PoppedKeeps
  <2>13. Left(Popped(f), k + 1)
    <3>1. N - k - 1 = N - (k + 1) /\ 1 .. (N - (k + 1)) \subseteq 1 .. (N - k)
      BY <1>2
    <3> QED
      BY <2>1, <2>10, <3>1
  <2> QED
    BY <2>0, <2>11, <2>12, <2>13 DEF I
<1> HIDE DEF S
<1>7. m \in S
  BY <1>2, <1>5, <1>6, SetInduction
<1>8. Good(it[(m - m + 1) .. m])
  BY <1>2, <1>7 DEF S
<1>9. m - m + 1 = 1
  BY <1>2
<1> QED
  BY <1>4, <1>8, <1>9

(* Accepting the command line drops all tokens and touches no file.        *)
LEMMA DroppedKeeps ==
  ASSUME NEW e, Sane(e)
  PROVE  /\ Sane(DropTokens(e)) /\ DropTokens(e).undo = e.undo /\ DropTokens(e).disk = e.disk
         /\ DropTokens(e).tokens = <<>>
<1> DEFINE s == e.tokens
           m == Len(s)
           Good(f) == DOMAIN f = Fields /\ f.id \in Int /\ f.undo = e.undo /\ f.disk = e.disk
<1>1. PICK T : s \in Seq(T)
  BY DEF Sane, IsSequence
<1>2. m \in Nat /\ DOMAIN s = 1 .. m
  BY <1>1
<1>3. PICK it : /\ Rolls(FALSE, it, s, e)
                /\ FoldRight(LAMBDA t, f : DropToken(f, t), s, e) = it[DOMAIN s]
  BY <1>1, FoldDrops
<1>4. DropTokens(e) = [it[1 .. m] EXCEPT !.tokens = <<>>]
  BY <1>2, <1>3 DEF DropTokens
<1> HIDE DEF s, m
<1> DEFINE S == {k \in Nat : k <= m => Good(it[(m - k + 1) .. m])}
<1>5. 0 \in S
  <2>1. (m - 0 + 1) .. m = {}
    BY <1>2
  <2>2. it[{}] = e
    BY <1>3 DEF Rolls
  <2> QED
    BY <2>1, <2>2 DEF Sane
<1>6. ASSUME NEW k \in Nat, k \in S PROVE k + 1 \in S
  <2> SUFFICES ASSUME k + 1 <= m PROVE Good(it[(m - (k + 1) + 1) .. m])
    OBVIOUS
  <2> DEFINE a == m - k
             I == a .. m
             f == it[(a + 1) .. m]
  <2>1. Good(f)
    <3> HIDE DEF Good
    <3>1. k <= m
      BY <1>2
    <3> QED
      BY <1>6, <3>1
  <2>0. a \in 1 .. m /\ m - (k + 1) + 1 = a
    BY <1>2
  <2> HIDE DEF a
  <2>3. Min(I) = a /\ I \ {a} = (a + 1) .. m /\ I # {}
    <3>1. a \in Nat /\ m \in Nat /\ a <= m
      BY <1>2, <2>0
    <3> HIDE DEF f
    <3> QED
      BY <3>1, LeastOfInterval, Zenon
  <2>4. I \subseteq 1 .. m
    BY <1>2, <2>0
  <2> HIDE DEF I
  <2>5. it[I] = Roll(FALSE, it[I \ {Min(I)}], s[Min(I)])
    BY <1>2, <1>3, <2>3, <2>4 DEF Rolls
  <2>6. it[I] = DropToken(f, s[a])
    BY <2>3, <2>5 DEF Roll
  <2>7. Good(DropToken(f, s[a]))
    <3> HIDE DEF f
    <3> QED
      BY <2>1, DropTokenFields
  <2> QED
    BY <2>0, <2>6, <2>7 DEF I
<1> HIDE DEF S
<1>7. m \in S
  BY <1>2, <1>5, <1>6, SetInduction
<1>8. Good(it[(m - m + 1) .. m]) /\ m - m + 1 = 1
  BY <1>2, <1>7 DEF S
<1> DEFINE f == it[1 .. m]
           g == [f EXCEPT !.tokens = <<>>]
<1>9. DOMAIN g = Fields /\ g.id \in Int /\ g.undo = e.undo /\ g.disk = e.disk /\ g.tokens = <<>>
  <2>1. Good(f)
    BY <1>8
  <2> HIDE DEF f
  <2> QED
    BY <2>1 DEF Fields
<1> HIDE DEF g
<1>10. IsSequence(<<>>) /\ Len(<<>>) = 0
  BY DEF IsSequence
<1>11. Sane(g)
  BY <1>9, <1>10 DEF Sane, NumbersGrow
<1> QED
  BY <1>4, <1>9, <1>11 DEF g

(* A file that is written has been put aside, or is to be removed again.   *)
LEMMA PutAsideKeeps ==
  ASSUME NEW e, Sane(e), NEW f, NEW refused \in BOOLEAN, ~refused
  PROVE  /\ Sane(PutAside(e, f, refused)) /\ PutAside(e, f, refused).undo = e.undo
         /\ e.undo => /\ Len(PutAside(e, f, refused).tokens) = Len(e.tokens) + 1
                      /\ IsOf(PutAside(e, f, refused).tokens[Len(e.tokens) + 1], f)
                      /\ \A i \in 1 .. Len(e.tokens) : PutAside(e, f, refused).tokens[i] = e.tokens[i]
                      /\ \A files : FilesKept(e, files) => FilesKept(PutAside(e, f, refused), files)
         /\ ~e.undo => PutAside(e, f, refused) = e
<1> DEFINE n == Len(e.tokens)
           g == PutAside(e, f, refused)
<1>0. n \in Nat /\ \A t : /\ IsSequence(Append(e.tokens, t)) /\ Len(Append(e.tokens, t)) = n + 1
                          /\ Append(e.tokens, t)[n + 1] = t
                          /\ \A i \in 1 .. n : Append(e.tokens, t)[i] = e.tokens[i]
  BY AppendSequence, SequenceLength DEF Sane
<1>1. CASE ~e.undo
  BY <1>1 DEF PutAside
<1>2. CASE e.undo
  <2>1. CASE e.disk[f] # Absent
    <3> DEFINE q == PointAt(e, f)
               t == [kind |-> "restore", id |-> e.id, name |-> f]
               u == Append(e.tokens, t)
               P == {p \in e.points : p.id # e.id \/ p.name # f} \cup {q}
    <3>1. /\ DOMAIN g = Fields /\ g.undo = e.undo /\ g.tokens = u /\ g.id = e.id + 1 /\ g.points = P
          /\ g.disk = [e.disk EXCEPT ![f] = Absent]
      <4>1. g = MakeSavepoint(e, f)
        BY <1>2, <2>1 DEF PutAside
      <4>2. DOMAIN e = Fields
        BY DEF Sane
      <4> HIDE DEF g
      <4> DEFINE r == Renamed(e, f)
                 w == UndoRename(r, f)
      <4>3. /\ DOMAIN r = Fields /\ r.undo = e.undo /\ r.tokens = e.tokens /\ r.id = e.id /\ r.points = P
            /\ r.disk = [e.disk EXCEPT ![f] = Absent]
        BY <4>2 DEF Renamed, Fields
      <4> HIDE DEF r
      <4>4. w = [r EXCEPT !.tokens = u]
        BY <1>2, <4>3 DEF UndoRename, Push
      <4> HIDE DEF u, P
      <4>5. /\ DOMAIN w = Fields /\ w.undo = e.undo /\ w.tokens = u /\ w.id = e.id /\ w.points = P
            /\ w.disk = [e.disk EXCEPT ![f] = Absent]
        BY <4>3, <4>4 DEF Fields
      <4> HIDE DEF w
      <4>6. g = [w EXCEPT !.id = @ + 1]
        BY <4>1 DEF MakeSavepoint, w, r
      <4> QED
        BY <4>5, <4>6 DEF Fields
    <3>2. /\ IsSequence(u) /\ Len(u) = n + 1 /\ u[n + 1] = t /\ \A i \in 1 .. n : u[i] = e.tokens[i]
      BY <1>0
    <3>3. t.kind = "restore" /\ t.id = e.id /\ t.name = f /\ q.id = e.id /\ q.name = f /\ q.text = e.disk[f]
      BY DEF PointAt
    <3>4. \A x : PointsOf(g, x) = IF x.id = e.id /\ x.name = f THEN {q} ELSE PointsOf(e, x)
      <4> SUFFICES ASSUME NEW x PROVE PointsOf(g, x) = IF x.id = e.id /\ x.name = f THEN {q} ELSE PointsOf(e, x)
        OBVIOUS
      <4> HIDE DEF g, q
      <4> QED
        BY <3>1, <3>3 DEF PointsOf
    <3> HIDE DEF g, u, t, q, P, n
    <3>5. \A i \in 1 .. (n + 1) : i \in 1 .. n \/ i = n + 1
      BY <1>0
    <3>6. /\ \A i \in 1 .. n : e.tokens[i].kind = "restore" => e.tokens[i].id \in Int /\ e.tokens[i].id < e.id
          /\ \A i, j \in 1 .. n : i < j /\ e.tokens[i].kind = "restore" /\ e.tokens[j].kind = "restore"
                                  => e.tokens[i].id < e.tokens[j].id
          /\ e.id \in Int
      BY DEF n, Sane, NumbersGrow
    <3>7. NumbersGrow(g)
      <4>1. \A i \in 1 .. (n + 1) : u[i].kind = "restore" => u[i].id \in Int /\ u[i].id < e.id + 1
        BY <3>2, <3>3, <3>5, <3>6
      <4>2. \A i, j \in 1 .. (n + 1) : i < j /\ u[i].kind = "restore" /\ u[j].kind = "restore" => u[i].id < u[j].id
        <5> SUFFICES ASSUME NEW i \in 1 .. (n + 1), NEW j \in 1 .. (n + 1), i < j,
                            u[i].kind = "restore", u[j].kind = "restore"
                     PROVE  u[i].id < u[j].id
          OBVIOUS
        <5>1. i \in 1 .. n
          BY <1>0
        <5>2. CASE j = n + 1
          BY <3>2, <3>3, <3>6, <5>1, <5>2
        <5>3. CASE j \in 1 .. n
          BY <3>2, <3>6, <5>1, <5>3
        <5> QED
          BY <3>5, <5>2, <5>3
      <4> QED
        BY <3>1, <3>2, <4>1, <4>2 DEF NumbersGrow
    <3>8. Sane(g)
      <4>1. \A i \in 1 .. (n + 1) : u[i].kind \in Kinds
        BY <3>2, <3>3, <3>5 DEF Sane, n, Kinds, FileKinds
      <4>2. DOMAIN g.disk = Names /\ g.id \in Int
        BY <3>1, <3>6 DEF Sane
      <4> QED
        BY <3>1, <3>2, <3>7, <4>1, <4>2 DEF Sane
    <3>9. ASSUME NEW files, FilesKept(e, files), NEW x \in Names
          PROVE  IsUntouched(g, x, files[x]) \/ ComesBack(g, x, files[x])
      <4>1. CASE IsUntouched(e, x, files[x])
        <5>0. \A i \in 1 .. n : ~IsOf(u[i], x)
          BY <3>2, <4>1 DEF IsUntouched, n
        <5>1. CASE x = f
          <6>1. IsOf(u[n + 1], x)
            BY <3>2, <3>3, <5>1 DEF IsOf, FileKinds
          <6>2. BringsBack(g, u[n + 1], files[x])
            <7>1. PointsOf(g, t) = {q}
              BY <3>3, <3>4
            <7>2. q.text = files[x]
              BY <3>3, <4>1, <5>1 DEF IsUntouched
            <7> QED
              BY <3>2, <3>3, <7>1, <7>2 DEF BringsBack
          <6>3. n + 1 \in 1 .. Len(g.tokens) /\ (n + 1) - 1 = n
            BY <1>0, <3>1, <3>2
          <6> QED
            BY <3>1, <5>0, <6>1, <6>2, <6>3 DEF ComesBack
        <5>2. CASE x # f
          <6>1. ~IsOf(u[n + 1], x)
            BY <3>2, <3>3, <5>2 DEF IsOf
          <6>2. g.disk[x] = e.disk[x]
            BY <3>1, <5>2 DEF Sane
          <6>3. \A i \in 1 .. Len(g.tokens) : ~IsOf(g.tokens[i], x)
            BY <3>1, <3>2, <3>5, <5>0, <6>1
          <6> QED
            BY <4>1, <6>2, <6>3 DEF IsUntouched
        <5> QED
          BY <5>1, <5>2
      <4>2. CASE ComesBack(e, x, files[x])
        <5>1. PICK i \in 1 .. n :
                /\ IsOf(e.tokens[i], x) /\ BringsBack(e, e.tokens[i], files[x])
                /\ \A j \in 1 .. (i - 1) : ~IsOf(e.tokens[j], x)
          BY <4>2 DEF ComesBack, n
        <5>2. i \in 1 .. Len(g.tokens) /\ g.tokens[i] = e.tokens[i]
          BY <1>0, <3>1, <3>2
        <5>3. BringsBack(g, e.tokens[i], files[x])
          <6>1. CASE e.tokens[i].kind = "unlink"
            BY <5>1, <6>1 DEF BringsBack
          <6>2. CASE e.tokens[i].kind = "restore"
            <7>1. e.tokens[i].id # e.id
              BY <3>6, <6>2
            <7>2. PointsOf(g, e.tokens[i]) = PointsOf(e, e.tokens[i])
              BY <3>4, <7>1
            <7> QED
              BY <5>1, <6>2, <7>2 DEF BringsBack
          <6> QED
            BY <5>1, <6>1, <6>2 DEF IsOf, FileKinds
        <5>4. \A j \in 1 .. (i - 1) : ~IsOf(g.tokens[j], x)
          <6>1. \A j \in 1 .. (i - 1) : j \in 1 .. n
            BY <1>0
          <6> QED
            BY <3>1, <3>2, <5>1, <6>1
        <5> QED
          BY <5>1, <5>2, <5>3, <5>4 DEF ComesBack
      <4> QED
        BY <3>9, <4>1, <4>2 DEF FilesKept
    <3>10. \A files : FilesKept(e, files) => FilesKept(g, files)
      BY <3>9 DEF FilesKept
    <3>11. IsOf(u[n + 1], f)
      BY <3>2, <3>3 DEF IsOf, FileKinds
    <3> QED
      BY <1>2, <3>1, <3>2, <3>8, <3>10, <3>11 DEF g, n
  <2>2. CASE e.disk[f] = Absent
    <3> DEFINE t == [kind |-> "unlink", name |-> f]
               u == Append(e.tokens, t)
    <3>1. /\ DOMAIN g = Fields /\ g.undo = e.undo /\ g.tokens = u /\ g.id = e.id /\ g.points = e.points
          /\ g.disk = e.disk
      <4>1. g = [e EXCEPT !.tokens = u]
        BY <1>2, <2>2 DEF PutAside, Push
      <4> QED
        BY <4>1 DEF Sane, Fields
    <3>2. /\ IsSequence(u) /\ Len(u) = n + 1 /\ u[n + 1] = t /\ \A i \in 1 .. n : u[i] = e.tokens[i]
      BY <1>0
    <3>3. t.kind = "unlink" /\ t.name = f
      OBVIOUS
    <3>4. \A x : PointsOf(g, x) = PointsOf(e, x)
      BY <3>1 DEF PointsOf
    <3> HIDE DEF g, u, t, n
    <3>5. \A i \in 1 .. (n + 1) : i \in 1 .. n \/ i = n + 1
      BY <1>0
    <3>6. \A i \in 1 .. (n + 1) : u[i].kind = "restore" => i \in 1 .. n /\ u[i] = e.tokens[i]
      BY <3>2, <3>3, <3>5
    <3>7. NumbersGrow(g)
      BY <3>1, <3>2, <3>6 DEF NumbersGrow, Sane, n
    <3>8. Sane(g)
      <4>1. \A i \in 1 .. (n + 1) : u[i].kind \in Kinds
        BY <3>2, <3>3, <3>5 DEF Sane, n, Kinds, FileKinds
      <4> QED
        BY <3>1, <3>2, <3>7, <4>1 DEF Sane
    <3>9. ASSUME NEW files, FilesKept(e, files), NEW x \in Names
          PROVE  IsUntouched(g, x, files[x]) \/ ComesBack(g, x, files[x])
      <4>1. CASE IsUntouched(e, x, files[x])
        <5>0. \A i \in 1 .. n : ~IsOf(u[i], x)
          BY <3>2, <4>1 DEF IsUntouched, n
        <5>1. CASE x = f
          <6>1. IsOf(u[n + 1], x) /\ BringsBack(g, u[n + 1], files[x])
            BY <2>2, <3>2, <3>3, <4>1, <5>1 DEF IsOf, FileKinds, BringsBack, IsUntouched
          <6>3. n + 1 \in 1 .. Len(g.tokens) /\ (n + 1) - 1 = n
            BY <1>0, <3>1, <3>2
          <6> QED
            BY <3>1, <5>0, <6>1, <6>3 DEF ComesBack
        <5>2. CASE x # f
          <6>1. ~IsOf(u[n + 1], x)
            BY <3>2, <3>3, <5>2 DEF IsOf
          <6>3. \A i \in 1 .. Len(g.tokens) : ~IsOf(g.tokens[i], x)
            BY <3>1, <3>2, <3>5, <5>0, <6>1
          <6> QED
            BY <3>1, <4>1, <6>3 DEF IsUntouched
        <5> QED
          BY <5>1, <5>2
      <4>2. CASE ComesBack(e, x, files[x])
        <5>1. PICK i \in 1 .. n :
                /\ IsOf(e.tokens[i], x) /\ BringsBack(e, e.tokens[i], files[x])
                /\ \A j \in 1 .. (i - 1) : ~IsOf(e.tokens[j], x)
          BY <4>2 DEF ComesBack, n
        <5>2. i \in 1 .. Len(g.tokens) /\ g.tokens[i] = e.tokens[i]
          BY <1>0, <3>1, <3>2
        <5>3. BringsBack(g, e.tokens[i], files[x])
          BY <3>4, <5>1 DEF BringsBack
        <5>4. \A j \in 1 .. (i - 1) : ~IsOf(g.tokens[j], x)
          <6>1. \A j \in 1 .. (i - 1) : j \in 1 .. n
            BY <1>0
          <6> QED
            BY <3>1, <3>2, <5>1, <6>1
        <5> QED
          BY <5>1, <5>2, <5>3, <5>4 DEF ComesBack
      <4> QED
        BY <3>9, <4>1, <4>2 DEF FilesKept
    <3>10. \A files : FilesKept(e, files) => FilesKept(g, files)
      BY <3>9 DEF FilesKept
    <3>11. IsOf(u[n + 1], f)
      BY <3>2, <3>3 DEF IsOf, FileKinds
    <3> QED
      BY <1>2, <3>1, <3>2, <3>8, <3>10, <3>11 DEF g, n
  <2> QED
    BY <2>1, <2>2
<1> QED
  BY <1>1, <1>2

-----------------------------------------------------------------------------
(* Most of what the editor does has nothing to do with files.              *)

Base(e) == DOMAIN e = Fields /\ IsSequence(e.tokens)

(* An editor has fields and tokens,                                        *)
LEMMA SaneBase == ASSUME NEW e, Sane(e) PROVE Base(e)
BY DEF Sane, Base

(* before and after a step that leaves files alone.                        *)
LEMMA SameBase == ASSUME NEW e, NEW f, SameFiles(e, f) PROVE Base(e) /\ Base(f)
BY DEF SameFiles, Base

(* Assigning a field that is not about files.                              *)
LEMMA FieldsSame ==
  ASSUME NEW e, Base(e), NEW f, DOMAIN f = Fields, f.tokens = e.tokens,
         f.disk = e.disk, f.points = e.points, f.id = e.id, f.undo = e.undo
  PROVE  SameFiles(e, f)
BY SequenceLength DEF Base, SameFiles

(* Pushing a token after other steps that leave files alone.               *)
LEMMA PushAgain ==
  ASSUME NEW e, NEW f, SameFiles(e, f), NEW t, t.kind \in Kinds \ FileKinds
  PROVE  SameFiles(e, Push(f, t))
BY PushSame, SameAgain, SameBase DEF Base

(* Creating, showing, removing and releasing a buffer in ring.c and        *)
(* view.c.                                                                 *)
LEMMA ViewSame ==
  ASSUME NEW e, NEW f, SameFiles(e, f), NEW v
  PROVE  /\ SameFiles(e, ShowView(f, v)) /\ SameFiles(e, EditBuffer(f, v)) /\ SameFiles(e, EditExisting(f, v))
         /\ SameFiles(e, FreeBuffer(f, v)) /\ SameFiles(e, RemoveBuffer(f, v)) /\ SameFiles(e, NewBuffer(f, v))
         /\ SameFiles(e, Fail(f)) /\ SameFiles(e, ShowView([f EXCEPT !.register = TRUE], v))
<1>1. Base(f)
  BY SameBase
<1> DEFINE Plain(g) == SameFiles(f, g)
<1>2. Plain(ShowView(f, v))
  <2>1. LET g == ShowView(f, v) IN DOMAIN g = Fields /\ g.tokens = f.tokens /\ g.disk = f.disk /\ g.points = f.points /\ g.id = f.id /\ g.undo = f.undo
    BY <1>1 DEF ShowView, Base, Fields
  <2> QED
    BY <1>1, <2>1, FieldsSame
<1>3. Plain(EditBuffer(f, v))
  <2>1. LET g == EditBuffer(f, v) IN DOMAIN g = Fields /\ g.tokens = f.tokens /\ g.disk = f.disk /\ g.points = f.points /\ g.id = f.id /\ g.undo = f.undo
    BY <1>1 DEF EditBuffer, ShowView, Base, Fields
  <2> QED
    BY <1>1, <2>1, FieldsSame
<1>4. Plain(EditExisting(f, v))
  <2>1. LET g == EditExisting(f, v) IN DOMAIN g = Fields /\ g.tokens = f.tokens /\ g.disk = f.disk /\ g.points = f.points /\ g.id = f.id /\ g.undo = f.undo
    BY <1>1 DEF EditExisting, EditBuffer, ShowView, Base, Fields
  <2> QED
    BY <1>1, <2>1, FieldsSame
<1>5. Plain(FreeBuffer(f, v))
  <2>1. LET g == FreeBuffer(f, v) IN DOMAIN g = Fields /\ g.tokens = f.tokens /\ g.disk = f.disk /\ g.points = f.points /\ g.id = f.id /\ g.undo = f.undo
    BY <1>1 DEF FreeBuffer, Base, Fields
  <2> QED
    BY <1>1, <2>1, FieldsSame
<1>6. Plain(RemoveBuffer(f, v))
  <2>1. LET g == RemoveBuffer(f, v) IN DOMAIN g = Fields /\ g.tokens = f.tokens /\ g.disk = f.disk /\ g.points = f.points /\ g.id = f.id /\ g.undo = f.undo
    BY <1>1 DEF RemoveBuffer, Base, Fields
  <2> QED
    BY <1>1, <2>1, FieldsSame
<1>7. Plain(NewBuffer(f, v))
  <2>1. LET g == NewBuffer(f, v) IN DOMAIN g = Fields /\ g.tokens = f.tokens /\ g.disk = f.disk /\ g.points = f.points /\ g.id = f.id /\ g.undo = f.undo
    BY <1>1 DEF NewBuffer, Base, Fields
  <2> QED
    BY <1>1, <2>1, FieldsSame
<1>8. Plain(Fail(f))
  <2>1. LET g == Fail(f) IN DOMAIN g = Fields /\ g.tokens = f.tokens /\ g.disk = f.disk /\ g.points = f.points /\ g.id = f.id /\ g.undo = f.undo
    BY <1>1 DEF Fail, Base, Fields
  <2> QED
    BY <1>1, <2>1, FieldsSame
<1>9. Plain(ShowView([f EXCEPT !.register = TRUE], v))
  <2>1. LET g == ShowView([f EXCEPT !.register = TRUE], v) IN DOMAIN g = Fields /\ g.tokens = f.tokens /\ g.disk = f.disk /\ g.points = f.points /\ g.id = f.id /\ g.undo = f.undo
    BY <1>1 DEF ShowView, Base, Fields
  <2> QED
    BY <1>1, <2>1, FieldsSame
<1> QED
  BY <1>2, <1>3, <1>4, <1>5, <1>6, <1>7, <1>8, <1>9, SameAgain

(* Loading a buffer from a file, naming it and changing it.                *)
LEMMA TextSame ==
  ASSUME NEW e, NEW f, SameFiles(e, f)
  PROVE  /\ \A b, text : SameFiles(e, Load(f, b, text))
         /\ \A b, n : \A how \in {"ok", "unreadable", "interrupted"} : SameFiles(e, LoadFile(f, b, n, how))
         /\ \A b, n : SameFiles(e, [f EXCEPT !.name[b] = n])
         /\ \A text : SameFiles(e, ChangeText(f, text)) /\ SameFiles(e, Fail(ChangeText(f, text)))
         /\ \A b, n : SameFiles(e, [f EXCEPT !.dirty[b] = n])
<1>1. Base(f)
  BY SameBase
<1>2. ASSUME NEW b, NEW text PROVE SameFiles(f, Load(f, b, text))
  <2>1. LET g == Load(f, b, text) IN DOMAIN g = Fields /\ g.tokens = f.tokens /\ g.disk = f.disk /\ g.points = f.points /\ g.id = f.id /\ g.undo = f.undo
    BY <1>1 DEF Load, Base, Fields
  <2> QED
    BY <1>1, <2>1, FieldsSame
<1>3. ASSUME NEW b, NEW n, NEW how \in {"ok", "unreadable", "interrupted"} PROVE SameFiles(f, LoadFile(f, b, n, how))
  <2>1. LET g == LoadFile(f, b, n, how) IN DOMAIN g = Fields /\ g.tokens = f.tokens /\ g.disk = f.disk /\ g.points = f.points /\ g.id = f.id /\ g.undo = f.undo
    <3>1. CASE how = "ok"
      BY <3>1, <1>1 DEF LoadFile, Load, Base, Fields
    <3>2. CASE how = "unreadable"
      BY <3>2, <1>1 DEF LoadFile, Base, Fields
    <3>3. CASE how = "interrupted"
      BY <3>3, <1>1 DEF LoadFile, Load, Base, Fields
    <3> QED
      BY <3>1, <3>2, <3>3
  <2> QED
    BY <1>1, <2>1, FieldsSame
<1>4. ASSUME NEW b, NEW n PROVE SameFiles(f, [f EXCEPT !.name[b] = n])
  <2>1. LET g == [f EXCEPT !.name[b] = n] IN DOMAIN g = Fields /\ g.tokens = f.tokens /\ g.disk = f.disk /\ g.points = f.points /\ g.id = f.id /\ g.undo = f.undo
    BY <1>1 DEF Base, Fields
  <2> QED
    BY <1>1, <2>1, FieldsSame
<1>5. ASSUME NEW b, NEW n PROVE SameFiles(f, [f EXCEPT !.dirty[b] = n])
  <2>1. LET g == [f EXCEPT !.dirty[b] = n] IN DOMAIN g = Fields /\ g.tokens = f.tokens /\ g.disk = f.disk /\ g.points = f.points /\ g.id = f.id /\ g.undo = f.undo
    BY <1>1 DEF Base, Fields
  <2> QED
    BY <1>1, <2>1, FieldsSame
<1>6. ASSUME NEW text PROVE SameFiles(f, ChangeText(f, text)) /\ SameFiles(f, Fail(ChangeText(f, text)))
  <2>1. LET g == ChangeText(f, text) IN DOMAIN g = Fields /\ g.tokens = f.tokens /\ g.disk = f.disk /\ g.points = f.points /\ g.id = f.id /\ g.undo = f.undo
    BY <1>1 DEF ChangeText, Base, Fields
  <2>2. SameFiles(f, ChangeText(f, text))
    BY <1>1, <2>1, FieldsSame
  <2> QED
    BY <2>2, ViewSame
<1> QED
  BY <1>2, <1>3, <1>4, <1>5, <1>6, SameAgain

(* Pushing the tokens with which ring.c undoes editing and closing.        *)
LEMMA UndoSame ==
  ASSUME NEW e, NEW f, SameFiles(e, f)
  PROVE  /\ SameFiles(e, UndoShow(f)) /\ SameFiles(e, UndoEdit(f)) /\ SameFiles(e, Dirtify(f))
         /\ \A b : SameFiles(e, UndoReinsert(f, b)) /\ SameFiles(e, UndoName(f, b))
<1> DEFINE t1 == [kind |-> "register", old |-> f.register]
           t2 == [kind |-> "current", old |-> f.current]
           t3 == [kind |-> "show", buffer |-> f.current]
           t4 == [kind |-> "register", old |-> TRUE]
           t5 == [kind |-> "show", buffer |-> "register"]
           t6 == [kind |-> "dirty", buffer |-> f.current, old |-> FALSE]
<1>1. {t1.kind, t2.kind, t3.kind, t4.kind, t5.kind, t6.kind} \subseteq Kinds \ FileKinds
  BY DEF Kinds, FileKinds
<1>2. UndoShow(f) = Push(Push(Push(f, t1), t2), t3)
  BY DEF UndoShow
<1>3. UndoEdit(f) = IF f.register THEN Push(Push(f, t4), t5) ELSE UndoShow(f)
  BY DEF UndoEdit
<1>4. Dirtify(f) = IF f.register \/ f.dirty[f.current] THEN f ELSE [Push(f, t6) EXCEPT !.dirty[f.current] = TRUE]
  BY DEF Dirtify
<1> HIDE DEF t1, t2, t3, t4, t5, t6
<1>5. SameFiles(e, UndoShow(f))
  BY <1>1, <1>2, PushAgain
<1>6. SameFiles(e, UndoEdit(f))
  BY <1>1, <1>3, <1>5, PushAgain
<1>7. SameFiles(e, Dirtify(f))
  <2>1. SameFiles(e, Push(f, t6))
    BY <1>1, PushAgain
  <2>2. SameFiles(e, [Push(f, t6) EXCEPT !.dirty[f.current] = TRUE])
    BY <2>1, TextSame
  <2> QED
    BY <1>4, <2>2
<1>8. ASSUME NEW b PROVE SameFiles(e, UndoReinsert(f, b))
  <2> DEFINE t == [kind |-> "reinsert", buffer |-> b]
  <2>1. t.kind \in Kinds \ FileKinds
    BY DEF Kinds, FileKinds
  <2>2. UndoReinsert(f, b) = IF f.undo THEN Push(f, t) ELSE FreeBuffer(f, b)
    BY DEF UndoReinsert
  <2> HIDE DEF t
  <2> QED
    BY <2>1, <2>2, PushAgain, ViewSame
<1>9. ASSUME NEW b PROVE SameFiles(e, UndoName(f, b))
  <2> DEFINE u == [kind |-> "dirty", buffer |-> b, old |-> f.dirty[b]]
             v == [kind |-> "name", buffer |-> b, old |-> f.name[b]]
  <2>1. u.kind \in Kinds \ FileKinds /\ v.kind \in Kinds \ FileKinds
    BY DEF Kinds, FileKinds
  <2>2. UndoName(f, b) = Push(Push(f, u), v)
    BY DEF UndoName
  <2> HIDE DEF u, v
  <2> QED
    BY <2>1, <2>2, PushAgain
<1> QED
  BY <1>5, <1>6, <1>7, <1>8, <1>9

(* Editing a file by its name, whatever its loading comes to.              *)
LEMMA EditSame ==
  ASSUME NEW e, NEW f, SameFiles(e, f), NEW n, NEW how \in {"ok", "unreadable", "interrupted"}
  PROVE  SameFiles(e, EditByName(f, n, how)) /\ SameFiles(e, Edit(f, n, how))
<1>1. ASSUME NEW g, SameFiles(e, g), NEW b PROVE SameFiles(e, AddNamed(g, b, n, how))
  <2> DEFINE u == [kind |-> "free", buffer |-> b]
             v == [kind |-> "remove", buffer |-> b]
             h == EditExisting(NewBuffer(g, b), b)
  <2>1. u.kind \in Kinds \ FileKinds /\ v.kind \in Kinds \ FileKinds
    BY DEF Kinds, FileKinds
  <2>2. AddBuffer(g, b) = Push(Push(h, u), v)
    BY DEF AddBuffer
  <2>3. SameFiles(e, h)
    BY <1>1, ViewSame
  <2> HIDE DEF u, v, h
  <2>4. SameFiles(e, AddBuffer(g, b))
    BY <2>1, <2>2, <2>3, PushAgain
  <2> DEFINE q == AddBuffer(g, b)
  <2>5. AddNamed(g, b, n, how) \in {LoadFile(q, b, n, how), [q EXCEPT !.name[b] = n]}
    BY DEF AddNamed
  <2> HIDE DEF q
  <2>6. SameFiles(e, LoadFile(q, b, n, how)) /\ SameFiles(e, [q EXCEPT !.name[b] = n])
    <3>1. SameFiles(e, q)
      BY <2>4 DEF q
    <3> QED
      BY <3>1, TextSame
  <2> QED
    BY <2>5, <2>6
<1>2. ASSUME NEW g, SameFiles(e, g) PROVE SameFiles(e, EditByName(g, n, how))
  BY <1>1, <1>2, ViewSame DEF EditByName
<1> QED
  BY <1>2, UndoSame DEF Edit

-----------------------------------------------------------------------------
(* Functions that have not returned yet: a file that is being written has  *)
(* a token.                                                                *)

FrameOK(x, e) ==
  /\ "kind" \in DOMAIN x
  /\ x.kind \in {"save", "open", "write"} => "name" \in DOMAIN x
  /\ x.kind \in {"open", "write"} /\ e.undo => \E i \in 1 .. Len(e.tokens) : IsOf(e.tokens[i], x.name)
CallsOK(c, e) == IsSequence(c) /\ \A i \in 1 .. Len(c) : FrameOK(c[i], e)

(* A step that leaves files alone disturbs no caller;                      *)
LEMMA SameCalls ==
  ASSUME NEW e, NEW f, SameFiles(e, f), NEW c, CallsOK(c, e)
  PROVE  CallsOK(c, f)
<1> SUFFICES ASSUME NEW i \in 1 .. Len(c) PROVE FrameOK(c[i], f)
  BY DEF CallsOK
<1>1. FrameOK(c[i], e)
  BY DEF CallsOK
<1>2. \A j \in 1 .. Len(e.tokens) : j \in 1 .. Len(f.tokens) /\ f.tokens[j] = e.tokens[j]
  BY DEF SameFiles
<1>3. f.undo = e.undo
  BY DEF SameFiles
<1> QED
  BY <1>1, <1>2, <1>3 DEF FrameOK

(* a call adds a function,                                                 *)
LEMMA AppendCalls ==
  ASSUME NEW e, NEW c, CallsOK(c, e), NEW x, FrameOK(x, e)
  PROVE  CallsOK(Append(c, x), e)
<1>1. /\ IsSequence(Append(c, x)) /\ Len(Append(c, x)) = Len(c) + 1 /\ Len(c) \in Nat
      /\ Append(c, x)[Len(c) + 1] = x /\ \A i \in 1 .. Len(c) : Append(c, x)[i] = c[i]
  BY AppendSequence DEF CallsOK
<1>2. \A i \in 1 .. (Len(c) + 1) : i \in 1 .. Len(c) \/ i = Len(c) + 1
  BY <1>1
<1> QED
  BY <1>1, <1>2 DEF CallsOK

(* a return takes one away,                                                *)
LEMMA FrontCalls ==
  ASSUME NEW e, NEW c, CallsOK(c, e), c # <<>>
  PROVE  CallsOK(Front(c), e) /\ FrameOK(Last(c), e)
<1>1. /\ IsSequence(Front(c)) /\ Len(Front(c)) = Len(c) - 1 /\ Len(c) \in Nat \ {0}
      /\ Last(c) = c[Len(c)] /\ \A i \in 1 .. (Len(c) - 1) : Front(c)[i] = c[i]
  BY FrontSequence DEF CallsOK
<1>2. Len(c) \in 1 .. Len(c) /\ \A i \in 1 .. (Len(c) - 1) : i \in 1 .. Len(c)
  BY <1>1
<1> QED
  BY <1>1, <1>2 DEF CallsOK

(* and an error all of them.                                               *)
LEMMA NoCalls == ASSUME NEW e PROVE CallsOK(<<>>, e)
<1>1. <<>> \in Seq({}) /\ Len(<<>>) = 0
  OBVIOUS
<1> QED
  BY <1>1 DEF CallsOK, IsSequence

(* The functions that ring.c calls.                                        *)
LEMMA NewCalls ==
  ASSUME NEW e, NEW c, CallsOK(c, e)
  PROVE  /\ \A kind : kind \notin Phases => CallsOK(Call(c, kind), e)
         /\ CallsOK(Call(c, "all"), e)
         /\ \A kind, b : kind \in {"saved", "close", "closing"} => CallsOK(CallWith(c, kind, b), e)
         /\ \A b, n : CallsOK(CallSave(c, b, n), e)
         /\ \A r : CallsOK(Append(c, [kind |-> "files", rest |-> r]), e)
<1>1. \A kind : kind \notin Phases => FrameOK([kind |-> kind], e)
  BY DEF FrameOK, Phases
<1>2. FrameOK([kind |-> "all"], e)
  BY DEF FrameOK
<1>3. \A kind, b : kind \in {"saved", "close", "closing"} => FrameOK([kind |-> kind, buffer |-> b], e)
  BY DEF FrameOK
<1>4. \A b, n : FrameOK([kind |-> "save", buffer |-> b, name |-> n], e)
  BY DEF FrameOK
<1>5. \A r : FrameOK([kind |-> "files", rest |-> r], e)
  BY DEF FrameOK
<1> QED
  BY <1>1, <1>2, <1>3, <1>4, <1>5, AppendCalls DEF Call, CallWith, CallSave

(* The next of several files.                                              *)
LEMMA RestCalls ==
  ASSUME NEW e, NEW c, CallsOK(c, e), c # <<>>, Last(c).kind = "files", NEW r
  PROVE  CallsOK([c EXCEPT ![Len(c)].rest = r], e)
<1> DEFINE n == Len(c)
           x == [c[n] EXCEPT !.rest = r]
           d == [c EXCEPT ![n] = x]
<1>1. PICK T : c \in Seq(T)
  BY DEF CallsOK, IsSequence
<1>2. n \in 1 .. n /\ n \in Nat /\ Last(c) = c[n]
  BY <1>1, FrontSequence DEF CallsOK
<1>3. FrameOK(c[n], e) /\ c[n].kind = "files"
  BY <1>2 DEF CallsOK
<1>4. FrameOK(x, e)
  <2>1. "kind" \in DOMAIN x /\ x.kind = "files"
    BY <1>3 DEF FrameOK
  <2> HIDE DEF x
  <2> QED
    BY <2>1 DEF FrameOK
<1> HIDE DEF x, n
<1> DEFINE U == T \cup {x}
<1>5. c \in Seq(U) /\ x \in U
  BY <1>1
<1> HIDE DEF U
<1>6. d \in Seq(U) /\ Len(d) = n /\ \A j \in 1 .. n : d[j] = IF j = n THEN x ELSE c[j]
  BY <1>5, ExceptProps DEF n
<1>7. d = [c EXCEPT ![n].rest = r]
  BY DEF x
<1> HIDE DEF d
<1>8. \A j \in 1 .. n : FrameOK(d[j], e)
  BY <1>4, <1>6 DEF CallsOK, n
<1>9. CallsOK(d, e)
  BY <1>6, <1>8 DEF CallsOK, IsSequence
<1> QED
  BY <1>7, <1>9 DEF n

-----------------------------------------------------------------------------
(* The invariant.                                                          *)

Survives(e, files) ==
  e.undo => \A f \in Names : files[f] \notin {Absent, e.disk[f]} =>
    \E p \in e.points : p.name = f /\ p.text = files[f]
FilesSafe(e, files, n) ==
  /\ e.undo /\ n = 0 => FilesKept(e, files)
  /\ n # 0 => NoFileTokens(e)
  /\ Survives(e, files)
HistoryOK(h) == IsSequence(h) /\ \A i \in 1 .. Len(h) : h[i].tokens \in Nat
Inv == Sane(ed) /\ crashes \in Nat /\ HistoryOK(history) /\ CallsOK(calls, ed) /\ FilesSafe(ed, original, crashes)

(* What comes back is still somewhere.                                     *)
LEMMA KeptSurvives ==
  ASSUME NEW e, NEW files, FilesKept(e, files) PROVE Survives(e, files)
<1> SUFFICES ASSUME NEW f \in Names, files[f] # Absent, files[f] # e.disk[f]
             PROVE  \E p \in e.points : p.name = f /\ p.text = files[f]
  BY DEF Survives
<1>1. ComesBack(e, f, files[f])
  BY DEF FilesKept, IsUntouched
<1>2. PICK i \in 1 .. Len(e.tokens) : IsOf(e.tokens[i], f) /\ BringsBack(e, e.tokens[i], files[f])
  BY <1>1 DEF ComesBack
<1>3. PICK p \in PointsOf(e, e.tokens[i]) : p.text = files[f]
  BY <1>2 DEF BringsBack
<1> QED
  BY <1>2, <1>3 DEF PointsOf, IsOf

(* Files are as safe as before if nothing happens to them.                 *)
LEMMA SameSafe ==
  ASSUME NEW e, NEW f, Sane(e), SameFiles(e, f), NEW files, NEW n, FilesSafe(e, files, n)
  PROVE  Sane(f) /\ FilesSafe(f, files, n)
<1>1. /\ Sane(f) /\ f.undo = e.undo
      /\ FilesKept(e, files) => FilesKept(f, files)
      /\ NoFileTokens(e) => NoFileTokens(f)
  BY SameKeeps
<1>2. Survives(f, files)
  BY DEF FilesSafe, Survives, SameFiles
<1> QED
  BY <1>1, <1>2 DEF FilesSafe

(* A command that has been executed has left its number of tokens,         *)
LEMMA AppendHistory ==
  ASSUME NEW h, HistoryOK(h), NEW e, IsSequence(e.tokens), NEW s
  PROVE  HistoryOK(Append(h, [tokens |-> Len(e.tokens), seen |-> s]))
<1> DEFINE x == [tokens |-> Len(e.tokens), seen |-> s]
<1>0. x.tokens \in Nat
  BY SequenceLength
<1> HIDE DEF x
<1>1. /\ IsSequence(Append(h, x)) /\ Len(Append(h, x)) = Len(h) + 1 /\ Len(h) \in Nat
      /\ Append(h, x)[Len(h) + 1] = x /\ \A i \in 1 .. Len(h) : Append(h, x)[i] = h[i]
  BY AppendSequence DEF HistoryOK
<1>2. \A i \in 1 .. (Len(h) + 1) : i \in 1 .. Len(h) \/ i = Len(h) + 1
  BY <1>1
<1>3. HistoryOK(Append(h, x))
  BY <1>0, <1>1, <1>2 DEF HistoryOK
<1> QED
  BY <1>3 DEF x

(* which rubbing it out takes back,                                        *)
LEMMA FrontHistory ==
  ASSUME NEW h, HistoryOK(h), h # <<>>
  PROVE  HistoryOK(Front(h)) /\ Last(h).tokens \in Nat
<1>1. /\ IsSequence(Front(h)) /\ Len(Front(h)) = Len(h) - 1 /\ Len(h) \in Nat \ {0}
      /\ Last(h) = h[Len(h)] /\ \A i \in 1 .. (Len(h) - 1) : Front(h)[i] = h[i]
  BY FrontSequence DEF HistoryOK
<1>2. Len(h) \in 1 .. Len(h) /\ \A i \in 1 .. (Len(h) - 1) : i \in 1 .. Len(h)
  BY <1>1
<1> QED
  BY <1>1, <1>2 DEF HistoryOK

(* and accepting the command line forgets.                                 *)
LEMMA NoHistory == HistoryOK(<<>>)
<1>1. <<>> \in Seq({}) /\ Len(<<>>) = 0
  OBVIOUS
<1> QED
  BY <1>1 DEF HistoryOK, IsSequence

(* A function that goes on or returns, a command that is executed.         *)
LEMMA OuterKeeps ==
  ASSUME Inv, NEW e, Sane(e), FilesSafe(e, original, crashes), NEW c, CallsOK(c, e), Outer(e, c)
  PROVE  Inv'
<1>1. ed' = e /\ calls' \in {c, <<>>} /\ UNCHANGED <<history, crashes, original>>
  BY DEF Outer, Becomes
<1>2. CallsOK(calls', e)
  BY <1>1, NoCalls
<1> QED
  BY <1>1, <1>2 DEF Inv, HistoryOK

(* The same for a step that leaves files alone,                            *)
LEMMA OuterSame ==
  ASSUME Inv, NEW e, SameFiles(ed, e), NEW c, CallsOK(c, ed), Outer(e, c)
  PROVE  Inv'
BY OuterKeeps, SameSafe, SameCalls DEF Inv

(* also for the end of a command.                                          *)
LEMMA ExecutedSame ==
  ASSUME Inv, NEW e, SameFiles(ed, e), NEW c, CallsOK(c, ed), Executed(e, c)
  PROVE  Inv'
<1>1. ed' = e /\ calls' \in {c, <<>>} /\ UNCHANGED <<crashes, original>>
  BY DEF Executed, Becomes
<1>2. CallsOK(calls', e) /\ Sane(e) /\ FilesSafe(e, original, crashes)
  BY <1>1, NoCalls, SameCalls, SameSafe DEF Inv
<1>3. history' \in {history, Append(history, [tokens |-> Len(ed.tokens), seen |-> <<Order(ed), Rest(ed)>>])}
  BY DEF Executed
<1>4. HistoryOK(history')
  <2> DEFINE s == <<Order(ed), Rest(ed)>>
  <2>1. IsSequence(ed.tokens) /\ HistoryOK(history)
    BY DEF Inv, Sane
  <2> HIDE DEF s
  <2>2. HistoryOK(Append(history, [tokens |-> Len(ed.tokens), seen |-> s]))
    BY <2>1, AppendHistory
  <2> QED
    BY <1>3, <2>1, <2>2 DEF s
<1> QED
  BY <1>1, <1>2, <1>4 DEF Inv

-----------------------------------------------------------------------------
(* The actions.                                                            *)

(* Commands and hooks that have nothing to do with files.                  *)
PlainStep ==
  \/ EditFile \/ EditFiles \/ EditNextFile \/ EditFilesDone \/ EditById \/ EditRegister
  \/ Insert \/ ReadFile \/ Refuse \/ CloseCommand \/ CloseSaved \/ HookReturns \/ HookFails
  \/ SaveCommand \/ SaveAllCommand \/ SaveNext

(* All steps but those of view.c that put aside and write files, of undo.c *)
(* and of crashes leave files alone.                                       *)
LEMMA PlainKeeps == ASSUME Inv, PlainStep PROVE Inv'
<1>0. Sane(ed) /\ SameFiles(ed, ed) /\ CallsOK(calls, ed)
  BY SameItself DEF Inv, Sane
<1>1. CASE EditFile
  <2>1. PICK n \in Names \cup {NoName}, how \in {"ok", "unreadable", "interrupted"} :
          \E e \in {Edit(ed, n, how)} : Executed(e, Call(calls, "edit"))
    BY <1>1 DEF EditFile
  <2>2. SameFiles(ed, Edit(ed, n, how)) /\ CallsOK(Call(calls, "edit"), ed)
    BY <1>0, EditSame, NewCalls DEF Phases
  <2> QED
    BY <2>1, <2>2, ExecutedSame
<1>2. CASE EditFiles
  <2>1. PICK m, n \in Names : Executed(ed, Append(calls, [kind |-> "files", rest |-> <<m, n>>]))
    BY <1>2 DEF EditFiles
  <2> DEFINE r == <<m, n>>
  <2> HIDE DEF r
  <2>2. CallsOK(Append(calls, [kind |-> "files", rest |-> r]), ed)
    BY <1>0, NewCalls
  <2> QED
    BY <1>0, <2>1, <2>2, ExecutedSame DEF r
<1>3. CASE EditNextFile
  <2> DEFINE d == [calls EXCEPT ![Len(calls)].rest = Tail(@)]
             e == Edit(ed, Head(Top.rest), "ok")
  <2>1. calls # <<>> /\ Last(calls).kind = "files" /\ Outer(e, Call(d, "edit"))
    BY <1>3 DEF EditNextFile, Waits, Top
  <2>2. CallsOK(d, ed)
    BY <1>0, <2>1, RestCalls
  <2> HIDE DEF d
  <2>3. SameFiles(ed, e) /\ CallsOK(Call(d, "edit"), ed)
    BY <1>0, <2>2, EditSame, NewCalls DEF Phases
  <2> HIDE DEF e
  <2> QED
    BY <2>1, <2>3, OuterSame
<1>4. CASE EditFilesDone
  <2>1. calls # <<>> /\ Outer(ed, Front(calls))
    BY <1>4 DEF EditFilesDone, Waits
  <2> QED
    BY <1>0, <2>1, FrontCalls, OuterSame
<1>5. CASE EditById
  <2>1. PICK b : Executed(EditExisting(UndoEdit(ed), b), Call(calls, "edit"))
    BY <1>5 DEF EditById
  <2>2. SameFiles(ed, EditExisting(UndoEdit(ed), b)) /\ CallsOK(Call(calls, "edit"), ed)
    BY <1>0, UndoSame, ViewSame, NewCalls DEF Phases
  <2> QED
    BY <2>1, <2>2, ExecutedSame
<1>6. CASE EditRegister
  <2>1. Executed(ShowView([UndoEdit(ed) EXCEPT !.register = TRUE], "register"), calls)
    BY <1>6 DEF EditRegister
  <2>2. SameFiles(ed, ShowView([UndoEdit(ed) EXCEPT !.register = TRUE], "register"))
    BY <1>0, UndoSame, ViewSame
  <2> QED
    BY <1>0, <2>1, <2>2, ExecutedSame
<1>7. \A text : SameFiles(ed, Changed(ed, text)) /\ SameFiles(ed, Fail(ChangeText(ed, text)))
  <2> SUFFICES ASSUME NEW text PROVE SameFiles(ed, Changed(ed, text)) /\ SameFiles(ed, Fail(ChangeText(ed, text)))
    OBVIOUS
  <2> DEFINE t == [kind |-> "undo"]
  <2>1. t.kind \in Kinds \ FileKinds
    BY DEF Kinds, FileKinds
  <2> HIDE DEF t
  <2>2. SameFiles(ed, ChangeText(ed, text)) /\ SameFiles(ed, Fail(ChangeText(ed, text)))
    BY <1>0, TextSame
  <2>3. SameFiles(ed, Push(Dirtify(ChangeText(ed, text)), t))
    BY <2>1, <2>2, UndoSame, PushAgain
  <2> QED
    BY <2>2, <2>3 DEF Changed, t
<1>8. CASE Insert
  <2>1. PICK text \in Texts : Executed(Changed(ed, text), calls)
    BY <1>8 DEF Insert
  <2> QED
    BY <1>0, <1>7, <2>1, ExecutedSame
<1>9. CASE ReadFile
  <2>1. PICK text \in Texts : Executed(Fail(ChangeText(ed, text)), calls) \/ Executed(Changed(ed, text), calls)
    <3>1. PICK text \in Texts, interrupted \in BOOLEAN :
            Executed(IF interrupted THEN Fail(ChangeText(ed, text)) ELSE Changed(ed, text), calls)
      BY <1>9 DEF ReadFile
    <3> QED
      BY <3>1
  <2> QED
    BY <1>0, <1>7, <2>1, ExecutedSame
<1>10. CASE Refuse
  <2>1. Executed(Fail(ed), calls) /\ SameFiles(ed, Fail(ed))
    BY <1>0, <1>10, ViewSame DEF Refuse
  <2> QED
    BY <1>0, <2>1, ExecutedSame
<1>11. ASSUME NEW c, CallsOK(c, ed), NEW b
       PROVE  /\ SameFiles(ed, CloseBuffer(ed, c, b)[1]) /\ CallsOK(CloseBuffer(ed, c, b)[2], ed)
  <2>1. CloseBuffer(ed, c, b) \in {<<ed, CallWith(c, "close", b)>>, <<UndoReinsert(RemoveBuffer(ed, b), b), c>>}
    BY DEF CloseBuffer
  <2>2. CallsOK(CallWith(c, "close", b), ed)
    BY <1>11, NewCalls
  <2>3. SameFiles(ed, UndoReinsert(RemoveBuffer(ed, b), b))
    BY <1>0, ViewSame, UndoSame
  <2> QED
    BY <1>0, <1>11, <2>1, <2>2, <2>3
<1>12. CASE CloseCommand
  <2>1. PICK b \in InRing(ed) :
          \/ Executed(Fail(ed), calls)
          \/ Executed(ed, CallSave(CallWith(calls, "saved", b), b, NoName))
          \/ \E r \in {CloseBuffer(ed, calls, b)} : Executed(r[1], r[2])
    <3>1. PICK b \in InRing(ed), mode \in {"plain", "force", "save"} :
            CASE mode = "plain" /\ ed.dirty[b] -> Executed(Fail(ed), calls)
              [] mode = "save" -> Executed(ed, CallSave(CallWith(calls, "saved", b), b, NoName))
              [] OTHER -> \E r \in {CloseBuffer(ed, calls, b)} : Executed(r[1], r[2])
      BY <1>12 DEF CloseCommand
    <3> QED
      BY <3>1
  <2>2. CASE Executed(Fail(ed), calls)
    BY <1>0, <2>2, ViewSame, ExecutedSame
  <2>3. CASE Executed(ed, CallSave(CallWith(calls, "saved", b), b, NoName))
    <3>1. CallsOK(CallWith(calls, "saved", b), ed)
      BY <1>0, NewCalls
    <3>2. CallsOK(CallSave(CallWith(calls, "saved", b), b, NoName), ed)
      BY <3>1, NewCalls
    <3> QED
      BY <1>0, <2>3, <3>2, ExecutedSame
  <2>4. CASE \E r \in {CloseBuffer(ed, calls, b)} : Executed(r[1], r[2])
    <3> DEFINE e == CloseBuffer(ed, calls, b)[1]
               c == CloseBuffer(ed, calls, b)[2]
    <3>1. SameFiles(ed, e) /\ CallsOK(c, ed) /\ Executed(e, c)
      BY <1>0, <1>11, <2>4
    <3> HIDE DEF e, c
    <3> QED
      BY <3>1, ExecutedSame
  <2> QED
    BY <2>1, <2>2, <2>3, <2>4
<1>13. CASE CloseSaved
  <2> DEFINE b == Top.buffer
             e == CloseBuffer(ed, Front(calls), b)[1]
             c == CloseBuffer(ed, Front(calls), b)[2]
  <2>1. calls # <<>> /\ Outer(e, c)
    BY <1>13 DEF CloseSaved, Waits
  <2>2. CallsOK(Front(calls), ed)
    BY <1>0, <2>1, FrontCalls
  <2>3. SameFiles(ed, e) /\ CallsOK(c, ed)
    BY <1>11, <2>2
  <2> HIDE DEF e, c
  <2> QED
    BY <2>1, <2>3, OuterSame
<1>14. CASE HookReturns
  <2>1. calls # <<>>
    BY <1>14 DEF HookReturns, Waits
  <2>2. CallsOK(Front(calls), ed)
    BY <1>0, <2>1, FrontCalls
  <2>3. CASE Outer(ed, Front(calls))
    BY <1>0, <2>2, <2>3, OuterSame
  <2>4. CASE Outer(CloseCurrent(ed, Top.buffer), CallWith(Front(calls), "closing", Top.buffer))
    <3> DEFINE b == Top.buffer
               f == RemoveBuffer(UndoShow(ed), b)
               next == Successor(f.links, b)
    <3>1. SameFiles(ed, f)
      BY <1>0, UndoSame, ViewSame
    <3>2. CloseCurrent(ed, b) \in {EditByName(f, NoName, "ok"), EditBuffer(f, next)}
      BY DEF CloseCurrent
    <3> HIDE DEF f, next
    <3>3. SameFiles(ed, EditByName(f, NoName, "ok")) /\ SameFiles(ed, EditBuffer(f, next))
      BY <3>1, EditSame, ViewSame
    <3>4. CallsOK(CallWith(Front(calls), "closing", b), ed)
      BY <2>2, NewCalls
    <3>5. SameFiles(ed, CloseCurrent(ed, b))
      BY <3>2, <3>3
    <3> HIDE DEF b
    <3> QED
      BY <2>4, <3>4, <3>5, OuterSame DEF b
  <2>5. CASE Outer(UndoReinsert(ed, Top.buffer), Front(calls))
    BY <1>0, <2>2, <2>5, UndoSame, OuterSame
  <2> QED
    BY <1>14, <2>3, <2>4, <2>5 DEF HookReturns
<1>15. CASE HookFails
  <2>1. Outer(Fail(ed), <<>>)
    BY <1>15 DEF HookFails
  <2> QED
    BY <1>0, <2>1, ViewSame, NoCalls, OuterSame
<1>16. CASE SaveCommand
  <2>1. PICK b, n : Executed(ed, CallSave(calls, b, n))
    BY <1>16 DEF SaveCommand
  <2> QED
    BY <1>0, <2>1, NewCalls, ExecutedSame
<1>17. CASE SaveAllCommand
  <2>1. Executed(ed, Call(calls, "all"))
    BY <1>17 DEF SaveAllCommand
  <2> QED
    BY <1>0, <2>1, NewCalls, ExecutedSame
<1>18. CASE SaveNext
  <2> DEFINE dirty == {b \in InRing(ed) : ed.dirty[b]}
             b == FirstOf(ed, dirty)
  <2>1. calls # <<>> /\ Outer(ed, IF dirty = {} THEN Front(calls) ELSE CallSave(calls, b, NoName))
    BY <1>18 DEF SaveNext, Waits
  <2> HIDE DEF b, dirty
  <2>2. CallsOK(Front(calls), ed) /\ CallsOK(CallSave(calls, b, NoName), ed)
    BY <1>0, <2>1, FrontCalls, NewCalls
  <2> QED
    BY <1>0, <2>1, <2>2, OuterSame
<1> QED
  BY <1>1, <1>2, <1>3, <1>4, <1>5, <1>6, <1>8, <1>9, <1>10, <1>12, <1>13, <1>14, <1>15, <1>16, <1>17, <1>18
     DEF PlainStep

(* A file that is to be written is put aside.                              *)
(* Files can be put aside (view.c only warns if they cannot), and nothing  *)
(* is saved after a crash.                                                 *)
SavesCarefully == "no save point" \notin Cases /\ "save after crash" \notin Cases

(* teco_view_save_to_file() puts the file aside: its token is there before *)
(* the file is opened.                                                     *)
LEMMA StartSavingKeeps == ASSUME Inv, StartSaving, SavesCarefully PROVE Inv'
<1>1. PICK refused \in BOOLEAN :
        /\ Waits("save") /\ (refused => "no save point" \in Cases) /\ (crashes > 0 => "save after crash" \in Cases)
        /\ \E f \in {NameFor(ed, Top)} :
             IF f = NoName THEN Outer(Fail(ed), <<>>)
             ELSE Outer(PutAside(ed, f, refused), Append(Front(calls), [Top EXCEPT !.kind = "open", !.name = f]))
  BY DEF StartSaving
<1> DEFINE f == NameFor(ed, Top)
           x == [Top EXCEPT !.kind = "open", !.name = f]
           e == PutAside(ed, f, refused)
<1>2. ~refused /\ crashes = 0
  <2>1. ~refused
    BY <1>1 DEF SavesCarefully
  <2>2. ~(crashes > 0)
    BY <1>1 DEF SavesCarefully
  <2>3. crashes \in Nat
    BY DEF Inv
  <2>4. crashes = 0
    BY <2>2, <2>3
  <2> QED
    BY <2>1, <2>4
<1>3. Sane(ed) /\ CallsOK(calls, ed) /\ SameFiles(ed, ed) /\ FilesSafe(ed, original, crashes)
  BY SameItself DEF Inv, Sane
<1>4. calls # <<>> /\ CallsOK(Front(calls), ed) /\ FrameOK(Top, ed) /\ Top.kind = "save"
  BY <1>1, <1>3, FrontCalls DEF Waits, Top
<1>5. CASE Outer(Fail(ed), <<>>)
  BY <1>3, <1>5, ViewSame, NoCalls, OuterSame
<1>6. CASE Outer(e, Append(Front(calls), x))
  <2>1. "kind" \in DOMAIN x /\ x.kind = "open" /\ "name" \in DOMAIN x /\ x.name = f
    BY <1>4 DEF FrameOK
  <2> HIDE DEF x, f
  <2>2. /\ Sane(e) /\ e.undo = ed.undo
        /\ ed.undo => /\ Len(e.tokens) = Len(ed.tokens) + 1
                      /\ IsOf(e.tokens[Len(ed.tokens) + 1], f)
                      /\ \A i \in 1 .. Len(ed.tokens) : e.tokens[i] = ed.tokens[i]
                      /\ \A files : FilesKept(ed, files) => FilesKept(e, files)
        /\ ~ed.undo => e = ed
    BY <1>2, <1>3, PutAsideKeeps
  <2> HIDE DEF e
  <2>3. FilesSafe(e, original, crashes)
    <3>1. CASE ed.undo
      <4>1. FilesKept(e, original)
        BY <1>2, <1>3, <2>2, <3>1 DEF FilesSafe
      <4> QED
        BY <1>2, <4>1, KeptSurvives DEF FilesSafe
    <3>2. CASE ~ed.undo
      BY <1>3, <2>2, <3>2
    <3> QED
      BY <3>1, <3>2
  <2> DEFINE k == Len(ed.tokens)
             l == Len(e.tokens)
  <2>4. k \in Nat /\ (ed.undo => l = k + 1)
    BY <1>3, <2>2, SequenceLength DEF Sane
  <2>8. ed.undo => k + 1 \in 1 .. l /\ \A j \in 1 .. k : j \in 1 .. l
    <3> SUFFICES ASSUME ed.undo PROVE k + 1 \in 1 .. l /\ \A j \in 1 .. k : j \in 1 .. l
      OBVIOUS
    <3>1. k \in Nat /\ l = k + 1
      BY <2>4
    <3> HIDE DEF k, l
    <3> QED
      BY <3>1
  <2>5. FrameOK(x, e)
    <3> SUFFICES ASSUME e.undo PROVE \E i \in 1 .. Len(e.tokens) : IsOf(e.tokens[i], x.name)
      BY <2>1 DEF FrameOK
    <3>1. ed.undo
      BY <2>2
    <3> QED
      BY <2>1, <2>2, <2>8, <3>1
  <2>6. CallsOK(Front(calls), e)
    <3> SUFFICES ASSUME NEW i \in 1 .. Len(Front(calls)) PROVE FrameOK(Front(calls)[i], e)
      BY <1>4 DEF CallsOK
    <3> DEFINE y == Front(calls)[i]
    <3>1. FrameOK(y, ed)
      BY <1>4 DEF CallsOK
    <3> HIDE DEF y
    <3>2. CASE ed.undo
      <4>1. \A j \in 1 .. Len(ed.tokens) : j \in 1 .. Len(e.tokens) /\ e.tokens[j] = ed.tokens[j]
        BY <2>2, <2>8, <3>2
      <4> QED
        BY <2>2, <3>1, <4>1 DEF FrameOK, y
    <3>3. CASE ~ed.undo
      BY <2>2, <3>1, <3>3 DEF y
    <3> QED
      BY <3>2, <3>3
  <2>7. CallsOK(Append(Front(calls), x), e)
    BY <2>5, <2>6, AppendCalls
  <2> QED
    BY <1>6, <2>2, <2>3, <2>7, OuterKeeps
<1> QED
  BY <1>1, <1>5, <1>6

(* A file is written while its name has a token.                           *)
LEMMA WritingKeeps ==
  ASSUME NEW e, Sane(e), NEW x, FrameOK(x, e), x.kind \in {"open", "write"}, NEW text, NEW n \in Nat,
         FilesSafe(e, original, n)
  PROVE  LET g == [e EXCEPT !.disk[x.name] = text]
         IN  /\ Sane(g) /\ FilesSafe(g, original, n) /\ \A c : CallsOK(c, e) => CallsOK(c, g)
<1> DEFINE f == x.name
           g == [e EXCEPT !.disk[f] = text]
<1>1. /\ DOMAIN g = Fields /\ g.tokens = e.tokens /\ g.points = e.points /\ g.id = e.id /\ g.undo = e.undo
      /\ g.disk = [e.disk EXCEPT ![f] = text]
  BY DEF Sane, Fields
<1>2. e.undo => \E i \in 1 .. Len(e.tokens) : IsOf(e.tokens[i], f)
  BY DEF FrameOK
<1> HIDE DEF f, g
<1>3. Sane(g)
  BY <1>1 DEF Sane, NumbersGrow
<1>4. \A t, w : BringsBack(e, t, w) => BringsBack(g, t, w)
  <2>1. \A t : PointsOf(g, t) = PointsOf(e, t)
    BY <1>1 DEF PointsOf
  <2> QED
    BY <2>1 DEF BringsBack
<1>5. ASSUME e.undo, n = 0 PROVE FilesKept(g, original)
  <2> SUFFICES ASSUME NEW y \in Names PROVE IsUntouched(g, y, original[y]) \/ ComesBack(g, y, original[y])
    BY DEF FilesKept
  <2>1. FilesKept(e, original)
    BY <1>5 DEF FilesSafe
  <2>2. CASE IsUntouched(e, y, original[y])
    <3>1. y # f
      BY <1>2, <1>5, <2>2 DEF IsUntouched
    <3>2. g.disk[y] = e.disk[y]
      BY <1>1, <3>1 DEF Sane
    <3> QED
      BY <1>1, <2>2, <3>2 DEF IsUntouched
  <2>3. CASE ComesBack(e, y, original[y])
    <3>1. PICK i \in 1 .. Len(e.tokens) :
            /\ IsOf(e.tokens[i], y) /\ BringsBack(e, e.tokens[i], original[y])
            /\ \A j \in 1 .. (i - 1) : ~IsOf(e.tokens[j], y)
      BY <2>3 DEF ComesBack
    <3>2. BringsBack(g, e.tokens[i], original[y])
      BY <1>4, <3>1
    <3> QED
      BY <1>1, <3>1, <3>2 DEF ComesBack
  <2> QED
    BY <2>1, <2>2, <2>3 DEF FilesKept
<1>6. ASSUME n # 0 PROVE NoFileTokens(g) /\ ~g.undo
  <2>1. NoFileTokens(e)
    BY <1>6 DEF FilesSafe
  <2>2. \A i \in 1 .. Len(e.tokens) : ~IsOf(e.tokens[i], f)
    BY <2>1 DEF NoFileTokens, IsOf
  <2> QED
    BY <1>1, <1>2, <2>1, <2>2 DEF NoFileTokens
<1>7. FilesSafe(g, original, n)
  <2>1. CASE n = 0
    BY <1>1, <1>5, <2>1, KeptSurvives DEF FilesSafe, Survives
  <2>2. CASE n # 0
    BY <1>6, <2>2 DEF FilesSafe, Survives
  <2> QED
    BY <2>1, <2>2
<1>8. ASSUME NEW c, CallsOK(c, e) PROVE CallsOK(c, g)
  BY <1>1, <1>8 DEF CallsOK, FrameOK
<1>9. Sane(g) /\ FilesSafe(g, original, n) /\ \A c : CallsOK(c, e) => CallsOK(c, g)
  BY <1>3, <1>7, <1>8
<1> QED
  BY <1>9 DEF f, g

(* Opening the file for writing truncates it.                              *)
LEMMA OpenFileKeeps == ASSUME Inv, OpenFile PROVE Inv'
<1>1. /\ Waits("open")
      /\ \/ Outer(Fail(ed), <<>>)
         \/ Outer([ed EXCEPT !.disk[Top.name] = Torn], Append(Front(calls), [Top EXCEPT !.kind = "write"]))
  BY DEF OpenFile
<1> DEFINE x == [Top EXCEPT !.kind = "write"]
           e == [ed EXCEPT !.disk[Top.name] = Torn]
<1>3. Sane(ed) /\ CallsOK(calls, ed) /\ SameFiles(ed, ed) /\ FilesSafe(ed, original, crashes) /\ crashes \in Nat
  BY SameItself DEF Inv, Sane
<1>4. calls # <<>> /\ CallsOK(Front(calls), ed) /\ FrameOK(Top, ed) /\ Top.kind = "open"
  BY <1>1, <1>3, FrontCalls DEF Waits, Top
<1>5. CASE Outer(Fail(ed), <<>>)
  BY <1>3, <1>5, ViewSame, NoCalls, OuterSame
<1>6. CASE Outer(e, Append(Front(calls), x))
  <2>1. FrameOK(x, ed)
    <3>1. "kind" \in DOMAIN x /\ x.kind = "write" /\ "name" \in DOMAIN x /\ x.name = Top.name
      BY <1>4 DEF FrameOK
    <3> HIDE DEF x
    <3> QED
      BY <1>4, <3>1 DEF FrameOK
  <2>2. CallsOK(Append(Front(calls), x), ed)
    BY <1>4, <2>1, AppendCalls
  <2> HIDE DEF x
  <2>3. Sane(e) /\ FilesSafe(e, original, crashes) /\ \A c : CallsOK(c, ed) => CallsOK(c, e)
    BY <1>3, <1>4, WritingKeeps
  <2> HIDE DEF e
  <2> QED
    BY <1>6, <2>2, <2>3, OuterKeeps
<1> QED
  BY <1>1, <1>5, <1>6

(* Writing it succeeds, fails or is interrupted halfway.                   *)
LEMMA WriteFileKeeps == ASSUME Inv, WriteFile PROVE Inv'
<1>1. PICK text :
        /\ Waits("write")
        /\ \/ Outer(Fail(ed), <<>>)
           \/ Outer(Written([ed EXCEPT !.disk[Top.name] = text], Top.buffer, Top.name), Front(calls))
  <2>1. PICK how \in {"ok", "failed", "lost"} :
          /\ Waits("write")
          /\ IF how = "failed" THEN Outer(Fail(ed), <<>>)
             ELSE Outer(Written([ed EXCEPT !.disk[Top.name] = IF how = "ok" THEN Content(ed, Top.buffer) ELSE Torn],
                                Top.buffer, Top.name), Front(calls))
    BY DEF WriteFile
  <2> DEFINE text == IF how = "ok" THEN Content(ed, Top.buffer) ELSE Torn
  <2>2. /\ Waits("write")
        /\ \/ Outer(Fail(ed), <<>>)
           \/ Outer(Written([ed EXCEPT !.disk[Top.name] = text], Top.buffer, Top.name), Front(calls))
    BY <2>1
  <2> HIDE DEF text
  <2> QED
    BY <2>2
<1> DEFINE e == [ed EXCEPT !.disk[Top.name] = text]
           g == Written(e, Top.buffer, Top.name)
<1>3. Sane(ed) /\ CallsOK(calls, ed) /\ SameFiles(ed, ed) /\ FilesSafe(ed, original, crashes) /\ crashes \in Nat
  BY SameItself DEF Inv, Sane
<1>4. calls # <<>> /\ CallsOK(Front(calls), ed) /\ FrameOK(Top, ed) /\ Top.kind = "write"
  BY <1>1, <1>3, FrontCalls DEF Waits, Top
<1>5. CASE Outer(Fail(ed), <<>>)
  BY <1>3, <1>5, ViewSame, NoCalls, OuterSame
<1>6. CASE Outer(g, Front(calls))
  <2>3. Sane(e) /\ FilesSafe(e, original, crashes) /\ CallsOK(Front(calls), e)
    BY <1>3, <1>4, WritingKeeps
  <2> HIDE DEF e
  <2>4. SameFiles(e, g)
    <3> DEFINE b == Top.buffer
               h == UndoName(e, b)
               h1 == [h EXCEPT !.dirty[b] = FALSE]
               h2 == [h1 EXCEPT !.name[b] = Top.name]
    <3>1. SameFiles(e, e)
      BY <2>3, SameItself DEF Sane
    <3>2. SameFiles(e, h)
      BY <3>1, UndoSame
    <3> HIDE DEF h
    <3>3. SameFiles(e, h1)
      BY <3>2, TextSame
    <3> HIDE DEF h1
    <3>4. SameFiles(e, h2)
      BY <3>3, TextSame
    <3>5. g = IF b = "register" THEN e ELSE h2
      BY DEF Written, h, h1
    <3> QED
      BY <3>1, <3>4, <3>5
  <2>5. Sane(g) /\ FilesSafe(g, original, crashes) /\ CallsOK(Front(calls), g)
    BY <2>3, <2>4, SameSafe, SameCalls
  <2> HIDE DEF g
  <2> QED
    BY <1>6, <2>5, OuterKeeps
<1> QED
  BY <1>1, <1>5, <1>6

(* Rubout runs tokens.                                                     *)
LEMMA RuboutKeeps == ASSUME Inv, Rubout PROVE Inv'
<1> DEFINE n == Last(history).tokens + 1
           e == RunTokens(ed, n)
           g == [e EXCEPT !.failed = FALSE]
<1>1. /\ ed' = g /\ calls' = <<>> /\ history # <<>>
      /\ history' = Front(history) /\ UNCHANGED <<crashes, original>>
  BY DEF Rubout
<1>2. HistoryOK(Front(history)) /\ n \in Nat \ {0}
  BY <1>1, FrontHistory DEF Inv
<1> HIDE DEF n
<1>3. /\ Sane(e) /\ e.undo = ed.undo
      /\ \A files : FilesKept(ed, files) => FilesKept(e, files)
      /\ NoFileTokens(ed) => NoFileTokens(e) /\ e.disk = ed.disk /\ e.points = ed.points
  BY <1>2, RubbedKeeps DEF Inv
<1> HIDE DEF e
<1>4. FilesSafe(e, original, crashes)
  <2>1. CASE crashes = 0
    BY <1>3, <2>1, KeptSurvives DEF FilesSafe, Survives, Inv
  <2>2. CASE crashes # 0
    BY <1>3, <2>2 DEF FilesSafe, Survives, Inv
  <2> QED
    BY <2>1, <2>2
<1>5. SameFiles(e, g)
  <2>1. /\ DOMAIN g = Fields /\ g.tokens = e.tokens /\ g.disk = e.disk /\ g.points = e.points /\ g.id = e.id
        /\ g.undo = e.undo
    BY <1>3 DEF Sane, Fields
  <2> HIDE DEF g
  <2> QED
    BY <1>3, <2>1, SaneBase, FieldsSame
<1>6. Sane(g) /\ FilesSafe(g, original, crashes)
  BY <1>3, <1>4, <1>5, SameSafe
<1> HIDE DEF g
<1> QED
  BY <1>1, <1>2, <1>6, NoCalls DEF Inv

(* The command line is accepted: there is nothing left to survive.         *)
LEMMA TerminateKeeps == ASSUME Inv, Terminate PROVE Inv'
<1> DEFINE e == DropTokens(ed)
<1>1. ed' = e /\ calls' = <<>> /\ history' = <<>> /\ original' = ed.disk /\ crashes' = crashes
  BY DEF Terminate
<1>2. Sane(e) /\ e.disk = ed.disk /\ e.tokens = <<>>
  BY DroppedKeeps DEF Inv
<1> HIDE DEF e
<1>3. Len(e.tokens) = 0
  BY <1>2
<1>4. FilesKept(e, ed.disk) /\ NoFileTokens(e)
  BY <1>2, <1>3 DEF FilesKept, IsUntouched, NoFileTokens
<1>5. FilesSafe(e, ed.disk, crashes)
  BY <1>4, KeptSurvives DEF FilesSafe
<1> QED
  BY <1>1, <1>2, <1>5, NoCalls, NoHistory DEF Inv

(* A crash loses all tokens, but no file and no save point.                *)
LEMMA CrashKeeps == ASSUME Inv, Crash PROVE Inv'
<1> DEFINE e == NewEditor(ed.undo, ed.disk, ed.points)
<1>1. ed' = e /\ calls' = <<>> /\ history' = <<>> /\ original' = original /\ crashes' = crashes + 1
  BY DEF Crash
<1>2. /\ DOMAIN e = Fields /\ e.disk = ed.disk /\ e.points = ed.points /\ e.tokens = <<>> /\ e.id = 0
      /\ e.undo = ed.undo
  BY DEF NewEditor, NewBuffer, Fields
<1> HIDE DEF e
<1>3. IsSequence(<<>>) /\ Len(<<>>) = 0
  BY DEF IsSequence
<1>4. Sane(e) /\ NoFileTokens(e)
  BY <1>2, <1>3 DEF Sane, NumbersGrow, NoFileTokens, Inv
<1>5. FilesSafe(e, original, crashes + 1) /\ crashes + 1 \in Nat
  BY <1>2, <1>4 DEF FilesSafe, Survives, Inv
<1> QED
  BY <1>1, <1>4, <1>5, NoCalls, NoHistory DEF Inv

(* The editor has been started.                                            *)
LEMMA InitKeeps == ASSUME Init PROVE Inv
<1>1. /\ DOMAIN ed = Fields /\ ed.tokens = <<>> /\ ed.id = 0 /\ DOMAIN ed.disk = Names
      /\ original = ed.disk /\ calls = <<>> /\ history = <<>> /\ crashes = 0
  BY InitStatesAssumption DEF Init, Fields
<1>2. IsSequence(<<>>) /\ Len(<<>>) = 0
  BY DEF IsSequence
<1>3. Sane(ed)
  BY <1>1, <1>2 DEF Sane, NumbersGrow
<1>4. FilesKept(ed, original)
  BY <1>1, <1>2 DEF FilesKept, IsUntouched
<1>5. FilesSafe(ed, original, crashes)
  BY <1>1, <1>4, KeptSurvives DEF FilesSafe
<1> QED
  BY <1>1, <1>3, <1>5, NoCalls, NoHistory DEF Inv

(* Whatever fails, is rubbed out or crashes, the original contents of a    *)
(* file are in it or in a save point until the command line has been       *)
(* accepted, if the file could be put aside (view.c only warns if it could *)
(* not) and nothing is saved after a crash, when save points are numbered  *)
(* from zero again.                                                        *)
THEOREM OriginalSurvivesProof ==
  ASSUME SavesCarefully PROVE Spec => []OriginalSurvives
<1>1. Inv /\ Next => Inv'
  BY PlainKeeps, StartSavingKeeps, OpenFileKeeps, WriteFileKeeps, RuboutKeeps, TerminateKeeps, CrashKeeps
     DEF Next, PlainStep
<1>2. Inv /\ UNCHANGED vars => Inv'
  BY DEF Inv, vars
<1>3. Inv => OriginalSurvives
  BY DEF Inv, FilesSafe, Survives, OriginalSurvives
<1> QED
  BY <1>1, <1>2, <1>3, InitKeeps, PTL DEF Spec
=============================================================================
