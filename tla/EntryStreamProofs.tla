-------------------------- MODULE EntryStreamProofs -------------------------
(***************************************************************************)
(* Proofs about the timeline of a session: a client that comes back with   *)
(* its cursor has been given what lies below it and is given nothing       *)
(* twice, and a stream that ended with the end of a turn has given all     *)
(* that turn stored.                                                       *)
(***************************************************************************)
EXTENDS EntryStream, FiniteSetTheorems, TLAPS

-----------------------------------------------------------------------------
(* The inductive invariant *)

Entries == {"user", "say", "echo", "result"} \X Nat \X Nat
Messages == {"say", "echo", "completed", "result", "crash"} \X Nat \X Nat
Items == {<<"raw">>, <<"result">>, <<"runtime">>, <<"eos">>}
           \cup ({"complete"} \X Nat) \cup ({"entry"} \X Nat \X Entries)

Chans == [queue : Seq(Items), on : BOOLEAN]

\* Types; the log is finite.
LogTyped ==
  /\ rows \in [DOMAIN rows -> Entries] /\ \E b \in Nat : DOMAIN rows \subseteq 0..b
  /\ freed \subseteq Nat
UserTyped == user \in [Users -> [at : {"new", "write", "send", "sent", "undo", "accepted", "failed", "left"}, seq : Int]]
ActorTyped ==
  /\ waiting \in Seq(Users) /\ driven \in Nat /\ turns \in Nat /\ made \in Nat
  /\ unread \in Seq(Messages)
WriterTyped ==
  writer \in [at : {"idle", "tail", "read", "write", "cast"},
              msg : Messages \cup {<<"none", 0, 0>>}, seq : Int]
Endings == {"none", "status", "complete", "runtime", "eos", "beat", "drop"}
ClientTyped ==
  /\ client \in [at : {"off", "list", "all", "check", "live", "ended"}, by : Endings,
                 turn : Nat, pending : BOOLEAN, beats : Nat]
  /\ cursor \in Int /\ cursor >= -1 /\ shown \in Seq(Entries)
Typed == LogTyped /\ UserTyped /\ ActorTyped /\ WriterTyped /\ ClientTyped /\ chan \in Chans

\* A seq that has been given to an entry.
Used == DOMAIN rows \cup freed

\* The seqs are given without gaps, and none is read that would leave one.
DenseOK ==
  /\ \A s \in Used : \A x \in 0..(s - 1) : x \in Used
  /\ \A u \in Users : user[u].at = "write" => user[u].seq \in Nat /\ 0..(user[u].seq - 1) \subseteq Used
  /\ writer.at = "write" => writer.seq \in Nat /\ 0..(writer.seq - 1) \subseteq Used
  /\ cursor = -1 \/ cursor \in Used
  /\ cast \subseteq Used

\* Who has written an entry and not announced it finds it where it was written.
OwnOK ==
  /\ \A u \in Users : user[u].at \in {"send", "sent", "undo"} =>
       user[u].seq \in DOMAIN rows /\ rows[user[u].seq] = UserEntry(u)
  /\ writer.at = "cast" => writer.seq \in DOMAIN rows /\ rows[writer.seq] = writer.msg
  /\ writer.at # "idle" => writer.msg[1] \in {"say", "echo", "result"} /\ writer.msg[3] # 0
  /\ \A i \in 1..Len(waiting) : user[waiting[i]].at = "sent"
  /\ \A i, j \in 1..Len(waiting) : waiting[i] = waiting[j] => i = j

\* The turn that ended is behind everything from place k of the inbox on.
After(turn, k) ==
  /\ turn <= turns /\ (driven # 0 => turn < driven)
  /\ \A j \in 1..Len(unread) : j > k => unread[j][3] = 0 \/ unread[j][3] > turn

\* The messages of a turn end with its result, and turns follow each other.
TurnOK ==
  /\ driven <= turns
  /\ \A k \in 1..Len(unread) :
       /\ unread[k][1] # "crash" => unread[k][3] # 0
       /\ unread[k][1] \in {"completed", "result"} => After(unread[k][3], k)
  /\ writer.at # "idle" /\ writer.msg[1] = "result" => After(writer.msg[3], 0)

\* Nothing of the turn is still to be written.
Over(turn) == After(turn, 0) /\ (writer.at # "idle" => writer.msg[3] > turn)

\* The entry at s was given to the client, or is one of the two exceptions.
Given(s) == rows[s] \in ToSet(shown) \/ s \in freed \/ s \in overtaken

\* The entry at s was given, or will be before what follows place k of the queue q.
Covered(q, s, k) ==
  \/ Given(s)
  \/ \E j \in 1..Len(q) : j <= k /\ q[j] = <<"entry", s, rows[s]>>
  \/ client.at = "list" /\ s > cursor

\* An entry in the queue is the one stored, and comes behind those with smaller seqs.
EntryOK(q, k) ==
  q[k][1] = "entry" =>
    /\ q[k][2] \in Used
    /\ q[k][2] \in DOMAIN rows => rows[q[k][2]] = q[k][3] \/ q[k][2] \in freed
    /\ \A s \in DOMAIN rows : s < q[k][2] => Covered(q, s, k)

\* The end of a turn in the queue comes behind all of that turn.
CompleteOK(q, k) ==
  q[k][1] = "complete" =>
    /\ Over(q[k][2])
    /\ \A s \in DOMAIN rows : rows[s][3] \in 1..q[k][2] => Covered(q, s, k) \/ rows[s] \in unsure

\* The channel c carries what was told, in an order that loses nothing.
Carries(c, told) ==
  /\ c.on => \A s \in DOMAIN rows : s \in told => Covered(c.queue, s, Len(c.queue))
  /\ \A k \in 1..Len(c.queue) : EntryOK(c.queue, k) /\ CompleteOK(c.queue, k)

QueueOK ==
  /\ client.at \notin {"list", "check", "live"} => chan.queue = <<>> /\ chan.on = FALSE
  /\ Carries(chan, cast)

\* An entry of a turn is announced by who wrote it, at once, unless the write raised.
CastOK ==
  \A s \in DOMAIN rows :
    rows[s][3] # 0 => s \in cast \/ (writer.at = "cast" /\ s = writer.seq) \/ rows[s] \in unsure

\* A stream that ended with a turn has nothing of it still to come.
EndedOK == client.at = "ended" /\ client.by = "complete" => Over(client.turn)

StreamInv ==
  /\ Typed /\ DenseOK /\ OwnOK /\ TurnOK /\ QueueOK /\ CastOK /\ EndedOK
  /\ CursorMeansSeen /\ EndIsComplete

-----------------------------------------------------------------------------
(* The operators *)

\* A nonempty set of naturals has a least element.
LEMMA LeastOf ==
  ASSUME NEW S \in SUBSET Nat, S # {}
  PROVE  \E x \in S : \A y \in S : x <= y
<1>1. PICK R : IsWellFoundedOn(R, Nat) /\ \A x, y \in Nat : <<y, x>> \in R <=> y < x
  BY NatLessThanWellFounded DEF OpToRel
<1>2. PICK x \in S : \A y \in S : ~ (<<y, x>> \in R)
  BY <1>1, WFMin, Zenon
<1>3. \A y \in S : ~ (y < x)
  BY <1>1, <1>2
<1> QED
  BY <1>3

LEMMA MinOf ==
  ASSUME NEW S \in SUBSET Nat, S # {}
  PROVE  Min(S) \in S
BY LeastOf DEF Min

\* The greatest seq, or -1 in an empty log.
LEMMA LastSeqIs ==
  ASSUME Typed
  PROVE  /\ LastSeq \in Int /\ LastSeq >= -1
         /\ LastSeq = -1 \/ LastSeq \in DOMAIN rows
         /\ \A s \in DOMAIN rows : s \in Nat /\ s <= LastSeq
<1> DEFINE S == DOMAIN rows \cup {-1}
           T == {n \in Nat : \A y \in S : y < n}
<1>1. PICK b \in Nat : DOMAIN rows \subseteq 0..b
  BY DEF Typed, LogTyped
<1>2. S \subseteq Int /\ -1 \in S /\ b + 1 \in T
  BY <1>1
<1>3. PICK n \in T : \A m \in T : n <= m
  <2>1. T \in SUBSET Nat /\ T # {}
    BY <1>2
  <2> QED
    BY <2>1, LeastOf
<1>4. n - 1 \in S
  <2>1. CASE n = 0
    BY <1>2, <2>1
  <2>2. CASE n # 0 /\ n - 1 \notin S
    <3>1. n - 1 \in Nat /\ \A y \in S : y < n - 1
      BY <1>2, <2>2
    <3> QED
      BY <1>3, <3>1
  <2> QED
    BY <2>1, <2>2
<1>5. \A y \in S : n - 1 >= y
  BY <1>2
<1>6. LastSeq \in S /\ \A y \in S : LastSeq >= y
  BY <1>4, <1>5 DEF LastSeq, Max
<1> QED
  BY <1>1, <1>2, <1>6

\* Taking an element out moves those behind it one place ahead.
LEMMA RemovedAt ==
  ASSUME NEW S, NEW q \in Seq(S), NEW m \in 1..Len(q)
  PROVE  /\ RemoveAt(q, m) \in Seq(S) /\ Len(RemoveAt(q, m)) = Len(q) - 1
         /\ \A k \in 1..(Len(q) - 1) : RemoveAt(q, m)[k] = IF k < m THEN q[k] ELSE q[k + 1]
<1>1. SubSeq(q, 1, m - 1) \in Seq(S) /\ Len(SubSeq(q, 1, m - 1)) = m - 1
  OBVIOUS
<1>2. \A k \in 1..(m - 1) : SubSeq(q, 1, m - 1)[k] = q[k]
  OBVIOUS
<1>3. SubSeq(q, m + 1, Len(q)) \in Seq(S) /\ Len(SubSeq(q, m + 1, Len(q))) = Len(q) - m
  OBVIOUS
<1>4. \A k \in 1..(Len(q) - m) : SubSeq(q, m + 1, Len(q))[k] = q[m + k]
  OBVIOUS
<1> DEFINE a == SubSeq(q, 1, m - 1)
           c == SubSeq(q, m + 1, Len(q))
<1>5. RemoveAt(q, m) = a \o c
  BY DEF RemoveAt
<1>6. /\ a \in Seq(S) /\ Len(a) = m - 1 /\ c \in Seq(S) /\ Len(c) = Len(q) - m
      /\ \A k \in 1..(m - 1) : a[k] = q[k]
      /\ \A k \in 1..(Len(q) - m) : c[k] = q[m + k]
  BY <1>1, <1>2, <1>3, <1>4
<1> HIDE DEF a, c
<1>7. a \o c \in Seq(S) /\ Len(a \o c) = Len(q) - 1
  <2>1. a \o c \in Seq(S) /\ Len(a \o c) = Len(a) + Len(c)
    <3>1. a \in Seq(S) /\ c \in Seq(S)
      BY <1>6
    <3> QED
      BY <3>1, SMTT(30)
  <2>2. Len(q) \in Nat
    OBVIOUS
  <2> QED
    BY <1>6, <2>1, <2>2
<1>8. \A k \in 1..(Len(q) - 1) : (a \o c)[k] = IF k < m THEN a[k] ELSE c[k - (m - 1)]
  BY <1>6
<1>9. \A k \in 1..(Len(q) - 1) : k >= m => c[k - (m - 1)] = q[k + 1]
  <2> SUFFICES ASSUME NEW k \in 1..(Len(q) - 1), k >= m
               PROVE  c[k - (m - 1)] = q[k + 1]
    OBVIOUS
  <2>1. k - (m - 1) \in 1..(Len(q) - m) /\ m + (k - (m - 1)) = k + 1
    OBVIOUS
  <2> QED
    BY <1>6, <2>1
<1>10. \A k \in 1..(Len(q) - 1) : k < m => a[k] = q[k]
  BY <1>6
<1> QED
  BY <1>5, <1>7, <1>8, <1>9, <1>10

\* list_after returns every stored entry behind the given seq, once, and nothing else.
LEMMA ListedAll ==
  ASSUME Typed, NEW seq \in Int
  PROVE  /\ ListAfter(seq) \in Seq(Entries)
         /\ \A s \in DOMAIN rows : s > seq => rows[s] \in ToSet(ListAfter(seq))
         /\ \A k \in 1..Len(ListAfter(seq)) : \E s \in DOMAIN rows : s > seq /\ ListAfter(seq)[k] = rows[s]
         /\ \A k, l \in 1..Len(ListAfter(seq)) : k # l =>
              \E s, t \in DOMAIN rows : s # t /\ ListAfter(seq)[k] = rows[s] /\ ListAfter(seq)[l] = rows[t]
<1> DEFINE found == {s \in DOMAIN rows : s > seq}
           below(s) == {x \in found : x < s}
           n == Cardinality(found)
           count(s) == Cardinality(below(s))
           nth(k) == CHOOSE s \in found : count(s) = k - 1
<1>1. ListAfter(seq) = [k \in 1..n |-> rows[nth(k)]]
  BY DEF ListAfter
<1>2. found \subseteq Nat /\ IsFiniteSet(found) /\ n \in Nat
  <2>1. PICK b \in Nat : DOMAIN rows \subseteq 0..b
    BY DEF Typed, LogTyped
  <2>2. IsFiniteSet(0..b) /\ found \in SUBSET (0..b)
    BY <2>1, FS_Interval
  <2>3. IsFiniteSet(found)
    BY <2>2, FS_Subset
  <2>4. n \in Nat
    BY <2>3, FS_CardinalityType
  <2> QED
    BY <2>2, <2>3, <2>4
<1>3. \A s \in found : IsFiniteSet(below(s)) /\ count(s) \in 0..(n - 1)
  <2> TAKE s \in found
  <2>1. below(s) \in SUBSET found /\ s \notin below(s)
    BY <1>2
  <2>2. IsFiniteSet(below(s)) /\ count(s) <= n /\ (n = count(s) => found = below(s))
    BY <1>2, <2>1, FS_Subset
  <2>3. count(s) \in Nat
    BY <2>2, FS_CardinalityType
  <2> HIDE DEF below, count, n, found
  <2>4. n # count(s)
    BY <2>1, <2>2
  <2> QED
    BY <1>2, <2>2, <2>3, <2>4
<1>4. \A s, t \in found : s < t => count(s) < count(t)
  <2> SUFFICES ASSUME NEW s \in found, NEW t \in found, s < t
               PROVE  count(s) < count(t)
    OBVIOUS
  <2>1. below(s) \in SUBSET below(t) /\ s \in below(t) /\ s \notin below(s)
    BY <1>2
  <2>2. IsFiniteSet(below(t))
    BY <1>3
  <2>3. count(s) <= count(t) /\ (count(t) = count(s) => below(t) = below(s))
    BY <2>1, <2>2, FS_Subset
  <2>4. count(s) \in Int /\ count(t) \in Int
    BY <1>2, <1>3
  <2> HIDE DEF below, count
  <2>5. count(t) # count(s)
    BY <2>1, <2>3
  <2> QED
    BY <2>3, <2>4, <2>5
<1> HIDE DEF below, count, n, found
<1>5. \A s, t \in found : count(s) = count(t) => s = t
  <2> SUFFICES ASSUME NEW s \in found, NEW t \in found, s # t
               PROVE  count(s) # count(t)
    OBVIOUS
  <2>1. s < t \/ t < s
    BY <1>2
  <2>2. count(s) < count(t) \/ count(t) < count(s)
    BY <1>4, <2>1
  <2>3. count(s) \in Int /\ count(t) \in Int
    BY <1>2, <1>3
  <2> QED
    BY <2>2, <2>3
<1>6. \A s \in found : nth(count(s) + 1) = s
  <2> TAKE s \in found
  <2> DEFINE place == count(s) + 1
  <2>4. place - 1 = count(s)
    BY <1>2, <1>3
  <2>3. \E x \in found : count(x) = place - 1
    BY <2>4
  <2> HIDE DEF place
  <2>2. nth(place) \in found /\ count(nth(place)) = place - 1
    BY <2>3
  <2> HIDE DEF nth
  <2>5. nth(place) = s
    BY <1>5, <2>2, <2>4
  <2> QED
    BY <2>5 DEF place
<1> DEFINE rank == [s \in found |-> count(s) + 1]
<1>7. rank \in Surjection(found, 1..n)
  <2>1. \A s \in found : count(s) + 1 \in 1..n
    BY <1>2, <1>3
  <2>2. rank \in [found -> 1..n]
    BY <2>1
  <2>3. \A s, t \in found : count(s) + 1 = count(t) + 1 => s = t
    BY <1>2, <1>3, <1>5
  <2>4. rank \in Injection(found, 1..n)
    BY <2>2, <2>3 DEF Injection, IsInjective
  <2>5. IsFiniteSet(1..n) /\ Cardinality(1..n) = n
    BY <1>2, FS_Interval
  <2>6. Cardinality(found) = Cardinality(1..n)
    BY <2>5 DEF n
  <2> HIDE DEF rank
  <2> QED
    BY <2>4, <2>5, <2>6, FS_Injection
<1>8. \A k \in 1..n : nth(k) \in found /\ k = count(nth(k)) + 1
  <2> TAKE k \in 1..n
  <2>1. PICK s \in found : rank[s] = k
    BY <1>7 DEF Surjection
  <2>2. k = count(s) + 1
    BY <2>1
  <2>3. nth(count(s) + 1) = s
    BY <1>6
  <2> HIDE DEF nth, count
  <2>4. nth(k) = s
    BY <2>2, <2>3
  <2> QED
    BY <2>2, <2>4
<1>9. \A s \in found : \E k \in 1..n : nth(k) = s
  <2> TAKE s \in found
  <2>1. count(s) + 1 \in 1..n
    BY <1>2, <1>3
  <2> QED
    BY <1>6, <2>1
<1> HIDE DEF found, n, nth, below, rank
<1>10. \A k \in 1..n : rows[nth(k)] \in Entries
  BY <1>8 DEF found, Typed, LogTyped
<1>11. ListAfter(seq) \in Seq(Entries) /\ DOMAIN ListAfter(seq) = 1..n
  BY <1>1, <1>2, <1>10
<1>12. Len(ListAfter(seq)) = n /\ \A k \in 1..n : ListAfter(seq)[k] = rows[nth(k)]
  BY <1>1, <1>2, <1>11
<1>13. \A k \in 1..n : nth(k) \in DOMAIN rows /\ nth(k) > seq
  BY <1>8 DEF found
<1> HIDE DEF count
<1>14. \A k, l \in 1..n : nth(k) = nth(l) => k = l
  BY <1>8
<1>15. \A s \in DOMAIN rows : s > seq => rows[s] \in ToSet(ListAfter(seq))
  BY <1>1, <1>9, <1>11 DEF ToSet, found
<1>16. \A k \in 1..Len(ListAfter(seq)) : \E s \in DOMAIN rows : s > seq /\ ListAfter(seq)[k] = rows[s]
  BY <1>12, <1>13
<1>17. ASSUME NEW k \in 1..Len(ListAfter(seq)), NEW l \in 1..Len(ListAfter(seq)), k # l
       PROVE  \E s, t \in DOMAIN rows : s # t /\ ListAfter(seq)[k] = rows[s] /\ ListAfter(seq)[l] = rows[t]
  <2>1. k \in 1..n /\ l \in 1..n /\ ListAfter(seq)[k] = rows[nth(k)] /\ ListAfter(seq)[l] = rows[nth(l)]
    BY <1>12
  <2>2. nth(k) # nth(l) /\ nth(k) \in DOMAIN rows /\ nth(l) \in DOMAIN rows
    BY <1>13, <1>14, <1>17, <2>1
  <2> QED
    BY <2>1, <2>2
<1> QED
  BY <1>11, <1>15, <1>16, <1>17

\* What a delivery does to a queue q that becomes r: every critical item keeps its
\* place among the others, and only the item delivered is new, at the end.
Follows(q, r, item) ==
  /\ \A k \in 1..Len(r) :
       \/ r[k] = item /\ k = Len(r)
       \/ \E i \in 1..Len(q) :
            /\ r[k] = q[i]
            /\ \A j \in 1..Len(q) : j <= i /\ Critical(q[j]) => \E l \in 1..Len(r) : l <= k /\ r[l] = q[j]
  /\ \A j \in 1..Len(q) : Critical(q[j]) => \E l \in 1..Len(r) : r[l] = q[j]

LEMMA AppendFollows ==
  ASSUME NEW q \in Seq(Items), NEW item \in Items
  PROVE  /\ Append(q, item) \in Seq(Items) /\ Follows(q, Append(q, item), item)
         /\ Len(Append(q, item)) = Len(q) + 1 /\ Append(q, item)[Len(q) + 1] = item
<1>1. /\ Len(q) \in Nat /\ Len(Append(q, item)) = Len(q) + 1 /\ Append(q, item)[Len(q) + 1] = item
      /\ Append(q, item) \in Seq(Items)
      /\ \A k \in 1..Len(q) : Append(q, item)[k] = q[k]
  OBVIOUS
<1> DEFINE r == Append(q, item)
<1> HIDE DEF r
<1>2. /\ Len(q) \in Nat /\ Len(r) = Len(q) + 1 /\ r[Len(q) + 1] = item
      /\ \A k \in 1..Len(q) : r[k] = q[k]
  BY <1>1 DEF r
<1>3. Follows(q, r, item)
  BY <1>2 DEF Follows
<1> QED
  BY <1>1, <1>3 DEF r

LEMMA EvictFollows ==
  ASSUME NEW q \in Seq(Items), NEW item \in Items, NEW m \in 1..Len(q), ~ Critical(q[m])
  PROVE  LET r == Append(RemoveAt(q, m), item)
         IN  r \in Seq(Items) /\ Follows(q, r, item) /\ Len(r) = Len(q) /\ r[Len(r)] = item
<1> DEFINE p == RemoveAt(q, m)
           r == Append(p, item)
<1>0. Len(q) \in Nat /\ Len(q) > 0
  OBVIOUS
<1>1. /\ p \in Seq(Items) /\ Len(p) = Len(q) - 1
      /\ \A k \in 1..(Len(q) - 1) : p[k] = IF k < m THEN q[k] ELSE q[k + 1]
  BY RemovedAt
<1> HIDE DEF p
<1>2. /\ r \in Seq(Items) /\ Len(r) = Len(q) /\ r[Len(q)] = item
      /\ \A k \in 1..(Len(q) - 1) : r[k] = p[k]
  BY <1>0, <1>1
<1> HIDE DEF r
<1>3. \A k \in 1..(Len(q) - 1) : r[k] = IF k < m THEN q[k] ELSE q[k + 1]
  BY <1>1, <1>2
<1>4. \A j \in 1..Len(q) : j < m => j \in 1..(Len(q) - 1) /\ r[j] = q[j]
  BY <1>0, <1>3
<1>5. \A j \in 1..Len(q) : j > m => j - 1 \in 1..(Len(q) - 1) /\ r[j - 1] = q[j]
  <2> SUFFICES ASSUME NEW j \in 1..Len(q), j > m PROVE j - 1 \in 1..(Len(q) - 1) /\ r[j - 1] = q[j]
    OBVIOUS
  <2>1. j - 1 \in 1..(Len(q) - 1) /\ ~ (j - 1 < m) /\ j - 1 + 1 = j
    BY <1>0
  <2> QED
    BY <1>3, <2>1
<1>6. \A j \in 1..Len(q) : Critical(q[j]) => j < m \/ j > m
  OBVIOUS
<1>7. ASSUME NEW k \in 1..(Len(q) - 1)
      PROVE  \E i \in 1..Len(q) :
               /\ r[k] = q[i]
               /\ \A j \in 1..Len(q) : j <= i /\ Critical(q[j]) => \E l \in 1..Len(r) : l <= k /\ r[l] = q[j]
  <2> DEFINE i == IF k < m THEN k ELSE k + 1
  <2>1. i \in 1..Len(q) /\ r[k] = q[i]
    BY <1>0, <1>3
  <2>2. ASSUME NEW j \in 1..Len(q), j <= i, Critical(q[j])
        PROVE  \E l \in 1..Len(r) : l <= k /\ r[l] = q[j]
    <3>1. CASE j < m
      <4>1. j <= k /\ j \in 1..Len(r)
        BY <1>0, <1>2, <2>2, <3>1
      <4> QED
        BY <1>4, <3>1, <4>1
    <3>2. CASE j > m
      <4>1. j - 1 <= k /\ j - 1 \in 1..Len(r)
        BY <1>0, <1>2, <2>2, <3>2
      <4> QED
        BY <1>5, <3>2, <4>1
    <3> QED
      BY <1>6, <2>2, <3>1, <3>2
  <2> QED
    BY <2>1, <2>2
<1>8. ASSUME NEW j \in 1..Len(q), Critical(q[j])
      PROVE  \E l \in 1..Len(r) : r[l] = q[j]
  <2>1. CASE j < m
    BY <1>2, <1>4, <2>1
  <2>2. CASE j > m
    <3>1. j - 1 \in 1..Len(r)
      BY <1>0, <1>2, <2>2
    <3> QED
      BY <1>5, <2>2, <3>1
  <2> QED
    BY <1>6, <1>8, <2>1, <2>2
<1>9. \A k \in 1..Len(r) : k = Len(r) \/ k \in 1..(Len(q) - 1)
  BY <1>0, <1>2
<1>10. Follows(q, r, item)
  BY <1>2, <1>7, <1>8, <1>9 DEF Follows
<1> QED
  BY <1>2, <1>10 DEF r, p

\* EvictNonCriticalAndSignal: nothing critical is lost without the end of the stream.
LEMMA DeliverKeeps ==
  ASSUME NEW c \in Chans, NEW item \in Items
  PROVE  LET d == Deliver(c, item)
         IN  /\ d \in Chans /\ (d.on => c.on)
             /\ \/ d.on = FALSE /\ d.queue = <<<<"eos">>>>
                \/ /\ Follows(c.queue, d.queue, item)
                   /\ d.on /\ Critical(item) => \E l \in 1..Len(d.queue) : d.queue[l] = item
<1> DEFINE d == Deliver(c, item)
<1>0. c.queue \in Seq(Items) /\ c.on \in BOOLEAN /\ Len(c.queue) \in Nat
  BY DEF Chans
<1>1. CASE d = c /\ (c.on => ~ Critical(item))
  <2>1. Follows(c.queue, c.queue, item)
    BY <1>0 DEF Follows
  <2> QED
    BY <1>1, <2>1
<1>2. CASE c.on /\ d = [c EXCEPT !.queue = Append(@, item)]
  <2>1. d.queue = Append(c.queue, item) /\ d.on = c.on /\ d = [queue |-> d.queue, on |-> d.on]
    BY <1>2 DEF Chans
  <2>2. d.queue \in Seq(Items) /\ Follows(c.queue, d.queue, item) /\ Len(c.queue) + 1 \in 1..Len(d.queue) /\ d.queue[Len(c.queue) + 1] = item
    BY <1>0, <2>1, AppendFollows
  <2> HIDE DEF d
  <2> QED
    BY <1>0, <2>1, <2>2 DEF d, Chans
<1>3. CASE Evictable(c.queue) # {} /\ c.on /\ d = [c EXCEPT !.queue = Append(RemoveAt(@, Min(Evictable(c.queue))), item)]
  <2> DEFINE m == Min(Evictable(c.queue))
  <2>1. m \in Evictable(c.queue)
    <3>1. Evictable(c.queue) \in SUBSET Nat
      BY <1>0 DEF Evictable
    <3> QED
      BY <1>3, <3>1, MinOf
  <2>2. m \in 1..Len(c.queue) /\ ~ Critical(c.queue[m])
    BY <2>1 DEF Evictable
  <2> HIDE DEF m
  <2>3. d.queue = Append(RemoveAt(c.queue, m), item) /\ d.on = c.on /\ d = [queue |-> d.queue, on |-> d.on]
    BY <1>3 DEF Chans, m
  <2>4. d.queue \in Seq(Items) /\ Follows(c.queue, d.queue, item) /\ Len(d.queue) = Len(c.queue) /\ d.queue[Len(d.queue)] = item
    BY <1>0, <2>2, <2>3, EvictFollows
  <2> HIDE DEF d
  <2>5. Len(d.queue) \in 1..Len(d.queue)
    BY <1>0, <2>2, <2>4
  <2> QED
    BY <1>0, <2>3, <2>4, <2>5 DEF d, Chans
<1>4. CASE d = [queue |-> <<<<"eos">>>>, on |-> FALSE]
  <2>1. <<"eos">> \in Items
    BY DEF Items
  <2>2. <<<<"eos">>>> \in Seq(Items)
    BY <2>1
  <2> QED
    BY <1>4, <2>2 DEF Chans
<1>5. \/ d = c /\ (c.on => ~ Critical(item))
      \/ c.on /\ d = [c EXCEPT !.queue = Append(@, item)]
      \/ Evictable(c.queue) # {} /\ c.on /\ d = [c EXCEPT !.queue = Append(RemoveAt(@, Min(Evictable(c.queue))), item)]
      \/ d = [queue |-> <<<<"eos">>>>, on |-> FALSE]
  BY DEF Deliver
<1> QED
  BY <1>1, <1>2, <1>3, <1>4, <1>5

-----------------------------------------------------------------------------
(* What a step leaves as it is *)

\* A turn that is over stays over.
Lasts == \A turn \in Nat : Over(turn) => Over(turn)'

\* An entry that stays as it was, or a new one that nothing in the queue depends on.
RowSteady(s) ==
  \/ /\ s \in DOMAIN rows /\ rows'[s] = rows[s] /\ (Given(s) => Given(s)')
     /\ client.at = "list" /\ s > cursor => Given(s)' \/ (client'.at = "list" /\ s > cursor')
  \/ s \in freed'
  \/ s \notin Used /\ \A turn \in Nat : Over(turn) => rows'[s][3] \notin 1..turn

Steady ==
  /\ Used \subseteq Used' /\ freed \subseteq freed' /\ unsure \subseteq unsure' /\ Lasts
  /\ \A s \in DOMAIN rows' : s \in Nat /\ RowSteady(s)

\* What an item of the queue may carry.
LEMMA ItemParts ==
  ASSUME NEW item \in Items
  PROVE  /\ item[1] = "entry" => item[2] \in Nat /\ item[3] \in Entries
         /\ item[1] = "complete" => item[2] \in Nat
<1>1. CASE item \in {<<"raw">>, <<"result">>, <<"runtime">>, <<"eos">>}
  BY <1>1
<1>2. CASE item \in {"complete"} \X Nat
  BY <1>2
<1>3. CASE item \in {"entry"} \X Nat \X Entries
  BY <1>3
<1> QED
  BY <1>1, <1>2, <1>3 DEF Items

\* An entry below one whose seq was given is no new one.
LEMMA NoGap ==
  ASSUME DenseOK, Typed, NEW s \in Nat, NEW x \in Used, s <= x
  PROVE  s \in Used
<1>1. x \in Nat
  BY LastSeqIs DEF Used, Typed, LogTyped
<1>2. s = x \/ s \in 0..(x - 1)
  BY <1>1
<1> QED
  BY <1>2 DEF DenseOK

\* A channel that carries what was told still does after a steady step.
LEMMA SteadyCarries ==
  ASSUME Typed, DenseOK, Steady,
         NEW c \in Chans, NEW told, told \subseteq Used, Carries(c, told)
  PROVE  Carries(c, told)'
<1> DEFINE q == c.queue
<1>0. q \in Seq(Items) /\ Len(q) \in Nat
  BY DEF Chans
<1>1. ASSUME NEW s \in DOMAIN rows', NEW k \in Nat, s \in DOMAIN rows => Covered(q, s, k),
             s \in Used, s \notin freed'
      PROVE  Covered(q, s, k)'
  <2>1. RowSteady(s)
    BY DEF Steady
  <2>2. /\ s \in DOMAIN rows /\ rows'[s] = rows[s] /\ (Given(s) => Given(s)')
        /\ client.at = "list" /\ s > cursor => Given(s)' \/ (client'.at = "list" /\ s > cursor')
    BY <1>1, <2>1 DEF RowSteady
  <2> QED
    BY <1>1, <2>2 DEF Covered
<1>2. ASSUME NEW s \in DOMAIN rows', NEW k \in Nat, s \in freed'
      PROVE  Covered(q, s, k)'
  BY <1>2 DEF Covered, Given
<1>3. c.on => \A s \in DOMAIN rows' : s \in told => Covered(q, s, Len(q))'
  BY <1>0, <1>1, <1>2 DEF Carries
<1>4. ASSUME NEW k \in 1..Len(q)
      PROVE  EntryOK(q, k)'
  <2> SUFFICES ASSUME q[k][1] = "entry"
               PROVE  /\ q[k][2] \in Used'
                      /\ q[k][2] \in DOMAIN rows' => rows'[q[k][2]] = q[k][3] \/ q[k][2] \in freed'
                      /\ \A s \in DOMAIN rows' : s < q[k][2] => Covered(q, s, k)'
    BY DEF EntryOK
  <2> DEFINE x == q[k][2]
  <2>1. EntryOK(q, k) /\ k \in Nat
    BY <1>0 DEF Carries
  <2>2. x \in Used /\ (x \in DOMAIN rows => rows[x] = q[k][3] \/ x \in freed)
    BY <2>1 DEF EntryOK
  <2>3. x \in Used'
    BY <2>2 DEF Steady
  <2>4. ASSUME x \in DOMAIN rows', x \notin freed' PROVE rows'[x] = q[k][3]
    <3>1. RowSteady(x)
      BY <2>4 DEF Steady
    <3>2. x \in DOMAIN rows /\ rows'[x] = rows[x]
      BY <2>2, <2>4, <3>1 DEF RowSteady
    <3> QED
      BY <2>2, <2>4, <3>2 DEF Steady
  <2>5. ASSUME NEW s \in DOMAIN rows', s < x PROVE Covered(q, s, k)'
    <3>1. s \in Nat /\ x \in Nat
      BY <2>2, LastSeqIs DEF Steady, Used, Typed, LogTyped
    <3>2. s \in Used
      BY <2>2, <2>5, <3>1, NoGap
    <3>3. s \in DOMAIN rows => Covered(q, s, k)
      BY <2>1, <2>5 DEF EntryOK
    <3> QED
      BY <1>1, <1>2, <2>1, <3>2, <3>3
  <2> QED
    BY <2>3, <2>4, <2>5
<1>5. ASSUME NEW k \in 1..Len(q)
      PROVE  CompleteOK(q, k)'
  <2> SUFFICES ASSUME q[k][1] = "complete"
               PROVE  /\ Over(q[k][2])'
                      /\ \A s \in DOMAIN rows' : rows'[s][3] \in 1..q[k][2] => Covered(q, s, k)' \/ rows'[s] \in unsure'
    BY DEF CompleteOK
  <2>1. PICK x : x = q[k][2]
    OBVIOUS
  <2>2. x \in Nat
    <3>1. q[k] \in Items
      BY <1>0
    <3> QED
      BY <2>1, <3>1, ItemParts
  <2>3. CompleteOK(q, k) /\ k \in Nat
    BY <1>0 DEF Carries
  <2>4. Over(x) /\ \A s \in DOMAIN rows : rows[s][3] \in 1..x => Covered(q, s, k) \/ rows[s] \in unsure
    BY <2>1, <2>3 DEF CompleteOK
  <2>5. Over(x)'
    BY <2>2, <2>4 DEF Steady, Lasts
  <2>6. ASSUME NEW s \in DOMAIN rows', rows'[s][3] \in 1..x, rows'[s] \notin unsure' PROVE Covered(q, s, k)'
    <3>1. RowSteady(s)
      BY DEF Steady
    <3>2. CASE s \in freed'
      BY <1>2, <2>3, <3>2
    <3>3. CASE s \notin freed'
      <4>1. s \in DOMAIN rows /\ rows'[s] = rows[s]
        BY <2>2, <2>4, <2>6, <3>1, <3>3 DEF RowSteady
      <4>2. s \in Used /\ Covered(q, s, k)
        BY <2>4, <2>6, <4>1 DEF Used, Steady
      <4> QED
        BY <1>1, <2>3, <3>3, <4>2
    <3> QED
      BY <3>2, <3>3
  <2> QED
    BY <2>1, <2>5, <2>6
<1> QED
  BY <1>3, <1>4, <1>5 DEF Carries

\* The two properties after a steady step that does not move the cursor.
LEMMA SteadyCursor ==
  ASSUME Typed, DenseOK, Steady, CursorMeansSeen, cursor' = cursor
  PROVE  CursorMeansSeen'
<1> SUFFICES ASSUME NEW s \in DOMAIN rows', s <= cursor
             PROVE  Given(s)'
  BY DEF CursorMeansSeen, Given
<1>1. s \in Nat /\ RowSteady(s)
  BY DEF Steady
<1>2. s \in Used
  <2>1. cursor \in Used
    BY <1>1 DEF DenseOK
  <2> QED
    BY <1>1, <2>1, NoGap
<1>3. CASE s \in freed'
  BY <1>3 DEF Given
<1>4. CASE s \in DOMAIN rows /\ (Given(s) => Given(s)')
  BY <1>4 DEF CursorMeansSeen, Given
<1> QED
  BY <1>1, <1>2, <1>3, <1>4 DEF RowSteady

LEMMA SteadyEnd ==
  ASSUME Typed, Steady, EndedOK, EndIsComplete,
         client'.at = "ended" /\ client'.by = "complete" =>
           client.at = "ended" /\ client.by = "complete" /\ client'.turn = client.turn
  PROVE  EndedOK' /\ EndIsComplete'
<1>1. CASE client'.at = "ended" /\ client'.by = "complete"
  <2>1. PICK x : x = client.turn
    OBVIOUS
  <2>2. client.at = "ended" /\ client.by = "complete" /\ client'.turn = x
    BY <1>1, <2>1
  <2>3. x \in Nat /\ Over(x)
    BY <2>1, <2>2 DEF EndedOK, Typed, ClientTyped
  <2>4. Over(x)'
    BY <2>3 DEF Steady, Lasts
  <2>5. ASSUME NEW s \in DOMAIN rows', rows'[s][3] \in 1..x, rows'[s] \notin unsure'
        PROVE  Given(s)'
    <3>1. RowSteady(s)
      BY DEF Steady
    <3>2. CASE s \in freed'
      BY <3>2 DEF Given
    <3>3. CASE s \in DOMAIN rows /\ rows'[s] = rows[s] /\ (Given(s) => Given(s)')
      BY <2>1, <2>2, <2>5, <3>3 DEF EndIsComplete, Given, Steady
    <3> QED
      BY <2>3, <2>5, <3>1, <3>2, <3>3 DEF RowSteady
  <2>6. EndedOK'
    BY <2>2, <2>4 DEF EndedOK
  <2> QED
    BY <2>2, <2>5, <2>6 DEF EndIsComplete, Given
<1>2. CASE ~ (client'.at = "ended" /\ client'.by = "complete")
  BY <1>2 DEF EndedOK, EndIsComplete
<1> QED
  BY <1>1, <1>2

\* A delivery to a channel, in the state the step leads to.
LEMMA DeliverCarries ==
  ASSUME NEW c \in Chans, NEW told, NEW item \in Items, NEW told2,
         Carries(c, told)',
         item[1] = "entry" =>
           /\ item[2] \in DOMAIN rows' /\ rows'[item[2]] = item[3] /\ told2 = told \cup {item[2]}
           /\ \A s \in DOMAIN rows' : s < item[2] => Given(s)' \/ s \in told,
         item[1] = "complete" =>
           /\ Over(item[2])'
           /\ \A s \in DOMAIN rows' : rows'[s][3] \in 1..item[2] => s \in told \/ rows'[s] \in unsure',
         item[1] # "entry" => told2 = told
  PROVE  Deliver(c, item) \in Chans /\ Carries(Deliver(c, item), told2)'
<1>1. PICK d : d = Deliver(c, item)
  OBVIOUS
<1>2. /\ d \in Chans /\ (d.on => c.on)
      /\ \/ d.on = FALSE /\ d.queue = <<<<"eos">>>>
         \/ /\ Follows(c.queue, d.queue, item)
            /\ d.on /\ Critical(item) => \E l \in 1..Len(d.queue) : d.queue[l] = item
  BY <1>1, DeliverKeeps
<1> SUFFICES Carries(d, told2)'
  BY <1>1, <1>2
<1>3. CASE d.on = FALSE /\ d.queue = <<<<"eos">>>>
  BY <1>3 DEF Carries, EntryOK, CompleteOK
<1>4. CASE Follows(c.queue, d.queue, item) /\ (d.on /\ Critical(item) => \E l \in 1..Len(d.queue) : d.queue[l] = item)
  <2>1. PICK q, r : q = c.queue /\ r = d.queue
    OBVIOUS
  <2>2. /\ q \in Seq(Items) /\ Len(q) \in Nat /\ r \in Seq(Items) /\ Len(r) \in Nat
        /\ Follows(q, r, item)
    BY <1>2, <1>4, <2>1 DEF Chans
  <2>3. ASSUME NEW s, NEW k, NEW l, Covered(q, s, k)',
               \A j \in 1..Len(q) : j <= k /\ Critical(q[j]) => \E i \in 1..Len(r) : i <= l /\ r[i] = q[j]
        PROVE  Covered(r, s, l)'
    <3>1. CASE Given(s)' \/ (client'.at = "list" /\ s > cursor')
      BY <3>1 DEF Covered
    <3>2. CASE \E j \in 1..Len(q) : j <= k /\ q[j] = <<"entry", s, rows'[s]>>
      <4>1. PICK j \in 1..Len(q) : j <= k /\ q[j] = <<"entry", s, rows'[s]>>
        BY <3>2
      <4>2. Critical(q[j])
        BY <4>1 DEF Critical
      <4> QED
        BY <2>3, <4>1, <4>2 DEF Covered
    <3> QED
      BY <2>3, <3>1, <3>2 DEF Covered
  <2>4. \A j \in 1..Len(q) : Critical(q[j]) => \E i \in 1..Len(r) : i <= Len(r) /\ r[i] = q[j]
    BY <2>2 DEF Follows
  <2>5. c.on => \A s \in DOMAIN rows' : s \in told => Covered(r, s, Len(r))'
    <3> SUFFICES ASSUME c.on, NEW s \in DOMAIN rows', s \in told
                 PROVE  Covered(r, s, Len(r))'
      OBVIOUS
    <3>1. Covered(q, s, Len(q))'
      BY <2>1 DEF Carries
    <3> QED
      BY <2>3, <2>4, <3>1
  <2>6. d.on => \A s \in DOMAIN rows' : s \in told2 => Covered(r, s, Len(r))'
    <3> SUFFICES ASSUME d.on, NEW s \in DOMAIN rows', s \in told2
                 PROVE  Covered(r, s, Len(r))'
      OBVIOUS
    <3>1. CASE s \in told
      BY <1>2, <2>5, <3>1
    <3>2. CASE s \notin told
      <4>1. item[1] = "entry" /\ s = item[2] /\ rows'[s] = item[3]
        BY <3>2
      <4>2. item = <<"entry", s, rows'[s]>>
        <5>1. item \in {"entry"} \X Nat \X Entries
          BY <4>1 DEF Items
        <5> QED
          BY <4>1, <5>1
      <4>3. Critical(item)
        BY <4>1 DEF Critical
      <4>4. PICK l \in 1..Len(r) : r[l] = item
        BY <1>4, <2>1, <4>3
      <4> QED
        BY <2>2, <4>2, <4>4 DEF Covered
    <3> QED
      BY <3>1, <3>2
  <2>7. ASSUME NEW k \in 1..Len(r)
        PROVE  EntryOK(r, k)' /\ CompleteOK(r, k)'
    <3>1. CASE r[k] = item /\ k = Len(r)
      <4>1. CASE c.on
        <5>1. \A s \in DOMAIN rows' : s \in told => Covered(r, s, k)'
          BY <2>5, <3>1, <4>1
        <5>2. \A s : Given(s)' => Covered(r, s, k)'
          BY DEF Covered
        <5>3. EntryOK(r, k)'
          BY <3>1, <5>1, <5>2 DEF EntryOK, Used
        <5>4. CompleteOK(r, k)'
          BY <3>1, <5>1 DEF CompleteOK
        <5> QED
          BY <5>3, <5>4
      <4>2. CASE ~ c.on
        <5>1. r = q
          BY <1>1, <2>1, <4>2 DEF Deliver
        <5> QED
          BY <2>1, <5>1 DEF Carries
      <4> QED
        BY <4>1, <4>2
    <3>2. CASE \E i \in 1..Len(q) :
                 /\ r[k] = q[i]
                 /\ \A j \in 1..Len(q) : j <= i /\ Critical(q[j]) => \E l \in 1..Len(r) : l <= k /\ r[l] = q[j]
      <4>1. PICK i \in 1..Len(q) :
                 /\ r[k] = q[i]
                 /\ \A j \in 1..Len(q) : j <= i /\ Critical(q[j]) => \E l \in 1..Len(r) : l <= k /\ r[l] = q[j]
        BY <3>2
      <4>2. EntryOK(q, i)' /\ CompleteOK(q, i)'
        BY <2>1 DEF Carries
      <4>3. \A s : Covered(q, s, i)' => Covered(r, s, k)'
        BY <2>3, <4>1
      <4>4. EntryOK(r, k)'
        BY <4>1, <4>2, <4>3 DEF EntryOK
      <4>5. CompleteOK(r, k)'
        BY <4>1, <4>2, <4>3 DEF CompleteOK
      <4> QED
        BY <4>4, <4>5
    <3> QED
      BY <2>2, <3>1, <3>2 DEF Follows
  <2> QED
    BY <2>1, <2>6, <2>7 DEF Carries
<1> QED
  BY <1>2, <1>3, <1>4

LEMMA SameTurns ==
  ASSUME UNCHANGED <<turns, driven, unread, writer>>
  PROVE  Lasts
BY DEF Lasts, Over, After

LEMMA SameLog ==
  ASSUME Typed, Lasts, UNCHANGED <<rows, freed, unsure, cursor, shown>>,
         client'.at = client.at, overtaken \subseteq overtaken'
  PROVE  Steady
<1>1. \A s \in DOMAIN rows' : s \in Nat /\ RowSteady(s)
  BY LastSeqIs DEF RowSteady, Given
<1> QED
  BY <1>1 DEF Steady, Used

\* What is known of a channel is known of the one the step leaves.
LEMMA CarriesNow ==
  ASSUME NEW c, NEW told, Carries(c, told)', chan' = c, cast' = told
  PROVE  Carries(chan, cast)'
BY DEF Carries, EntryOK, CompleteOK, Covered, Over, After, Given, Used

\* A step that leaves the queue and the client alone.
LEMMA QuietQueue ==
  ASSUME StreamInv, Steady, UNCHANGED <<chan, cast, client, cursor>>
  PROVE  QueueOK' /\ CursorMeansSeen' /\ EndedOK' /\ EndIsComplete'
<1>1. Typed /\ DenseOK /\ QueueOK /\ CursorMeansSeen /\ EndedOK /\ EndIsComplete
  BY DEF StreamInv
<1>2. CursorMeansSeen' /\ EndedOK' /\ EndIsComplete'
  BY <1>1, SteadyCursor, SteadyEnd
<1>3. PICK c, told : c = chan /\ told = cast
  OBVIOUS
<1>4. c \in Chans /\ told \subseteq Used /\ Carries(c, told)
  BY <1>1, <1>3 DEF Typed, DenseOK, QueueOK
<1>5. Carries(c, told)'
  BY <1>1, <1>4, SteadyCarries
<1>6. Carries(chan, cast)'
  BY <1>3, <1>5, ZenonT(30) DEF Carries, EntryOK, CompleteOK, Covered, Over, After, Given, Used
<1> QED
  BY <1>1, <1>2, <1>6 DEF QueueOK

LEMMA QuietInv ==
  ASSUME StreamInv, Lasts, UNCHANGED <<rows, freed, unsure, castVars, clientVars>>,
         Typed', DenseOK', OwnOK', TurnOK', CastOK'
  PROVE  StreamInv'
<1>1. Typed
  BY DEF StreamInv
<1>2. Steady
  BY <1>1, SameLog DEF castVars, clientVars
<1>3. QueueOK' /\ CursorMeansSeen' /\ EndedOK' /\ EndIsComplete'
  BY <1>2, QuietQueue DEF castVars, clientVars
<1> QED
  BY <1>3 DEF StreamInv

\* The seq behind the last one leaves no gap.
LEMMA NextSeq ==
  ASSUME Typed, DenseOK, NEW n, n = LastSeq + 1
  PROVE  n \in Nat /\ 0..(n - 1) \subseteq Used
<1>1. /\ LastSeq \in Int /\ LastSeq >= -1
      /\ LastSeq = -1 \/ LastSeq \in DOMAIN rows
  BY LastSeqIs
<1>2. ASSUME NEW x \in 0..(n - 1) PROVE x \in Used
  <2>1. x \in Nat /\ x <= LastSeq /\ LastSeq \in Used
    BY <1>1 DEF Used
  <2> QED
    BY <2>1, NoGap
<1> QED
  BY <1>1, <1>2

\* An entry is inserted at a seq that leaves no gap.
LEMMA Inserted ==
  ASSUME StreamInv, Lasts, NEW p \in Nat, p \notin DOMAIN rows, 0..(p - 1) \subseteq Used, NEW e \in Entries,
         rows' = WithRow(p, e), UNCHANGED <<freed, castVars, clientVars>>, unsure \subseteq unsure',
         \A turn \in Nat : Over(turn) => e[3] \notin 1..turn
  PROVE  /\ LogTyped' /\ QueueOK' /\ CursorMeansSeen' /\ EndedOK' /\ EndIsComplete'
         /\ DOMAIN rows' = DOMAIN rows \cup {p} /\ rows'[p] = e
         /\ \A s \in DOMAIN rows : rows'[s] = rows[s]
         /\ \A s \in Used' : \A x \in 0..(s - 1) : x \in Used'
         /\ Used \subseteq Used'
<1>1. Typed /\ DenseOK
  BY DEF StreamInv
<1>2. /\ DOMAIN rows' = DOMAIN rows \cup {p} /\ rows'[p] = e
      /\ \A s \in DOMAIN rows : rows'[s] = rows[s]
      /\ rows' \in [DOMAIN rows' -> {rows'[s] : s \in DOMAIN rows'}]
  BY DEF WithRow
<1>3. LogTyped'
  <2>1. PICK b \in Nat : DOMAIN rows \subseteq 0..b
    BY <1>1 DEF Typed, LogTyped
  <2>2. b + p \in Nat /\ DOMAIN rows' \subseteq 0..(b + p)
    BY <1>2, <2>1
  <2>3. \A s \in DOMAIN rows' : rows'[s] \in Entries
    BY <1>1, <1>2 DEF Typed, LogTyped
  <2>4. rows' \in [DOMAIN rows' -> Entries]
    BY <1>2, <2>3
  <2>5. \E x \in Nat : DOMAIN rows' \subseteq 0..x
    BY <2>2
  <2> QED
    BY <1>1, <2>4, <2>5 DEF Typed, LogTyped
<1>4. Used' = Used \cup {p}
  BY <1>2 DEF Used
<1>5. \A s \in Used' : \A x \in 0..(s - 1) : x \in Used'
  BY <1>1, <1>4 DEF DenseOK
<1>6. \A s \in DOMAIN rows' : RowSteady(s)
  <2> TAKE s \in DOMAIN rows'
  <2>1. CASE s = p
    BY <1>2, <2>1 DEF RowSteady, Used
  <2>2. CASE s # p
    <3>1. s \in DOMAIN rows /\ rows'[s] = rows[s]
      BY <1>2, <2>2
    <3>2. Given(s) => Given(s)'
      BY <3>1 DEF Given, castVars, clientVars
    <3>3. client' = client /\ cursor' = cursor
      BY DEF clientVars
    <3> QED
      BY <3>1, <3>2, <3>3 DEF RowSteady
  <2> QED
    BY <2>1, <2>2
<1>7. \A s \in DOMAIN rows' : s \in Nat
  BY <1>1, <1>2, LastSeqIs
<1>8. Steady
  BY <1>4, <1>6, <1>7 DEF Steady
<1>9. QueueOK' /\ CursorMeansSeen' /\ EndedOK' /\ EndIsComplete'
  BY <1>8, QuietQueue DEF castVars, clientVars
<1> QED
  BY <1>2, <1>3, <1>4, <1>5, <1>9
-----------------------------------------------------------------------------
(* send_message *)

LEMMA AdmittedInv ==
  ASSUME StreamInv, NEW u \in Users, Admitted(u)
  PROVE  StreamInv'
<1>1. Typed /\ DenseOK /\ OwnOK /\ TurnOK /\ CastOK
  BY DEF StreamInv
<1>2. /\ user' = [user EXCEPT ![u] = [at |-> "write", seq |-> LastSeq + 1]]
      /\ user[u].at = "new"
      /\ UNCHANGED <<rows, freed, unsure, turns, driven, unread, writer, waiting, made, cast, chan, client, cursor, shown>>
      /\ UNCHANGED <<castVars, clientVars>>
  BY DEF Admitted, logVars, actorSide, castVars, clientVars
<1>3. LastSeq + 1 \in Nat
  BY <1>1, NextSeq
<1>4. Typed'
  <2>1. UserTyped'
    BY <1>1, <1>2, <1>3 DEF Typed, UserTyped
  <2> QED
    BY <1>1, <1>2, <2>1 DEF Typed, LogTyped, ActorTyped, WriterTyped, ClientTyped
<1>5. DenseOK'
  <2>1. ASSUME NEW w \in Users, user'[w].at = "write"
        PROVE  user'[w].seq \in Nat /\ 0..(user'[w].seq - 1) \subseteq Used
    <3>1. CASE w = u
      <4>1. user'[w].seq = LastSeq + 1
        BY <1>1, <1>2, <3>1 DEF Typed, UserTyped
      <4> QED
        BY <1>1, <4>1, NextSeq
    <3>2. CASE w # u
      <4>1. user'[w] = user[w]
        BY <1>1, <1>2, <3>2 DEF Typed, UserTyped
      <4> QED
        BY <1>1, <2>1, <4>1 DEF DenseOK
    <3> QED
      BY <3>1, <3>2
  <2> QED
    BY <1>1, <1>2, <2>1 DEF DenseOK, Used
<1>6. OwnOK'
  <2>1. \A w \in Users : w # u => user'[w] = user[w]
    BY <1>1, <1>2 DEF Typed, UserTyped
  <2>2. user'[u].at = "write"
    BY <1>1, <1>2 DEF Typed, UserTyped
  <2>3. \A i \in 1..Len(waiting) : waiting[i] \in Users
    BY <1>1 DEF Typed, ActorTyped
  <2> QED
    BY <1>1, <1>2, <2>1, <2>2, <2>3 DEF OwnOK
<1>7. TurnOK' /\ CastOK' /\ Lasts
  BY <1>1, <1>2, SameTurns DEF TurnOK, After, CastOK
<1> QED
  BY <1>2, <1>4, <1>5, <1>6, <1>7, QuietInv

\* The user record after a step that changes one of them only.
LEMMA UserStep ==
  ASSUME Typed, NEW u \in Users, NEW y, user' = [user EXCEPT ![u] = y],
         y \in [at : {"new", "write", "send", "sent", "undo", "accepted", "failed", "left"}, seq : Int]
  PROVE  UserTyped' /\ user'[u] = y /\ \A w \in Users : w # u => user'[w] = user[w]
BY DEF Typed, UserTyped

\* The entry of a user belongs to no turn.
LEMMA UserEntryIs ==
  ASSUME NEW u \in Users
  PROVE  UserEntry(u) \in Entries /\ UserEntry(u)[1] = "user" /\ UserEntry(u)[2] = u /\ UserEntry(u)[3] = 0
<1>1. u \in Nat
  BY StreamAssumption
<1> QED
  BY <1>1 DEF UserEntry, Entries

\* The entry of a user is inserted, and the call goes on or ends.
LEMMA UserInsertsInv ==
  ASSUME StreamInv, NEW u \in Users, NEW at \in {"send", "left"},
         user[u].at = "write", user[u].seq \notin DOMAIN rows,
         user' = [user EXCEPT ![u].at = at], rows' = WithRow(user[u].seq, UserEntry(u)),
         UNCHANGED <<freed, unsure, turns, driven, unread, writer, waiting, made, cast, chan, client,
                     cursor, shown, castVars, clientVars>>
  PROVE  StreamInv'
<1>1. Typed /\ DenseOK /\ OwnOK /\ TurnOK /\ CastOK
  BY DEF StreamInv
<1>2. Lasts /\ TurnOK'
  BY <1>1, SameTurns DEF TurnOK, After
<1>3. user[u] \in [at : {"new", "write", "send", "sent", "undo", "accepted", "failed", "left"}, seq : Int]
  BY <1>1 DEF Typed, UserTyped
<1>4. \A i \in 1..Len(waiting) : waiting[i] \in Users /\ waiting[i] # u
  BY <1>1 DEF Typed, ActorTyped, OwnOK
<1> DEFINE y == [user[u] EXCEPT !.at = at]
           p == user[u].seq
<1>5. user' = [user EXCEPT ![u] = y] /\ rows' = WithRow(p, UserEntry(u))
  OBVIOUS
<1>6. y \in [at : {"new", "write", "send", "sent", "undo", "accepted", "failed", "left"}, seq : Int]
  BY <1>3
<1>7. y.at = at /\ y.seq = p
  BY <1>3
<1> HIDE DEF y
<1>8. UserTyped' /\ user'[u] = y /\ \A w \in Users : w # u => user'[w] = user[w]
  BY <1>1, <1>5, <1>6, UserStep
<1>9. UserEntry(u) \in Entries /\ UserEntry(u)[3] = 0
  BY UserEntryIs
<1>10. p \in Nat /\ p \notin DOMAIN rows /\ 0..(p - 1) \subseteq Used
  BY <1>1 DEF DenseOK
<1> HIDE DEF p
<1>11. \A turn \in Nat : Over(turn) => UserEntry(u)[3] \notin 1..turn
  BY <1>9
<1>12. /\ LogTyped' /\ QueueOK' /\ CursorMeansSeen' /\ EndedOK' /\ EndIsComplete'
       /\ DOMAIN rows' = DOMAIN rows \cup {p} /\ rows'[p] = UserEntry(u)
       /\ \A s \in DOMAIN rows : rows'[s] = rows[s]
       /\ \A s \in Used' : \A x \in 0..(s - 1) : x \in Used'
       /\ Used \subseteq Used'
  BY <1>2, <1>5, <1>9, <1>10, <1>11, Inserted
<1>13. Typed'
  BY <1>1, <1>8, <1>12 DEF Typed, ActorTyped, WriterTyped, ClientTyped
<1>14. \A w \in Users : user'[w].at = "write" => user'[w].seq \in Nat /\ 0..(user'[w].seq - 1) \subseteq Used'
  BY <1>1, <1>7, <1>8, <1>12 DEF DenseOK
<1>15. DenseOK'
  BY <1>1, <1>12, <1>14 DEF DenseOK
<1>16. OwnOK'
  <2>1. ASSUME NEW w \in Users, user'[w].at \in {"send", "sent", "undo"}
        PROVE  user'[w].seq \in DOMAIN rows' /\ rows'[user'[w].seq] = UserEntry(w)
    <3>1. CASE w = u
      BY <1>7, <1>8, <1>12, <3>1
    <3>2. CASE w # u
      BY <1>1, <1>8, <1>12, <2>1, <3>2 DEF OwnOK
    <3> QED
      BY <3>1, <3>2
  <2>2. writer.at = "cast" => writer.seq \in DOMAIN rows' /\ rows'[writer.seq] = writer.msg
    BY <1>1, <1>12 DEF OwnOK
  <2>3. \A i \in 1..Len(waiting) : user'[waiting[i]].at = "sent"
    BY <1>1, <1>4, <1>8 DEF OwnOK
  <2> QED
    BY <1>1, <2>1, <2>2, <2>3 DEF OwnOK
<1>17. CastOK'
  BY <1>1, <1>9, <1>12 DEF CastOK
<1> QED
  BY <1>2, <1>12, <1>13, <1>15, <1>16, <1>17 DEF StreamInv

LEMMA UserWritesInv ==
  ASSUME StreamInv, NEW u \in Users, UserWrites(u)
  PROVE  StreamInv'
<1>1. Typed /\ DenseOK /\ OwnOK /\ TurnOK /\ CastOK
  BY DEF StreamInv
<1>2. /\ user[u].at = "write"
      /\ UNCHANGED <<freed, unsure, turns, driven, unread, writer, waiting, made, cast, chan, client, cursor, shown>>
      /\ UNCHANGED <<castVars, clientVars>>
  BY DEF UserWrites, actorSide, castVars, clientVars
<1>3. Lasts /\ TurnOK'
  BY <1>1, <1>2, SameTurns DEF TurnOK, After
<1>4. user[u].seq \in Nat /\ 0..(user[u].seq - 1) \subseteq Used
  BY <1>1, <1>2 DEF DenseOK
<1>5. user[u] \in [at : {"new", "write", "send", "sent", "undo", "accepted", "failed", "left"}, seq : Int]
  BY <1>1 DEF Typed, UserTyped
<1>6. \A i \in 1..Len(waiting) : waiting[i] \in Users /\ waiting[i] # u
  BY <1>1, <1>2 DEF Typed, ActorTyped, OwnOK
<1>7. CASE user[u].seq \in DOMAIN rows
  <2> DEFINE y == [user[u] EXCEPT !.seq = LastSeq + 1]
  <2>1. user' = [user EXCEPT ![u] = y] /\ rows' = rows
    BY <1>7 DEF UserWrites
  <2>2. LastSeq + 1 \in Nat
    BY <1>1, NextSeq
  <2>3. y \in [at : {"new", "write", "send", "sent", "undo", "accepted", "failed", "left"}, seq : Int]
    BY <1>5, <2>2
  <2>4. y.at = "write" /\ y.seq = LastSeq + 1
    BY <1>2, <1>5
  <2> HIDE DEF y
  <2>5. UserTyped' /\ user'[u] = y /\ \A w \in Users : w # u => user'[w] = user[w]
    BY <1>1, <2>1, <2>3, UserStep
  <2>6. Typed'
    BY <1>1, <1>2, <2>1, <2>5 DEF Typed, LogTyped, ActorTyped, WriterTyped, ClientTyped
  <2>7. ASSUME NEW w \in Users, user'[w].at = "write"
        PROVE  user'[w].seq \in Nat /\ 0..(user'[w].seq - 1) \subseteq Used
    <3>1. CASE w = u
      BY <1>1, <2>4, <2>5, <3>1, NextSeq
    <3>2. CASE w # u
      BY <1>1, <2>5, <2>7, <3>2 DEF DenseOK
    <3> QED
      BY <3>1, <3>2
  <2>8. DenseOK'
    BY <1>1, <1>2, <2>1, <2>7 DEF DenseOK, Used
  <2>9. OwnOK'
    BY <1>1, <1>2, <1>6, <2>1, <2>4, <2>5 DEF OwnOK
  <2>10. CastOK'
    BY <1>1, <1>2, <2>1 DEF CastOK
  <2> QED
    BY <1>2, <1>3, <2>1, <2>6, <2>8, <2>9, <2>10, QuietInv
<1>8. CASE user[u].seq \notin DOMAIN rows
  <2>1. user' = [user EXCEPT ![u].at = "send"] /\ rows' = WithRow(user[u].seq, UserEntry(u))
    BY <1>8 DEF UserWrites
  <2> QED
    BY <1>2, <1>8, <2>1, UserInsertsInv
<1> QED
  BY <1>7, <1>8

\* The user's record goes to where it has no entry that it would have to find.
LEMMA UserLeavesInv ==
  ASSUME StreamInv, NEW u \in Users, user[u].at \in {"write", "send", "undo"},
         user' = [user EXCEPT ![u].at = "left"],
         UNCHANGED <<rows, freed, unsure, turns, driven, unread, writer, waiting, made, cast, chan, client,
                     cursor, shown, castVars, clientVars>>
  PROVE  StreamInv'
<1>1. Typed /\ DenseOK /\ OwnOK /\ TurnOK /\ CastOK
  BY DEF StreamInv
<1> DEFINE y == [user[u] EXCEPT !.at = "left"]
<1>2. user' = [user EXCEPT ![u] = y]
  OBVIOUS
<1>3. user[u] \in [at : {"new", "write", "send", "sent", "undo", "accepted", "failed", "left"}, seq : Int]
  BY <1>1 DEF Typed, UserTyped
<1>4. /\ y \in [at : {"new", "write", "send", "sent", "undo", "accepted", "failed", "left"}, seq : Int]
      /\ y.at = "left"
  BY <1>3
<1> HIDE DEF y
<1>5. UserTyped' /\ user'[u] = y /\ \A w \in Users : w # u => user'[w] = user[w]
  BY <1>1, <1>2, <1>4, UserStep
<1>6. Typed'
  BY <1>1, <1>5 DEF Typed, LogTyped, ActorTyped, WriterTyped, ClientTyped
<1>7. DenseOK'
  BY <1>1, <1>4, <1>5 DEF DenseOK, Used
<1>8. OwnOK'
  <2>1. \A i \in 1..Len(waiting) : waiting[i] \in Users /\ waiting[i] # u
    BY <1>1 DEF Typed, ActorTyped, OwnOK
  <2> QED
    BY <1>1, <1>4, <1>5, <2>1 DEF OwnOK
<1>9. TurnOK' /\ CastOK' /\ Lasts
  BY <1>1, SameTurns DEF TurnOK, After, CastOK
<1> QED
  BY <1>6, <1>7, <1>8, <1>9, QuietInv

LEMMA UserFailsInv ==
  ASSUME StreamInv, NEW u \in Users, UserFails(u)
  PROVE  StreamInv'
<1>1. /\ user[u].at \in {"write", "send"} /\ user' = [user EXCEPT ![u].at = "left"]
      /\ UNCHANGED <<freed, unsure, turns, driven, unread, writer, waiting, made, cast, chan, client,
                     cursor, shown, castVars, clientVars>>
  BY DEF UserFails, actorSide, castVars, clientVars
<1>2. CASE rows' = rows
  BY <1>1, <1>2, UserLeavesInv
<1>3. CASE user[u].at = "write" /\ user[u].seq \notin DOMAIN rows /\ rows' = WithRow(user[u].seq, UserEntry(u))
  BY <1>1, <1>3, UserInsertsInv
<1> QED
  BY <1>2, <1>3 DEF UserFails

LEMMA UndoFailsInv ==
  ASSUME StreamInv, NEW u \in Users, UndoFails(u)
  PROVE  StreamInv'
<1>1. /\ user[u].at = "undo" /\ user' = [user EXCEPT ![u].at = "left"]
      /\ UNCHANGED <<rows, freed, unsure, turns, driven, unread, writer, waiting, made, cast, chan, client,
                     cursor, shown, castVars, clientVars>>
  BY DEF UndoFails, logVars, actorSide, castVars, clientVars
<1> QED
  BY <1>1, UserLeavesInv

LEMMA QueuedInv ==
  ASSUME StreamInv, NEW u \in Users, Queued(u)
  PROVE  StreamInv'
<1>1. Typed /\ DenseOK /\ OwnOK /\ TurnOK /\ CastOK
  BY DEF StreamInv
<1> DEFINE y == [user[u] EXCEPT !.at = IF alive THEN "sent" ELSE "undo"]
<1>2. /\ user[u].at = "send" /\ user' = [user EXCEPT ![u] = y]
      /\ waiting' = IF alive THEN Append(waiting, u) ELSE waiting
      /\ UNCHANGED <<rows, freed, unsure, turns, driven, unread, writer, made, cast, chan, client, cursor, shown>>
      /\ UNCHANGED <<castVars, clientVars>>
  BY DEF Queued, logVars, castVars, clientVars
<1>3. Lasts /\ TurnOK' /\ CastOK'
  BY <1>1, <1>2, SameTurns DEF TurnOK, After, CastOK
<1>4. user[u] \in [at : {"new", "write", "send", "sent", "undo", "accepted", "failed", "left"}, seq : Int]
  BY <1>1 DEF Typed, UserTyped
<1>5. /\ y \in [at : {"new", "write", "send", "sent", "undo", "accepted", "failed", "left"}, seq : Int]
      /\ y.at = (IF alive THEN "sent" ELSE "undo") /\ y.seq = user[u].seq
  BY <1>4
<1> HIDE DEF y
<1>6. UserTyped' /\ user'[u] = y /\ \A w \in Users : w # u => user'[w] = user[w]
  BY <1>1, <1>2, <1>5, UserStep
<1>7. waiting \in Seq(Users) /\ Len(waiting) \in Nat
  BY <1>1 DEF Typed, ActorTyped
<1>8. \A i \in 1..Len(waiting) : waiting[i] \in Users /\ waiting[i] # u
  BY <1>1, <1>2, <1>7 DEF OwnOK
<1>9. /\ waiting' \in Seq(Users)
      /\ \A i \in 1..Len(waiting') :
           (i \in 1..Len(waiting) /\ waiting'[i] = waiting[i]) \/ (alive /\ i = Len(waiting) + 1 /\ waiting'[i] = u)
  BY <1>2, <1>7
<1>10. Typed'
  BY <1>1, <1>2, <1>6, <1>9 DEF Typed, LogTyped, ActorTyped, WriterTyped, ClientTyped
<1>11. DenseOK'
  BY <1>1, <1>2, <1>5, <1>6 DEF DenseOK, Used
<1>12. OwnOK'
  <2>1. \A w \in Users : user'[w].at \in {"send", "sent", "undo"} =>
          user'[w].seq \in DOMAIN rows /\ rows[user'[w].seq] = UserEntry(w)
    BY <1>1, <1>2, <1>5, <1>6 DEF OwnOK
  <2>2. \A i \in 1..Len(waiting') : user'[waiting'[i]].at = "sent"
    BY <1>1, <1>5, <1>6, <1>8, <1>9 DEF OwnOK
  <2>3. \A i, j \in 1..Len(waiting') : waiting'[i] = waiting'[j] => i = j
    BY <1>1, <1>8, <1>9 DEF OwnOK
  <2> QED
    BY <1>1, <1>2, <2>1, <2>2, <2>3 DEF OwnOK
<1> QED
  BY <1>2, <1>3, <1>10, <1>11, <1>12, QuietInv

\* The inbox after a message was put into it.
LEMMA AppendTurns ==
  ASSUME Typed, TurnOK, NEW m \in Messages, unread' = Append(unread, m), UNCHANGED <<turns, writer>>,
         \/ m[1] = "crash" /\ m[3] = 0 /\ driven' = driven
         \/ driven # 0 /\ m[3] = driven /\ m[1] \in {"say", "echo"} /\ driven' = driven
         \/ driven # 0 /\ m[3] = driven /\ m[1] \in {"completed", "result"} /\ driven' = 0
  PROVE  Lasts /\ TurnOK' /\ unread' \in Seq(Messages)
<1>1. /\ unread \in Seq(Messages) /\ Len(unread) \in Nat /\ turns \in Nat /\ driven \in Nat
      /\ driven <= turns
  BY DEF Typed, ActorTyped, TurnOK
<1>2. /\ unread' \in Seq(Messages) /\ Len(unread') = Len(unread) + 1 /\ unread'[Len(unread) + 1] = m
      /\ \A k \in 1..Len(unread) : unread'[k] = unread[k]
  BY <1>1
<1>3. \A j \in 1..Len(unread') :
         (j \in 1..Len(unread) /\ unread'[j] = unread[j]) \/ (j = Len(unread) + 1 /\ unread'[j] = m)
  BY <1>1, <1>2
<1>4. \A turn, k : After(turn, k) => After(turn, k)'
  BY <1>1, <1>3 DEF After
<1>5. Lasts
  BY <1>4 DEF Lasts, Over
<1>6. PICK d : d = driven
  OBVIOUS
<1>7. m[1] \in {"completed", "result"} => After(d, Len(unread))'
  BY <1>1, <1>2, <1>6 DEF After
<1>8. ASSUME NEW k \in 1..Len(unread')
      PROVE  (/\ unread[k][1] # "crash" => unread[k][3] # 0
              /\ unread[k][1] \in {"completed", "result"} => After(unread[k][3], k))'
  <2>1. CASE k \in 1..Len(unread) /\ unread'[k] = unread[k]
    <3>1. PICK x : x = unread[k][3]
      OBVIOUS
    <3>2. /\ unread[k][1] # "crash" => x # 0
          /\ unread[k][1] \in {"completed", "result"} => After(x, k)
      BY <2>1, <3>1 DEF TurnOK
    <3>3. unread[k][1] \in {"completed", "result"} => After(x, k)'
      BY <1>4, <3>2
    <3> QED
      BY <2>1, <3>1, <3>2, <3>3 DEF After
  <2>2. CASE k = Len(unread') /\ unread'[k] = m
    BY <1>1, <1>6, <1>7, <2>2 DEF After
  <2> QED
    BY <1>2, <1>3, <2>1, <2>2
<1>9. (writer.at # "idle" /\ writer.msg[1] = "result" => After(writer.msg[3], 0))'
  <2>1. PICK x : x = writer.msg[3]
    OBVIOUS
  <2>2. writer.at # "idle" /\ writer.msg[1] = "result" => After(x, 0)'
    BY <1>4, <2>1 DEF TurnOK
  <2> QED
    BY <2>1, <2>2 DEF After
<1>10. (driven <= turns)'
  BY <1>1
<1> QED
  BY <1>2, <1>5, <1>8, <1>9, <1>10 DEF TurnOK

LEMMA RefusedInv ==
  ASSUME StreamInv, Refused
  PROVE  StreamInv'
<1>1. Typed /\ DenseOK /\ OwnOK /\ TurnOK /\ CastOK
  BY DEF StreamInv
<1>2. /\ user' = [u \in Users |-> IF u \in ToSet(waiting) THEN [user[u] EXCEPT !.at = "undo"] ELSE user[u]]
      /\ waiting' = <<>> /\ unread' = Append(unread, <<"crash", 0, 0>>)
      /\ UNCHANGED <<rows, freed, unsure, turns, driven, writer, made, cast, chan, client, cursor, shown>>
      /\ UNCHANGED <<castVars, clientVars>>
  BY DEF Refused, logVars, castVars, clientVars
<1>3. <<"crash", 0, 0>> \in Messages
  BY DEF Messages
<1>4. Lasts /\ TurnOK' /\ unread' \in Seq(Messages)
  BY <1>1, <1>2, <1>3, AppendTurns
<1>5. CastOK'
  BY <1>1, <1>2 DEF CastOK
<1>6. waiting \in Seq(Users) /\ \A u \in ToSet(waiting) : u \in Users /\ user[u].at = "sent"
  <2>1. waiting \in Seq(Users)
    BY <1>1 DEF Typed, ActorTyped
  <2>2. \A i \in 1..Len(waiting) : user[waiting[i]].at = "sent" /\ waiting[i] \in Users
    BY <1>1, <2>1 DEF OwnOK
  <2> QED
    BY <2>1, <2>2 DEF ToSet
<1>7. ASSUME NEW u \in Users
      PROVE  /\ user'[u] \in [at : {"new", "write", "send", "sent", "undo", "accepted", "failed", "left"}, seq : Int]
             /\ user'[u].seq = user[u].seq
             /\ user'[u].at = user[u].at \/ (user'[u].at = "undo" /\ user[u].at = "sent")
  <2>1. user[u] \in [at : {"new", "write", "send", "sent", "undo", "accepted", "failed", "left"}, seq : Int]
    BY <1>1 DEF Typed, UserTyped
  <2>2. CASE u \in ToSet(waiting)
    <3>1. user'[u] = [user[u] EXCEPT !.at = "undo"]
      BY <1>2, <2>2
    <3> QED
      BY <1>6, <2>1, <2>2, <3>1
  <2>3. CASE u \notin ToSet(waiting)
    BY <1>2, <2>1, <2>3
  <2> QED
    BY <2>2, <2>3
<1>8. UserTyped'
  <2>1. user' \in [Users -> {user'[u] : u \in Users}]
    BY <1>2
  <2> QED
    BY <1>7, <2>1 DEF UserTyped
<1>9. Typed'
  <2>1. waiting' \in Seq(Users)
    BY <1>2
  <2> QED
    BY <1>1, <1>2, <1>4, <1>8, <2>1 DEF Typed, LogTyped, ActorTyped, WriterTyped, ClientTyped
<1>10. DenseOK'
  BY <1>1, <1>2, <1>7 DEF DenseOK, Used
<1>11. OwnOK'
  <2>1. \A u \in Users : user'[u].at \in {"send", "sent", "undo"} =>
          user'[u].seq \in DOMAIN rows /\ rows[user'[u].seq] = UserEntry(u)
    BY <1>1, <1>7 DEF OwnOK
  <2>2. Len(waiting') = 0
    BY <1>2
  <2> QED
    BY <1>1, <1>2, <2>1, <2>2 DEF OwnOK
<1> QED
  BY <1>2, <1>4, <1>5, <1>9, <1>10, <1>11, QuietInv

LEMMA UndoneInv ==
  ASSUME StreamInv, NEW u \in Users, Undone(u)
  PROVE  StreamInv'
<1>1. Typed /\ DenseOK /\ OwnOK /\ TurnOK /\ CastOK
  BY DEF StreamInv
<1> DEFINE y == [user[u] EXCEPT !.at = "failed"]
           p == user[u].seq
<1>2. /\ user[u].at = "undo" /\ user' = [user EXCEPT ![u] = y]
      /\ rows' = WithoutRow(p) /\ freed' = freed \cup {p}
      /\ UNCHANGED <<unsure, turns, driven, unread, writer, waiting, made, cast, chan, client, cursor, shown, overtaken>>
  BY DEF Undone, actorSide, castVars, clientVars
<1>3. Lasts /\ TurnOK'
  BY <1>1, <1>2, SameTurns DEF TurnOK, After
<1>4. user[u] \in [at : {"new", "write", "send", "sent", "undo", "accepted", "failed", "left"}, seq : Int]
  BY <1>1 DEF Typed, UserTyped
<1>5. /\ y \in [at : {"new", "write", "send", "sent", "undo", "accepted", "failed", "left"}, seq : Int]
      /\ y.at = "failed"
  BY <1>4
<1>6. p \in DOMAIN rows /\ rows[p] = UserEntry(u) /\ p \in Nat
  BY <1>1, <1>2, LastSeqIs DEF OwnOK
<1> HIDE DEF y, p
<1>7. UserTyped' /\ user'[u] = y /\ \A w \in Users : w # u => user'[w] = user[w]
  BY <1>1, <1>2, <1>5, UserStep
<1>8. /\ DOMAIN rows' = DOMAIN rows \ {p} /\ \A s \in DOMAIN rows' : rows'[s] = rows[s]
      /\ rows' \in [DOMAIN rows' -> {rows'[s] : s \in DOMAIN rows'}]
  BY <1>2 DEF WithoutRow
<1>9. Used' = Used
  BY <1>2, <1>6, <1>8 DEF Used
<1>10. LogTyped'
  <2>1. PICK b \in Nat : DOMAIN rows \subseteq 0..b
    BY <1>1 DEF Typed, LogTyped
  <2>2. \E x \in Nat : DOMAIN rows' \subseteq 0..x
    BY <1>8, <2>1
  <2>3. \A s \in DOMAIN rows' : rows'[s] \in Entries
    BY <1>1, <1>8 DEF Typed, LogTyped
  <2>4. rows' \in [DOMAIN rows' -> Entries]
    BY <1>8, <2>3
  <2> QED
    BY <1>1, <1>2, <1>6, <2>2, <2>4 DEF Typed, LogTyped
<1>11. Typed'
  BY <1>1, <1>2, <1>7, <1>10 DEF Typed, ActorTyped, WriterTyped, ClientTyped
<1>12. DenseOK'
  BY <1>1, <1>2, <1>5, <1>7, <1>9 DEF DenseOK
<1>13. OwnOK'
  <2>1. ASSUME NEW w \in Users, user'[w].at \in {"send", "sent", "undo"}
        PROVE  user'[w].seq \in DOMAIN rows' /\ rows'[user'[w].seq] = UserEntry(w)
    <3>1. w # u /\ user'[w] = user[w]
      BY <1>5, <1>7, <2>1
    <3>2. user[w].seq \in DOMAIN rows /\ rows[user[w].seq] = UserEntry(w)
      BY <1>1, <2>1, <3>1 DEF OwnOK
    <3>3. UserEntry(w) # UserEntry(u)
      BY <3>1, UserEntryIs
    <3> QED
      BY <1>6, <1>8, <3>1, <3>2, <3>3
  <2>2. ASSUME writer.at = "cast"
        PROVE  writer.seq \in DOMAIN rows' /\ rows'[writer.seq] = writer.msg
    <3>1. writer.seq \in DOMAIN rows /\ rows[writer.seq] = writer.msg /\ writer.msg[1] # "user"
      BY <1>1, <2>2 DEF OwnOK
    <3> QED
      BY <1>6, <1>8, <3>1, UserEntryIs
  <2>3. \A i \in 1..Len(waiting) : waiting[i] \in Users /\ waiting[i] # u /\ user[waiting[i]].at = "sent"
    BY <1>1, <1>2 DEF Typed, ActorTyped, OwnOK
  <2> QED
    BY <1>1, <1>2, <1>7, <2>1, <2>2, <2>3 DEF OwnOK
<1>14. CastOK'
  BY <1>1, <1>2, <1>8 DEF CastOK
<1>15. Steady
  <2>1. ASSUME NEW s \in DOMAIN rows' PROVE s \in Nat /\ RowSteady(s)
    <3>1. s \in DOMAIN rows /\ rows'[s] = rows[s] /\ s \in Nat
      BY <1>1, <1>8, LastSeqIs
    <3>2. Given(s) => Given(s)'
      BY <1>2, <3>1 DEF Given
    <3> QED
      BY <1>2, <3>1, <3>2 DEF RowSteady
  <2> QED
    BY <1>2, <1>3, <1>9, <2>1 DEF Steady
<1>16. QueueOK' /\ CursorMeansSeen' /\ EndedOK' /\ EndIsComplete'
  BY <1>2, <1>15, QuietQueue
<1> QED
  BY <1>3, <1>11, <1>12, <1>13, <1>14, <1>16 DEF StreamInv

\* What a step makes of the channel, once it is known what the channel carries.
LEMMA QueueThen ==
  ASSUME StreamInv, Steady, UNCHANGED <<client, cursor>>, NEW c, NEW told,
         Carries(c, told)', chan' = c, cast' = told, ~ chan.on => chan'.queue = chan.queue /\ ~ chan'.on
  PROVE  QueueOK' /\ CursorMeansSeen' /\ EndedOK' /\ EndIsComplete'
<1>1. Typed /\ DenseOK /\ QueueOK /\ CursorMeansSeen /\ EndedOK /\ EndIsComplete
  BY DEF StreamInv
<1>2. CursorMeansSeen' /\ EndedOK' /\ EndIsComplete'
  BY <1>1, SteadyCursor, SteadyEnd
<1>3. Carries(chan, cast)'
  BY DEF Carries, EntryOK, CompleteOK, Covered, Over, After, Given, Used
<1> QED
  BY <1>1, <1>2, <1>3 DEF QueueOK

LEMMA ReconnectedInv ==
  ASSUME StreamInv, Reconnected
  PROVE  StreamInv'
<1>1. Typed /\ DenseOK /\ OwnOK /\ TurnOK /\ CastOK /\ QueueOK
  BY DEF StreamInv
<1>2. /\ chan' = [chan EXCEPT !.on = FALSE]
      /\ UNCHANGED <<rows, freed, unsure, turns, driven, unread, writer, waiting, made, user, cast, overtaken, client, cursor, shown>>
  BY DEF Reconnected, logVars, clientVars
<1>3. Lasts /\ TurnOK' /\ CastOK' /\ DenseOK' /\ OwnOK'
  BY <1>1, <1>2, SameTurns DEF TurnOK, After, CastOK, DenseOK, OwnOK, Used
<1>4. Steady
  BY <1>1, <1>2, <1>3, SameLog
<1>5. PICK c, told, d : c = chan /\ told = cast /\ d = [c EXCEPT !.on = FALSE]
  OBVIOUS
<1>6. c \in Chans /\ told \subseteq Used /\ Carries(c, told)
  BY <1>1, <1>5 DEF Typed, DenseOK, QueueOK
<1>7. Carries(c, told)'
  BY <1>1, <1>4, <1>6, SteadyCarries
<1>8. d \in Chans /\ d.queue = c.queue /\ d.on = FALSE
  BY <1>5, <1>6 DEF Chans
<1>9. Carries(d, told)'
  BY <1>7, <1>8 DEF Carries
<1>10. QueueOK' /\ CursorMeansSeen' /\ EndedOK' /\ EndIsComplete'
  BY <1>2, <1>4, <1>5, <1>8, <1>9, QueueThen
<1>11. Typed'
  BY <1>1, <1>2, <1>5, <1>8 DEF Typed, LogTyped, UserTyped, ActorTyped, WriterTyped, ClientTyped
<1> QED
  BY <1>3, <1>10, <1>11 DEF StreamInv

-----------------------------------------------------------------------------
(* The broadcasts *)

LEMMA DeliveredOne ==
  ASSUME NEW item
  PROVE  Delivered(<<item>>) = Deliver(chan, item)
BY DEF Delivered

LEMMA DeliveredTwo ==
  ASSUME NEW item, NEW next
  PROVE  Delivered(<<item, next>>) = Deliver(Deliver(chan, item), next)
BY DEF Delivered

LEMMA DeliverOff ==
  ASSUME NEW c, NEW item, ~ c.on
  PROVE  Deliver(c, item) = c
BY DEF Deliver

\* One item is broadcast.
LEMMA CastOne ==
  ASSUME StreamInv, Steady, UNCHANGED <<client, cursor>>, NEW item \in Items,
         chan' = Deliver(chan, item),
         item[1] = "entry" =>
           /\ item[2] \in DOMAIN rows' /\ rows'[item[2]] = item[3] /\ cast' = cast \cup {item[2]}
           /\ \A s \in DOMAIN rows' : s < item[2] => Given(s)' \/ s \in cast,
         item[1] = "complete" =>
           /\ Over(item[2])'
           /\ \A s \in DOMAIN rows' : rows'[s][3] \in 1..item[2] => s \in cast \/ rows'[s] \in unsure',
         item[1] # "entry" => cast' = cast
  PROVE  chan' \in Chans /\ QueueOK' /\ CursorMeansSeen' /\ EndedOK' /\ EndIsComplete'
<1>1. Typed /\ DenseOK /\ QueueOK
  BY DEF StreamInv
<1>2. PICK c, told, d, told2 : c = chan /\ told = cast /\ d = Deliver(c, item) /\ told2 = cast'
  OBVIOUS
<1>3. c \in Chans /\ told \subseteq Used /\ Carries(c, told)
  BY <1>1, <1>2 DEF Typed, DenseOK, QueueOK
<1>4. Carries(c, told)'
  BY <1>1, <1>3, SteadyCarries
<1>5. /\ item[1] = "entry" =>
           /\ item[2] \in DOMAIN rows' /\ rows'[item[2]] = item[3] /\ told2 = told \cup {item[2]}
           /\ \A s \in DOMAIN rows' : s < item[2] => Given(s)' \/ s \in told
      /\ item[1] = "complete" =>
           /\ Over(item[2])'
           /\ \A s \in DOMAIN rows' : rows'[s][3] \in 1..item[2] => s \in told \/ rows'[s] \in unsure'
      /\ item[1] # "entry" => told2 = told
  BY <1>2
<1>6. d \in Chans /\ Carries(d, told2)'
  BY <1>2, <1>3, <1>4, <1>5, DeliverCarries
<1>7. ~ chan.on => chan'.queue = chan.queue /\ ~ chan'.on
  BY <1>2, DeliverOff
<1>8. chan' = d /\ cast' = told2
  BY <1>2
<1> QED
  BY <1>6, <1>7, <1>8, QueueThen

\* A message has a turn.
LEMMA MessageParts ==
  ASSUME NEW m \in Messages \cup {<<"none", 0, 0>>}
  PROVE  m[2] \in Nat /\ m[3] \in Nat
BY DEF Messages

LEMMA AcceptedInv ==
  ASSUME StreamInv, Accepted
  PROVE  StreamInv'
<1>1. Typed /\ DenseOK /\ OwnOK /\ TurnOK /\ CastOK
  BY DEF StreamInv
<1>2. PICK u : u = Head(waiting)
  OBVIOUS
<1> DEFINE y == [user[u] EXCEPT !.at = "accepted"]
<1>3. PICK item : item = <<"entry", user[u].seq, UserEntry(u)>>
  OBVIOUS
<1>4. /\ driven = 0 /\ waiting # <<>> /\ waiting' = Tail(waiting)
      /\ turns' = turns + 1 /\ driven' = turns + 1
      /\ user' = [user EXCEPT ![u] = y]
      /\ CastEntry(user[u].seq, <<item>>)
      /\ UNCHANGED <<rows, freed, unsure, unread, writer, made, client, cursor, shown>>
  BY <1>2, <1>3 DEF Accepted, logVars, clientVars
<1>5. /\ chan' = Deliver(chan, item) /\ cast' = cast \cup {user[u].seq}
      /\ overtaken' = overtaken \cup {s \in DOMAIN rows : s < user[u].seq /\ s \notin cast}
  BY <1>4, DeliveredOne DEF CastEntry
<1>6. waiting \in Seq(Users) /\ Len(waiting) \in Nat /\ Len(waiting) > 0
  BY <1>1, <1>4 DEF Typed, ActorTyped
<1>7. u \in Users /\ waiting[1] = u /\ user[u].at = "sent"
  BY <1>1, <1>2, <1>6 DEF OwnOK
<1>8. user[u].seq \in DOMAIN rows /\ rows[user[u].seq] = UserEntry(u) /\ user[u].seq \in Nat
  BY <1>1, <1>7, LastSeqIs DEF OwnOK
<1>9. user[u] \in [at : {"new", "write", "send", "sent", "undo", "accepted", "failed", "left"}, seq : Int]
  BY <1>1, <1>7 DEF Typed, UserTyped
<1>10. /\ y \in [at : {"new", "write", "send", "sent", "undo", "accepted", "failed", "left"}, seq : Int]
       /\ y.at = "accepted"
  BY <1>9
<1> HIDE DEF y
<1>11. UserTyped' /\ user'[u] = y /\ \A w \in Users : w # u => user'[w] = user[w]
  BY <1>1, <1>4, <1>7, <1>10, UserStep
<1>12. /\ waiting' \in Seq(Users) /\ Len(waiting') = Len(waiting) - 1
       /\ \A i \in 1..Len(waiting') : i + 1 \in 1..Len(waiting) /\ waiting'[i] = waiting[i + 1]
  BY <1>4, <1>6
<1>13. \A i \in 1..Len(waiting') : waiting'[i] \in Users /\ waiting'[i] # u /\ user[waiting'[i]].at = "sent"
  <2> TAKE i \in 1..Len(waiting')
  <2>1. i + 1 \in 1..Len(waiting) /\ waiting'[i] = waiting[i + 1] /\ i + 1 # 1 /\ 1 \in 1..Len(waiting)
    BY <1>6, <1>12, SMTT(30)
  <2> QED
    BY <1>1, <1>6, <1>7, <2>1 DEF OwnOK
<1>14. OwnOK'
  <2>1. \A w \in Users : user'[w].at \in {"send", "sent", "undo"} =>
          user'[w].seq \in DOMAIN rows /\ rows[user'[w].seq] = UserEntry(w)
    BY <1>1, <1>10, <1>11 DEF OwnOK
  <2>2. \A i, j \in 1..Len(waiting') : waiting'[i] = waiting'[j] => i = j
    BY <1>1, <1>12 DEF OwnOK
  <2> QED
    BY <1>1, <1>4, <1>11, <1>13, <2>1, <2>2 DEF OwnOK
<1>15. turns \in Nat /\ \A turn \in Nat : \A k : After(turn, k) => After(turn, k)'
  <2>1. turns \in Nat
    BY <1>1 DEF Typed, ActorTyped
  <2>2. ASSUME NEW turn \in Nat, NEW k, After(turn, k) PROVE After(turn, k)'
    <3>1. turn <= turns
      BY <2>2 DEF After
    <3>2. turn <= turns + 1 /\ turn < turns + 1
      BY <2>1, <3>1
    <3> QED
      BY <1>4, <2>2, <3>2 DEF After
  <2> QED
    BY <2>1, <2>2
<1>16. Lasts
  BY <1>4, <1>15 DEF Lasts, Over
<1>17. TurnOK'
  <2>1. ASSUME NEW k \in 1..Len(unread)
        PROVE  /\ unread[k][1] # "crash" => unread[k][3] # 0
               /\ unread[k][1] \in {"completed", "result"} => (After(unread[k][3], k))'
    <3>1. PICK x \in Nat : x = unread[k][3]
      BY <1>1, MessageParts DEF Typed, ActorTyped
    <3>2. /\ unread[k][1] # "crash" => x # 0
          /\ unread[k][1] \in {"completed", "result"} => After(x, k)'
      BY <1>1, <1>15, <3>1 DEF TurnOK
    <3> QED
      BY <1>4, <3>1, <3>2 DEF After
  <2>2. (writer.at # "idle" /\ writer.msg[1] = "result" => After(writer.msg[3], 0))'
    <3>1. PICK x \in Nat : x = writer.msg[3]
      BY <1>1, MessageParts DEF Typed, WriterTyped
    <3>2. writer.at # "idle" /\ writer.msg[1] = "result" => After(x, 0)'
      BY <1>1, <1>15, <3>1 DEF TurnOK
    <3> QED
      BY <1>4, <3>1, <3>2 DEF After
  <2>3. driven' <= turns'
    BY <1>4, <1>15
  <2> QED
    BY <1>4, <2>1, <2>2, <2>3 DEF TurnOK
<1>18. Steady
  BY <1>1, <1>4, <1>5, <1>16, SameLog
<1>19. item \in Items /\ item[1] = "entry" /\ item[2] = user[u].seq /\ item[3] = UserEntry(u)
  BY <1>3, <1>7, <1>8, UserEntryIs DEF Items
<1>20. \A s \in DOMAIN rows' : s < item[2] => Given(s)' \/ s \in cast
  BY <1>4, <1>5, <1>19 DEF Given
<1>21. chan' \in Chans /\ QueueOK' /\ CursorMeansSeen' /\ EndedOK' /\ EndIsComplete'
  BY <1>4, <1>5, <1>8, <1>18, <1>19, <1>20, CastOne
<1>22. Typed'
  BY <1>1, <1>4, <1>11, <1>12, <1>15, <1>21, SMTT(40) DEF Typed, LogTyped, ActorTyped, WriterTyped, ClientTyped
<1>23. DenseOK'
  BY <1>1, <1>4, <1>5, <1>8, <1>10, <1>11 DEF DenseOK, Used
<1>24. CastOK'
  BY <1>1, <1>4, <1>5 DEF CastOK
<1> QED
  BY <1>14, <1>17, <1>21, <1>22, <1>23, <1>24 DEF StreamInv

\* A step of the actor's callback: a message into the inbox, an item into the queue.
LEMMA CallbackInv ==
  ASSUME StreamInv, NEW m \in Messages, NEW item, item \in {<<"raw">>, <<"result">>},
         unread' = Append(unread, m), Cast(<<item>>), made' \in Nat, driven' \in Nat,
         \/ driven # 0 /\ m[3] = driven /\ m[1] \in {"say", "echo"} /\ driven' = driven
         \/ driven # 0 /\ m[3] = driven /\ m[1] \in {"completed", "result"} /\ driven' = 0,
         UNCHANGED <<rows, freed, unsure, waiting, turns, writer, user, clientVars>>
  PROVE  StreamInv'
<1>1. Typed /\ DenseOK /\ OwnOK /\ TurnOK /\ CastOK
  BY DEF StreamInv
<1>2. UNCHANGED <<client, cursor, shown, overtaken, cast>> /\ chan' = Deliver(chan, item)
  BY DeliveredOne DEF Cast, clientVars
<1>3. Lasts /\ TurnOK' /\ unread' \in Seq(Messages)
  BY <1>1, AppendTurns
<1>4. Steady
  BY <1>1, <1>2, <1>3, SameLog
<1>5. item \in Items /\ item[1] # "entry" /\ item[1] # "complete"
  BY DEF Items
<1>6. chan' \in Chans /\ QueueOK' /\ CursorMeansSeen' /\ EndedOK' /\ EndIsComplete'
  BY <1>2, <1>4, <1>5, CastOne
<1>7. Typed'
  BY <1>1, <1>2, <1>3, <1>6 DEF Typed, LogTyped, UserTyped, ActorTyped, WriterTyped, ClientTyped
<1>8. DenseOK' /\ OwnOK' /\ CastOK'
  BY <1>1, <1>2 DEF DenseOK, Used, OwnOK, CastOK
<1> QED
  BY <1>3, <1>6, <1>7, <1>8 DEF StreamInv

LEMMA SpeaksInv ==
  ASSUME StreamInv, NEW kind \in {"say", "echo"}, Speaks(kind)
  PROVE  StreamInv'
<1>1. driven \in Nat /\ made \in Nat
  BY DEF StreamInv, Typed, ActorTyped
<1> DEFINE m == <<kind, made + 1, driven>>
<1>2. m \in Messages /\ m[1] \in {"say", "echo"} /\ m[3] = driven
  BY <1>1 DEF Messages
<1>3. /\ driven # 0 /\ made' = made + 1 /\ unread' = Append(unread, m) /\ Cast(<<<<"raw">>>>)
      /\ UNCHANGED <<rows, freed, unsure, waiting, driven, turns, writer, user, clientVars>>
  BY DEF Speaks, logVars
<1> HIDE DEF m
<1> QED
  BY <1>1, <1>2, <1>3, CallbackInv

LEMMA ResultsInv ==
  ASSUME StreamInv, NEW how \in {"completed", "result"}, Results(how)
  PROVE  StreamInv'
<1>1. driven \in Nat /\ made \in Nat
  BY DEF StreamInv, Typed, ActorTyped
<1> DEFINE m == <<how, 0, driven>>
<1>2. m \in Messages /\ m[1] \in {"completed", "result"} /\ m[3] = driven
  BY <1>1 DEF Messages
<1>3. /\ driven # 0 /\ made' = made /\ driven' = 0 /\ unread' = Append(unread, m) /\ Cast(<<<<"result">>>>)
      /\ UNCHANGED <<rows, freed, unsure, waiting, turns, writer, user, clientVars>>
  BY DEF Results, logVars
<1> HIDE DEF m
<1> QED
  BY <1>1, <1>2, <1>3, CallbackInv

-----------------------------------------------------------------------------
(* The inbox processor *)

\* The writer gives its message up, or goes on with it.
LEMMA WriterTurns ==
  ASSUME TurnOK, UNCHANGED <<turns, driven, unread>>,
         writer' = IdleWriter \/ (writer.at # "idle" /\ writer'.msg = writer.msg)
  PROVE  Lasts /\ TurnOK'
<1>1. IdleWriter.at = "idle"
  BY DEF IdleWriter
<1>2. \A turn, k : After(turn, k) => After(turn, k)'
  BY DEF After
<1>3. Lasts
  BY <1>1, <1>2 DEF Lasts, Over
<1>4. ASSUME NEW k \in 1..Len(unread)
      PROVE  /\ unread[k][1] # "crash" => unread[k][3] # 0
             /\ unread[k][1] \in {"completed", "result"} => (After(unread[k][3], k))'
  BY DEF TurnOK, After
<1>5. (writer.at # "idle" /\ writer.msg[1] = "result" => After(writer.msg[3], 0))'
  BY <1>1 DEF TurnOK, After
<1> QED
  BY <1>3, <1>4, <1>5 DEF TurnOK

LEMMA IdleTyped == IdleWriter \in [at : {"idle", "tail", "read", "write", "cast"},
                                   msg : Messages \cup {<<"none", 0, 0>>}, seq : Int]
BY DEF IdleWriter

\* The next message leaves the inbox, for the writer unless it is finished at once.
LEMMA TakeTurns ==
  ASSUME Typed, TurnOK, writer.at = "idle", unread # <<>>, NEW m, m = Head(unread), unread' = Tail(unread),
         UNCHANGED <<turns, driven>>,
         writer' = writer \/ (m[1] \notin {"crash", "completed"} /\ writer'.msg = m)
  PROVE  /\ Lasts /\ TurnOK' /\ unread' \in Seq(Messages) /\ m \in Messages
         /\ m[1] # "crash" => m[3] # 0
         /\ m[1] \in {"completed", "result"} => After(m[3], 0)'
<1>1. /\ unread \in Seq(Messages) /\ Len(unread) \in Nat /\ Len(unread) > 0 /\ m = unread[1]
  BY DEF Typed, ActorTyped
<1>2. /\ unread' \in Seq(Messages) /\ Len(unread') = Len(unread) - 1
      /\ \A i \in 1..Len(unread') : i + 1 \in 1..Len(unread) /\ unread'[i] = unread[i + 1]
  BY <1>1
<1>3. 1 \in 1..Len(unread) /\ m \in Messages /\ m[3] \in Nat
  BY <1>1, MessageParts
<1>4. m[1] # "crash" => m[3] # 0
  BY <1>1, <1>3 DEF TurnOK
<1>5. \A turn : \A k \in Nat : After(turn, k + 1) => After(turn, k)'
  BY <1>1, <1>2 DEF After
<1>6. \A turn : After(turn, 0) => After(turn, 0)'
  BY <1>1, <1>2 DEF After
<1>7. m[1] \in {"completed", "result"} => After(m[3], 0)'
  <2>1. m[1] \in {"completed", "result"} => After(m[3], 0 + 1)
    BY <1>1, <1>3 DEF TurnOK
  <2> QED
    BY <1>5, <2>1
<1>8. Lasts
  <2> SUFFICES ASSUME NEW turn \in Nat, Over(turn) PROVE Over(turn)'
    BY DEF Lasts
  <2>1. After(turn, 0)'
    BY <1>6 DEF Over
  <2>2. m[3] = 0 \/ m[3] > turn
    BY <1>1, <1>3 DEF Over, After
  <2>3. writer'.at # "idle" => writer'.msg[3] > turn
    BY <1>4, <2>2
  <2> QED
    BY <2>1, <2>3 DEF Over
<1>9. ASSUME NEW k \in 1..Len(unread')
      PROVE  (/\ unread[k][1] # "crash" => unread[k][3] # 0
              /\ unread[k][1] \in {"completed", "result"} => After(unread[k][3], k))'
  <2>1. PICK x : x = unread[k + 1]
    OBVIOUS
  <2>2. /\ x[1] # "crash" => x[3] # 0
        /\ x[1] \in {"completed", "result"} => After(x[3], k + 1)
    BY <1>2, <2>1 DEF TurnOK
  <2>3. x[1] \in {"completed", "result"} => After(x[3], k)'
    BY <1>1, <1>2, <1>5, <2>2
  <2>4. unread'[k] = x
    BY <1>2, <2>1
  <2> QED
    BY <2>2, <2>3, <2>4 DEF After
<1>10. (writer.at # "idle" /\ writer.msg[1] = "result" => After(writer.msg[3], 0))'
  <2>1. writer'.at # "idle" => writer'.msg = m
    OBVIOUS
  <2> QED
    BY <1>7, <2>1 DEF After
<1>11. (driven <= turns)'
  BY DEF TurnOK
<1> QED
  BY <1>2, <1>3, <1>4, <1>7, <1>8, <1>9, <1>10, <1>11 DEF TurnOK

\* The announcement of the end of a turn, when all of that turn was announced.
LEMMA CompleteCast ==
  ASSUME StreamInv, NEW turn \in Nat, Cast(<<<<"complete", turn>>>>), Over(turn)', Lasts,
         writer.at # "cast", UNCHANGED <<rows, freed, unsure, clientVars>>
  PROVE  /\ chan' \in Chans /\ QueueOK' /\ CursorMeansSeen' /\ EndedOK' /\ EndIsComplete'
         /\ UNCHANGED <<cast, overtaken>>
<1>1. Typed /\ CastOK
  BY DEF StreamInv
<1>2. PICK item : item = <<"complete", turn>>
  OBVIOUS
<1>3. UNCHANGED <<client, cursor, shown, overtaken, cast>> /\ chan' = Deliver(chan, item)
  BY <1>2, DeliveredOne DEF Cast, clientVars
<1>4. Steady
  BY <1>1, <1>3, SameLog
<1>5. item \in Items /\ item[1] = "complete" /\ item[2] = turn
  BY <1>2 DEF Items
<1>6. \A s \in DOMAIN rows' : rows'[s][3] \in 1..turn => s \in cast \/ rows'[s] \in unsure'
  BY <1>1 DEF CastOK
<1>7. Over(item[2])'
  BY <1>5
<1>8. chan' \in Chans /\ QueueOK' /\ CursorMeansSeen' /\ EndedOK' /\ EndIsComplete'
  BY <1>3, <1>4, <1>5, <1>6, <1>7, CastOne
<1> QED
  BY <1>3, <1>8

LEMMA TakeMessageInv ==
  ASSUME StreamInv, TakeMessage
  PROVE  StreamInv'
<1>1. Typed /\ DenseOK /\ OwnOK /\ TurnOK /\ CastOK
  BY DEF StreamInv
<1>2. PICK m : m = Head(unread)
  OBVIOUS
<1>3. /\ writer.at = "idle" /\ unread # <<>> /\ unread' = Tail(unread)
      /\ UNCHANGED <<rows, freed, unsure, turns, driven, waiting, made, user, client, cursor, shown, clientVars>>
  BY DEF TakeMessage, writerOthers, logVars, clientVars
<1>4. CASE m[1] \in {"crash", "completed"}
  <2>1. writer' = writer
    BY <1>2, <1>4 DEF TakeMessage
  <2>2. /\ Lasts /\ TurnOK' /\ unread' \in Seq(Messages) /\ m \in Messages
        /\ m[1] \in {"completed", "result"} => After(m[3], 0)'
    BY <1>1, <1>2, <1>3, <2>1, TakeTurns
  <2>3. /\ chan' \in Chans /\ QueueOK' /\ CursorMeansSeen' /\ EndedOK' /\ EndIsComplete'
        /\ UNCHANGED <<cast, overtaken>>
    <3>1. CASE m[1] = "crash"
      <4>1. PICK item : item = <<"runtime">>
        OBVIOUS
      <4>2. Cast(<<item>>)
        BY <1>2, <3>1, <4>1 DEF TakeMessage
      <4>3. UNCHANGED <<overtaken, cast>> /\ chan' = Deliver(chan, item)
        BY <4>2, DeliveredOne DEF Cast
      <4>4. Steady
        BY <1>1, <1>3, <2>2, <4>3, SameLog
      <4>5. item \in Items /\ item[1] # "entry" /\ item[1] # "complete"
        BY <4>1 DEF Items
      <4>6. chan' \in Chans /\ QueueOK' /\ CursorMeansSeen' /\ EndedOK' /\ EndIsComplete'
        BY <1>3, <4>3, <4>4, <4>5, CastOne
      <4> QED
        BY <4>3, <4>6
    <3>2. CASE m[1] = "completed"
      <4>1. PICK turn : turn = m[3]
        OBVIOUS
      <4>2. turn \in Nat /\ Over(turn)'
        BY <1>3, <2>1, <2>2, <3>2, <4>1, MessageParts DEF Over
      <4>3. Cast(<<<<"complete", turn>>>>)
        BY <1>2, <3>2, <4>1 DEF TakeMessage
      <4> QED
        BY <1>3, <2>2, <4>2, <4>3, CompleteCast
    <3> QED
      BY <1>4, <3>1, <3>2
  <2>4. Typed'
    BY <1>1, <1>3, <2>1, <2>2, <2>3 DEF Typed, LogTyped, UserTyped, ActorTyped, WriterTyped, ClientTyped
  <2>5. DenseOK' /\ OwnOK' /\ CastOK'
    BY <1>1, <1>3, <2>1, <2>3 DEF DenseOK, Used, OwnOK, CastOK
  <2> QED
    BY <2>2, <2>3, <2>4, <2>5 DEF StreamInv
<1>5. CASE m[1] \notin {"crash", "completed"}
  <2>1. /\ UNCHANGED castVars
        /\ \E at \in {"tail", "read"} : writer' = [at |-> at, msg |-> m, seq |-> -1]
    BY <1>2, <1>5 DEF TakeMessage
  <2>2. writer'.at \in {"tail", "read"} /\ writer'.msg = m
    BY <2>1
  <2>3. /\ Lasts /\ TurnOK' /\ unread' \in Seq(Messages) /\ m \in Messages
        /\ m[1] # "crash" => m[3] # 0
    BY <1>1, <1>2, <1>3, <1>5, <2>2, TakeTurns
  <2>4. m[1] \in {"say", "echo", "result"} /\ m[3] # 0
    BY <1>5, <2>3 DEF Messages
  <2>5. Typed'
    BY <1>1, <1>3, <2>1, <2>3, SMTT(40) DEF Typed, LogTyped, UserTyped, ActorTyped, WriterTyped, ClientTyped, castVars
  <2>6. DenseOK' /\ OwnOK' /\ CastOK'
    BY <1>1, <1>3, <2>1, <2>2, <2>4 DEF DenseOK, Used, OwnOK, CastOK, castVars
  <2> QED
    BY <1>3, <2>1, <2>3, <2>5, <2>6, QuietInv
<1> QED
  BY <1>4, <1>5

LEMMA ChecksTailInv ==
  ASSUME StreamInv, ChecksTail
  PROVE  StreamInv'
<1>1. Typed /\ DenseOK /\ OwnOK /\ TurnOK /\ CastOK
  BY DEF StreamInv
<1>2. PICK m : m = writer.msg
  OBVIOUS
<1>3. /\ writer.at = "tail"
      /\ writer' = IdleWriter \/ writer' = [writer EXCEPT !.at = "read"]
      /\ UNCHANGED <<rows, freed, unsure, turns, driven, unread, waiting, made, user, client, cursor, shown, clientVars>>
      /\ \/ UNCHANGED castVars
         \/ m[1] = "result" /\ writer' = IdleWriter /\ Cast(<<<<"complete", m[3]>>>>)
  BY <1>2 DEF ChecksTail, writerOthers, logVars, clientVars
<1>4. writer \in [at : {"idle", "tail", "read", "write", "cast"}, msg : Messages \cup {<<"none", 0, 0>>}, seq : Int]
  BY <1>1 DEF Typed, WriterTyped
<1>5. /\ WriterTyped'
      /\ writer'.at \in {"idle", "read"} /\ (writer'.at # "idle" => writer'.msg = writer.msg)
      /\ writer' = IdleWriter \/ writer'.msg = writer.msg
  <2>1. CASE writer' = IdleWriter
    BY <2>1, IdleTyped DEF WriterTyped, IdleWriter
  <2>2. CASE writer' = [writer EXCEPT !.at = "read"]
    BY <1>4, <2>2 DEF WriterTyped
  <2> QED
    BY <1>3, <2>1, <2>2
<1>6. Lasts /\ TurnOK'
  BY <1>1, <1>3, <1>5, WriterTurns
<1>7. CASE UNCHANGED castVars
  <2>1. Typed'
    BY <1>1, <1>3, <1>5, <1>7 DEF Typed, LogTyped, UserTyped, ActorTyped, ClientTyped, castVars
  <2>2. DenseOK' /\ OwnOK' /\ CastOK'
    BY <1>1, <1>3, <1>5, <1>7 DEF DenseOK, Used, OwnOK, CastOK, castVars
  <2> QED
    BY <1>3, <1>6, <1>7, <2>1, <2>2, QuietInv
<1>8. CASE m[1] = "result" /\ writer' = IdleWriter /\ Cast(<<<<"complete", m[3]>>>>)
  <2>1. PICK turn : turn = m[3]
    OBVIOUS
  <2>2. turn \in Nat
    BY <1>2, <1>4, <2>1, MessageParts
  <2>3. After(turn, 0)
    BY <1>1, <1>2, <1>3, <1>8, <2>1 DEF TurnOK
  <2>4. Over(turn)'
    BY <1>3, <1>8, <2>3 DEF Over, After, IdleWriter
  <2>5. /\ chan' \in Chans /\ QueueOK' /\ CursorMeansSeen' /\ EndedOK' /\ EndIsComplete'
        /\ UNCHANGED <<cast, overtaken>>
    BY <1>3, <1>6, <1>8, <2>1, <2>2, <2>4, CompleteCast
  <2>6. Typed'
    BY <1>1, <1>3, <1>5, <2>5 DEF Typed, LogTyped, UserTyped, ActorTyped, ClientTyped
  <2>7. DenseOK' /\ OwnOK' /\ CastOK'
    BY <1>1, <1>3, <1>5, <2>5 DEF DenseOK, Used, OwnOK, CastOK
  <2> QED
    BY <1>6, <2>5, <2>6, <2>7 DEF StreamInv
<1> QED
  BY <1>3, <1>7, <1>8

LEMMA ReadsSeqInv ==
  ASSUME StreamInv, ReadsSeq
  PROVE  StreamInv'
<1>1. Typed /\ DenseOK /\ OwnOK /\ TurnOK /\ CastOK
  BY DEF StreamInv
<1>2. /\ writer.at = "read" /\ writer' = [writer EXCEPT !.at = "write", !.seq = LastSeq + 1]
      /\ UNCHANGED <<rows, freed, unsure, turns, driven, unread, waiting, made, user, client, cursor, shown, castVars, clientVars>>
  BY DEF ReadsSeq, writerOthers, logVars, clientVars
<1>3. LastSeq + 1 \in Nat
  BY <1>1, NextSeq
<1>4. WriterTyped' /\ writer'.at = "write" /\ writer'.msg = writer.msg /\ writer'.seq = LastSeq + 1
  <2>1. PICK n \in Nat : n = LastSeq + 1
    BY <1>3
  <2>2. writer' = [writer EXCEPT !.at = "write", !.seq = n]
    BY <1>2, <2>1
  <2>3. writer' = [at |-> "write", msg |-> writer.msg, seq |-> n]
    BY <1>1, <2>2 DEF Typed, WriterTyped
  <2>4. WriterTyped' /\ writer'.at = "write" /\ writer'.msg = writer.msg /\ writer'.seq = n
    BY <1>1, <2>3 DEF Typed, WriterTyped
  <2> QED
    BY <2>1, <2>4
<1>5. Lasts /\ TurnOK'
  BY <1>1, <1>2, <1>4, WriterTurns
<1>6. Typed'
  BY <1>1, <1>2, <1>4 DEF Typed, LogTyped, UserTyped, ActorTyped, ClientTyped, castVars
<1>7. writer'.seq \in Nat /\ 0..(writer'.seq - 1) \subseteq Used
  BY <1>1, <1>4, NextSeq
<1>8. DenseOK'
  BY <1>1, <1>2, <1>7 DEF DenseOK, Used, castVars
<1>9. OwnOK' /\ CastOK'
  BY <1>1, <1>2, <1>4 DEF OwnOK, CastOK, castVars
<1> QED
  BY <1>2, <1>5, <1>6, <1>8, <1>9, QuietInv

LEMMA WriteFailsInv ==
  ASSUME StreamInv, WriteFails
  PROVE  StreamInv'
<1>1. Typed /\ DenseOK /\ OwnOK /\ TurnOK /\ CastOK
  BY DEF StreamInv
<1>2. /\ writer.at = "write"
      /\ writer' = IdleWriter \/ writer' = [writer EXCEPT !.at = "read"]
      /\ UNCHANGED <<freed, turns, driven, unread, waiting, made, user, client, cursor, shown, cast, chan, castVars, clientVars>>
  BY DEF WriteFails, actorSide, clientVars, castVars
<1>3. PICK m, p : m = writer.msg /\ p = writer.seq
  OBVIOUS
<1>4. p \in Nat /\ 0..(p - 1) \subseteq Used /\ m[1] \in {"say", "echo", "result"} /\ m[3] # 0
  BY <1>1, <1>2, <1>3 DEF DenseOK, OwnOK
<1>5. writer \in [at : {"idle", "tail", "read", "write", "cast"}, msg : Messages \cup {<<"none", 0, 0>>}, seq : Int]
  BY <1>1 DEF Typed, WriterTyped
<1>6. m \in Entries
  BY <1>3, <1>4, <1>5 DEF Messages, Entries
<1>7. /\ WriterTyped' /\ writer'.at \in {"idle", "read"}
      /\ writer'.at = "read" => writer'.msg = m
      /\ writer' = IdleWriter \/ writer'.msg = writer.msg
  <2>1. CASE writer' = IdleWriter
    BY <2>1, IdleTyped DEF WriterTyped, IdleWriter
  <2>2. CASE writer' = [writer EXCEPT !.at = "read"]
    BY <1>3, <1>5, <2>2 DEF WriterTyped
  <2> QED
    BY <1>2, <2>1, <2>2
<1>8. Lasts /\ TurnOK'
  BY <1>1, <1>2, <1>7, WriterTurns
<1>9. CASE UNCHANGED <<rows, unsure>>
  <2>1. Typed'
    BY <1>1, <1>2, <1>7, <1>9 DEF Typed, LogTyped, UserTyped, ActorTyped, ClientTyped
  <2>2. DenseOK' /\ OwnOK' /\ CastOK'
    BY <1>1, <1>2, <1>3, <1>4, <1>7, <1>9 DEF DenseOK, Used, OwnOK, CastOK
  <2> QED
    BY <1>2, <1>8, <1>9, <2>1, <2>2, QuietInv
<1>10. CASE p \notin DOMAIN rows /\ rows' = WithRow(p, m) /\ unsure' = unsure \cup {m}
  <2>1. \A turn \in Nat : Over(turn) => m[3] \notin 1..turn
    BY <1>2, <1>3 DEF Over
  <2>2. /\ LogTyped' /\ QueueOK' /\ CursorMeansSeen' /\ EndedOK' /\ EndIsComplete'
        /\ DOMAIN rows' = DOMAIN rows \cup {p} /\ rows'[p] = m
        /\ \A s \in DOMAIN rows : rows'[s] = rows[s]
        /\ \A s \in Used' : \A x \in 0..(s - 1) : x \in Used'
        /\ Used \subseteq Used'
    BY <1>2, <1>4, <1>6, <1>8, <1>10, <2>1, Inserted
  <2>3. Typed'
    BY <1>1, <1>2, <1>7, <2>2 DEF Typed, UserTyped, ActorTyped, ClientTyped
  <2>4. DenseOK'
    BY <1>1, <1>2, <1>7, <2>2 DEF DenseOK
  <2>5. OwnOK'
    BY <1>1, <1>2, <1>4, <1>7, <2>2 DEF OwnOK
  <2>6. CastOK'
    BY <1>1, <1>2, <1>10, <2>2 DEF CastOK
  <2> QED
    BY <1>8, <2>2, <2>3, <2>4, <2>5, <2>6 DEF StreamInv
<1> QED
  BY <1>3, <1>9, <1>10 DEF WriteFails

LEMMA WritesInv ==
  ASSUME StreamInv, Writes
  PROVE  StreamInv'
<1>1. Typed /\ DenseOK /\ OwnOK /\ TurnOK /\ CastOK
  BY DEF StreamInv
<1>2. /\ writer.at = "write"
      /\ UNCHANGED <<freed, unsure, turns, driven, unread, waiting, made, user, client, cursor, shown, cast, chan, castVars, clientVars>>
  BY DEF Writes, logVars, actorSide, clientVars, castVars
<1>3. PICK m, p : m = writer.msg /\ p = writer.seq
  OBVIOUS
<1>4. p \in Nat /\ 0..(p - 1) \subseteq Used /\ m[1] \in {"say", "echo", "result"} /\ m[3] # 0
  BY <1>1, <1>2, <1>3 DEF DenseOK, OwnOK
<1>5. writer \in [at : {"idle", "tail", "read", "write", "cast"}, msg : Messages \cup {<<"none", 0, 0>>}, seq : Int]
  BY <1>1 DEF Typed, WriterTyped
<1>6. m \in Entries
  BY <1>3, <1>4, <1>5 DEF Messages, Entries
<1>7. CASE writer' = [writer EXCEPT !.at = "read"] /\ rows' = rows
  <2>1. writer' = [writer EXCEPT !.at = "read"] /\ rows' = rows
    BY <1>7
  <2>2. WriterTyped' /\ writer'.at = "read" /\ writer'.msg = writer.msg
    BY <1>5, <2>1 DEF WriterTyped
  <2>3. Lasts /\ TurnOK'
    BY <1>1, <1>2, <2>2, WriterTurns
  <2>4. Typed'
    BY <1>1, <1>2, <2>1, <2>2 DEF Typed, LogTyped, UserTyped, ActorTyped, ClientTyped
  <2>5. DenseOK' /\ OwnOK' /\ CastOK'
    BY <1>1, <1>2, <2>1, <2>2 DEF DenseOK, Used, OwnOK, CastOK
  <2> QED
    BY <1>2, <2>1, <2>3, <2>4, <2>5, QuietInv
<1>8. CASE p \notin DOMAIN rows /\ writer' = [writer EXCEPT !.at = "cast"] /\ rows' = WithRow(p, m)
  <2>1. writer' = [writer EXCEPT !.at = "cast"] /\ rows' = WithRow(p, m)
    BY <1>8
  <2>2. WriterTyped' /\ writer'.at = "cast" /\ writer'.msg = m /\ writer'.seq = p
    BY <1>3, <1>5, <2>1 DEF WriterTyped
  <2>3. Lasts /\ TurnOK'
    BY <1>1, <1>2, <1>3, <2>2, WriterTurns
  <2>4. \A turn \in Nat : Over(turn) => m[3] \notin 1..turn
    BY <1>2, <1>3 DEF Over
  <2>5. /\ LogTyped' /\ QueueOK' /\ CursorMeansSeen' /\ EndedOK' /\ EndIsComplete'
        /\ DOMAIN rows' = DOMAIN rows \cup {p} /\ rows'[p] = m
        /\ \A s \in DOMAIN rows : rows'[s] = rows[s]
        /\ \A s \in Used' : \A x \in 0..(s - 1) : x \in Used'
        /\ Used \subseteq Used'
    BY <1>2, <1>4, <1>6, <1>8, <2>1, <2>3, <2>4, Inserted
  <2>6. Typed'
    BY <1>1, <1>2, <2>2, <2>5 DEF Typed, UserTyped, ActorTyped, ClientTyped
  <2>7. DenseOK'
    BY <1>1, <1>2, <2>2, <2>5 DEF DenseOK
  <2>8. OwnOK'
    BY <1>1, <1>2, <1>4, <2>2, <2>5 DEF OwnOK
  <2>9. CastOK'
    BY <1>1, <1>2, <2>2, <2>5 DEF CastOK
  <2> QED
    BY <2>3, <2>5, <2>6, <2>7, <2>8, <2>9 DEF StreamInv
<1> QED
  BY <1>3, <1>7, <1>8 DEF Writes

LEMMA BroadcastsInv ==
  ASSUME StreamInv, Broadcasts
  PROVE  StreamInv'
<1>1. Typed /\ DenseOK /\ OwnOK /\ TurnOK /\ CastOK /\ QueueOK
  BY DEF StreamInv
<1>2. PICK m, p : m = writer.msg /\ p = writer.seq
  OBVIOUS
<1>3. PICK item, next : item = <<"entry", p, m>> /\ next = <<"complete", m[3]>>
  OBVIOUS
<1>4. /\ writer.at = "cast" /\ writer' = IdleWriter
      /\ CastEntry(p, AfterWrite(p, m))
      /\ UNCHANGED <<rows, freed, unsure, turns, driven, unread, waiting, made, user, client, cursor, shown>>
  BY <1>2 DEF Broadcasts, writerOthers, logVars, clientVars
<1>5. /\ cast' = cast \cup {p}
      /\ overtaken' = overtaken \cup {s \in DOMAIN rows : s < p /\ s \notin cast}
      /\ chan' = Delivered(AfterWrite(p, m))
  BY <1>4 DEF CastEntry
<1>6. /\ p \in DOMAIN rows /\ rows[p] = m /\ p \in Nat
      /\ m[1] \in {"say", "echo", "result"} /\ m[3] # 0
  BY <1>1, <1>2, <1>4, LastSeqIs DEF OwnOK
<1>7. m \in Entries /\ m[3] \in Nat
  <2>1. m \in Messages \cup {<<"none", 0, 0>>}
    BY <1>1, <1>2 DEF Typed, WriterTyped
  <2> QED
    BY <1>6, <2>1, MessageParts DEF Messages, Entries
<1>8. WriterTyped' /\ writer'.at = "idle"
  BY <1>4, IdleTyped DEF WriterTyped, IdleWriter
<1>9. Lasts /\ TurnOK'
  BY <1>1, <1>4, WriterTurns
<1>10. Steady
  BY <1>1, <1>4, <1>5, <1>9, SameLog
<1>11. item \in Items /\ item[1] = "entry" /\ item[2] = p /\ item[3] = m
  BY <1>3, <1>6, <1>7 DEF Items
<1>12. \A s \in DOMAIN rows' : s < p => Given(s)' \/ s \in cast
  BY <1>4, <1>5 DEF Given
<1>13. chan' \in Chans /\ QueueOK' /\ CursorMeansSeen' /\ EndedOK' /\ EndIsComplete'
  <2>1. CASE m[1] # "result"
    <3>1. AfterWrite(p, m) = <<item>>
      BY <1>3, <2>1 DEF AfterWrite
    <3>2. chan' = Deliver(chan, item)
      BY <1>5, <3>1, DeliveredOne
    <3> QED
      BY <1>4, <1>5, <1>6, <1>10, <1>11, <1>12, <3>2, CastOne
  <2>2. CASE m[1] = "result"
    <3>1. AfterWrite(p, m) = <<item, next>>
      BY <1>3, <2>2 DEF AfterWrite
    <3>2. PICK c, told, d, told2, e : /\ c = chan /\ told = cast /\ d = Deliver(c, item)
                                      /\ told2 = told \cup {p} /\ e = Deliver(d, next)
      OBVIOUS
    <3>3. chan' = e /\ cast' = told2
      BY <1>5, <3>1, <3>2, DeliveredTwo
    <3>4. c \in Chans /\ told \subseteq Used /\ Carries(c, told)
      BY <1>1, <3>2 DEF Typed, DenseOK, QueueOK
    <3>5. Carries(c, told)'
      BY <1>1, <1>10, <3>4, SteadyCarries
    <3>6. /\ item[2] \in DOMAIN rows' /\ rows'[item[2]] = item[3] /\ told2 = told \cup {item[2]}
          /\ \A s \in DOMAIN rows' : s < item[2] => Given(s)' \/ s \in told
      BY <1>4, <1>6, <1>11, <1>12, <3>2
    <3>7. d \in Chans /\ Carries(d, told2)'
      BY <1>11, <3>2, <3>4, <3>5, <3>6, DeliverCarries
    <3>8. next \in Items /\ next[1] = "complete" /\ next[2] = m[3]
      BY <1>3, <1>7 DEF Items
    <3>9. Over(next[2])'
      <4>1. After(m[3], 0)
        BY <1>1, <1>2, <1>4, <2>2 DEF TurnOK
      <4>2. PICK x : x = m[3]
        OBVIOUS
      <4>3. Over(x)'
        BY <1>4, <1>8, <4>1, <4>2 DEF Over, After
      <4> QED
        BY <3>8, <4>2, <4>3
    <3>10. \A s \in DOMAIN rows' : rows'[s][3] \in 1..next[2] => s \in told2 \/ rows'[s] \in unsure'
      <4> SUFFICES ASSUME NEW s \in DOMAIN rows', rows'[s][3] \in 1..next[2], rows'[s] \notin unsure'
                   PROVE  s \in told2
        OBVIOUS
      <4>1. rows'[s][3] # 0
        BY <1>7, <3>8
      <4> QED
        BY <1>1, <1>2, <1>4, <3>2, <4>1 DEF CastOK
    <3>11. e \in Chans /\ Carries(e, told2)'
      BY <3>2, <3>7, <3>8, <3>9, <3>10, DeliverCarries
    <3>12. ~ chan.on => chan'.queue = chan.queue /\ ~ chan'.on
      BY <3>2, <3>3, DeliverOff
    <3>13. QueueOK' /\ CursorMeansSeen' /\ EndedOK' /\ EndIsComplete'
      BY <1>4, <1>10, <3>3, <3>11, <3>12, QueueThen
    <3> QED
      BY <3>3, <3>11, <3>13
  <2> QED
    BY <2>1, <2>2
<1>14. Typed'
  BY <1>1, <1>4, <1>8, <1>13 DEF Typed, LogTyped, UserTyped, ActorTyped, ClientTyped
<1>15. DenseOK'
  BY <1>1, <1>4, <1>5, <1>6, <1>8 DEF DenseOK, Used
<1>16. OwnOK'
  BY <1>1, <1>4, <1>8 DEF OwnOK
<1>17. CastOK'
  BY <1>1, <1>2, <1>4, <1>5 DEF CastOK
<1> QED
  BY <1>9, <1>13, <1>14, <1>15, <1>16, <1>17 DEF StreamInv

-----------------------------------------------------------------------------
(* The client *)

\* What a client step leaves alone keeps its part of the invariant.
LEMMA ClientFrame ==
  ASSUME StreamInv, UNCHANGED clientOthers, ClientTyped', chan' \in Chans,
         cursor' = -1 \/ cursor' \in Used
  PROVE  Typed' /\ DenseOK' /\ OwnOK' /\ TurnOK' /\ CastOK' /\ Lasts
<1>1. Typed /\ DenseOK /\ OwnOK /\ TurnOK /\ CastOK
  BY DEF StreamInv
<1>2. UNCHANGED <<rows, freed, unsure, waiting, driven, turns, made, unread, cast, user, writer>>
  BY DEF clientOthers, logVars, actorSide
<1>3. Typed'
  BY <1>1, <1>2 DEF Typed, LogTyped, UserTyped, ActorTyped, WriterTyped
<1>4. DenseOK' /\ OwnOK' /\ TurnOK' /\ CastOK'
  BY <1>1, <1>2 DEF DenseOK, Used, OwnOK, TurnOK, After, CastOK
<1>5. Lasts
  BY <1>2, SameTurns
<1> QED
  BY <1>3, <1>4, <1>5

\* The stream ends, but not with the end of a turn.
LEMMA EndsInv ==
  ASSUME StreamInv, UNCHANGED <<clientOthers, cursor, shown>>, chan' = Unsubscribed,
         NEW by \in Endings, by # "complete", Ends(by, 0)
  PROVE  StreamInv'
<1>1. Typed /\ DenseOK /\ CursorMeansSeen
  BY DEF StreamInv
<1>2. client'.at = "ended" /\ client'.by = by /\ ClientTyped'
  BY <1>1 DEF Typed, ClientTyped, Ends
<1>3. chan' \in Chans /\ chan'.queue = <<>> /\ chan'.on = FALSE
  BY DEF Unsubscribed, Chans
<1>4. Typed' /\ DenseOK' /\ OwnOK' /\ TurnOK' /\ CastOK' /\ Lasts
  BY <1>1, <1>2, <1>3, ClientFrame DEF DenseOK
<1>5. QueueOK'
  BY <1>3 DEF QueueOK, Carries
<1>6. CursorMeansSeen'
  BY <1>1 DEF CursorMeansSeen, clientOthers, logVars
<1>7. EndedOK' /\ EndIsComplete'
  BY <1>2 DEF EndedOK, EndIsComplete
<1> QED
  BY <1>4, <1>5, <1>6, <1>7 DEF StreamInv

LEMMA OpensInv ==
  ASSUME StreamInv, Opens
  PROVE  StreamInv'
<1>1. Typed /\ DenseOK /\ CursorMeansSeen /\ QueueOK
  BY DEF StreamInv
<1>2. /\ client.at \in {"off", "ended"} /\ UNCHANGED <<clientOthers, cursor, shown>>
      /\ \/ client' = Begins("list") /\ chan' = Subscribed
         \/ client' = Begins("all") /\ chan' = chan
  BY DEF Opens
<1>3. UNCHANGED <<rows, freed, unsure, cast, overtaken, cursor, shown>>
  BY <1>2 DEF clientOthers, logVars
<1>4. client'.at \in {"list", "all"} /\ ClientTyped'
  <2>1. CASE client' = Begins("list")
    BY <1>1, <1>2, <2>1 DEF Typed, ClientTyped, Endings, Begins
  <2>2. CASE client' = Begins("all")
    BY <1>1, <1>2, <2>2 DEF Typed, ClientTyped, Endings, Begins
  <2> QED
    BY <1>2, <2>1, <2>2
<1>5. chan.queue = <<>> /\ chan.on = FALSE /\ chan \in Chans
  BY <1>1, <1>2 DEF QueueOK, Typed
<1>6. chan' \in Chans /\ chan'.queue = <<>> /\ (client'.at = "all" => chan'.on = FALSE)
  <2>1. CASE client' = Begins("list") /\ chan' = Subscribed
    <3>1. client'.at = "list" /\ chan'.queue = <<>> /\ <<>> \in Seq(Items)
      BY <2>1 DEF Subscribed, Begins
    <3> QED
      BY <2>1, <3>1 DEF Subscribed, Chans
  <2>2. CASE chan' = chan
    BY <1>5, <2>2
  <2> QED
    BY <1>2, <2>1, <2>2
<1>7. Typed' /\ DenseOK' /\ OwnOK' /\ TurnOK' /\ CastOK' /\ Lasts
  BY <1>1, <1>2, <1>4, <1>6, ClientFrame DEF DenseOK
<1>8. CursorMeansSeen'
  BY <1>1, <1>3 DEF CursorMeansSeen
<1>9. EndedOK' /\ EndIsComplete'
  BY <1>4 DEF EndedOK, EndIsComplete
<1>10. QueueOK'
  <2>1. ASSUME chan'.on, NEW s \in DOMAIN rows'
        PROVE  Given(s)' \/ (client'.at = "list" /\ s > cursor')
    <3>1. client'.at = "list"
      BY <1>4, <1>6, <2>1
    <3>2. s \in Nat /\ cursor \in Int
      BY <1>1, <1>3, LastSeqIs DEF Typed, ClientTyped
    <3> QED
      BY <1>3, <1>8, <3>1, <3>2 DEF CursorMeansSeen, Given
  <2>2. Len(chan'.queue) = 0
    BY <1>6
  <2> QED
    BY <1>4, <1>6, <2>1, <2>2 DEF QueueOK, Carries, Covered
<1> QED
  BY <1>7, <1>8, <1>9, <1>10 DEF StreamInv

\* What is given stays given when more is given.
LEMMA MoreShown ==
  ASSUME NEW a \in Seq(Entries), NEW b \in Seq(Entries)
  PROVE  a \o b \in Seq(Entries) /\ ToSet(a) \subseteq ToSet(a \o b) /\ ToSet(b) \subseteq ToSet(a \o b)
<1>1. /\ a \o b \in Seq(Entries) /\ Len(a \o b) = Len(a) + Len(b) /\ Len(a) \in Nat /\ Len(b) \in Nat
      /\ DOMAIN (a \o b) = 1..(Len(a) + Len(b)) /\ DOMAIN a = 1..Len(a) /\ DOMAIN b = 1..Len(b)
  OBVIOUS
<1>2. \A i \in 1..Len(a) : i \in DOMAIN (a \o b) /\ (a \o b)[i] = a[i]
  BY <1>1
<1>3. \A i \in 1..Len(b) : Len(a) + i \in DOMAIN (a \o b) /\ (a \o b)[Len(a) + i] = b[i]
  BY <1>1
<1> QED
  BY <1>1, <1>2, <1>3 DEF ToSet

LEMMA MaxOfTwo ==
  ASSUME NEW a \in Int, NEW b \in Int
  PROVE  Max({a, b}) \in {a, b} /\ a <= Max({a, b}) /\ b <= Max({a, b})
<1>1. \E x \in {a, b} : \A y \in {a, b} : x >= y
  <2>1. a >= b \/ b >= a
    OBVIOUS
  <2> QED
    BY <2>1
<1>2. Max({a, b}) \in {a, b} /\ \A y \in {a, b} : Max({a, b}) >= y
  BY <1>1 DEF Max
<1> QED
  BY <1>2

LEMMA ListsInv ==
  ASSUME StreamInv, Lists
  PROVE  StreamInv'
<1>1. Typed /\ DenseOK /\ CursorMeansSeen /\ QueueOK
  BY DEF StreamInv
<1>2. /\ client.at \in {"list", "all"} /\ UNCHANGED <<clientOthers, chan>>
      /\ shown' = shown \o ListAfter(cursor)
      /\ cursor' = Max({cursor, LastSeq})
      /\ \/ client.at = "all" /\ Ends("status", 0)
         \/ client.at = "list" /\ client' = [client EXCEPT !.at = "check"]
  BY DEF Lists
<1>3. UNCHANGED <<rows, freed, unsure, cast, overtaken, chan>>
  BY <1>2 DEF clientOthers, logVars
<1>4. /\ cursor \in Int /\ cursor >= -1 /\ shown \in Seq(Entries)
      /\ LastSeq \in Int /\ LastSeq >= -1 /\ (LastSeq = -1 \/ LastSeq \in DOMAIN rows)
  BY <1>1, LastSeqIs DEF Typed, ClientTyped
<1>5. /\ shown' \in Seq(Entries) /\ ToSet(shown) \subseteq ToSet(shown')
      /\ \A s \in DOMAIN rows : s > cursor => rows[s] \in ToSet(shown')
  BY <1>1, <1>2, <1>4, ListedAll, MoreShown
<1>6. cursor' \in {cursor, LastSeq}
  BY <1>2, <1>4, MaxOfTwo
<1>7. /\ \/ client'.at = "ended" /\ client'.by = "status" /\ client.at = "all"
         \/ client'.at = "check" /\ client.at = "list"
      /\ ClientTyped'
  <2>1. cursor' \in Int /\ cursor' >= -1 /\ shown' \in Seq(Entries)
    BY <1>4, <1>5, <1>6
  <2>2. CASE client.at = "all" /\ Ends("status", 0)
    <3>1. client' = [client EXCEPT !.at = "ended", !.by = "status", !.turn = 0]
      BY <2>2 DEF Ends
    <3> QED
      BY <1>1, <2>1, <2>2, <3>1 DEF Typed, ClientTyped, Endings
  <2>3. CASE client.at = "list" /\ client' = [client EXCEPT !.at = "check"]
    BY <1>1, <2>1, <2>3 DEF Typed, ClientTyped
  <2> QED
    BY <1>2, <2>2, <2>3
<1>8. cursor' = -1 \/ cursor' \in Used
  BY <1>1, <1>4, <1>6 DEF DenseOK, Used
<1>9. Typed' /\ DenseOK' /\ OwnOK' /\ TurnOK' /\ CastOK' /\ Lasts
  BY <1>1, <1>2, <1>3, <1>7, <1>8, ClientFrame DEF Typed
<1>10. \A s \in DOMAIN rows : s \in Nat /\ (Given(s) => Given(s)') /\ (s > cursor => Given(s)')
  BY <1>1, <1>3, <1>5, LastSeqIs DEF Given
<1>11. CursorMeansSeen'
  <2>1. ASSUME NEW s \in DOMAIN rows PROVE Given(s)'
    <3>1. s <= cursor \/ s > cursor
      BY <1>4, <1>10
    <3> QED
      BY <1>1, <1>10, <3>1 DEF CursorMeansSeen, Given
  <2> QED
    BY <1>3, <2>1 DEF CursorMeansSeen, Given
<1>12. EndedOK' /\ EndIsComplete'
  BY <1>7 DEF EndedOK, EndIsComplete
<1>13. Steady
  BY <1>3, <1>9, <1>10 DEF Steady, RowSteady, Used
<1>14. QueueOK'
  <2>1. PICK c, told : c = chan /\ told = cast
    OBVIOUS
  <2>2. c \in Chans /\ told \subseteq Used /\ Carries(c, told)
    BY <1>1, <2>1 DEF Typed, DenseOK, QueueOK
  <2>3. Carries(c, told)'
    BY <1>1, <1>13, <2>2, SteadyCarries
  <2>4. Carries(chan, cast)'
    BY <1>3, <2>1, <2>3, CarriesNow
  <2> QED
    BY <1>1, <1>3, <1>7, <2>4 DEF QueueOK
<1> QED
  BY <1>9, <1>11, <1>12, <1>14 DEF StreamInv

LEMMA ChecksInv ==
  ASSUME StreamInv, Checks
  PROVE  StreamInv'
<1>1. Typed /\ DenseOK /\ CursorMeansSeen /\ QueueOK
  BY DEF StreamInv
<1>2. client.at = "check" /\ UNCHANGED <<clientOthers, cursor, shown>>
  BY DEF Checks
<1>3. CASE Ends("status", 0) /\ chan' = Unsubscribed
  <2>1. "status" \in Endings /\ "status" # "complete"
    BY DEF Endings
  <2> QED
    BY <1>2, <1>3, <2>1, EndsInv
<1>4. CASE client' = [client EXCEPT !.at = "live"] /\ chan' = chan
  <2>1. client'.at = "live" /\ ClientTyped'
    BY <1>1, <1>2, <1>4 DEF Typed, ClientTyped
  <2>2. UNCHANGED <<rows, freed, unsure, cast, overtaken, chan, cursor, shown>>
    BY <1>2, <1>4 DEF clientOthers, logVars
  <2>3. Typed' /\ DenseOK' /\ OwnOK' /\ TurnOK' /\ CastOK' /\ Lasts
    BY <1>1, <1>2, <1>4, <2>1, ClientFrame DEF Typed, DenseOK
  <2>4. CursorMeansSeen' /\ EndedOK' /\ EndIsComplete'
    BY <1>1, <2>1, <2>2 DEF CursorMeansSeen, EndedOK, EndIsComplete
  <2>5. Steady
    <3>1. \A s \in DOMAIN rows' : s \in Nat /\ RowSteady(s)
      BY <1>1, <1>2, <2>2, LastSeqIs DEF RowSteady, Given
    <3> QED
      BY <2>2, <2>3, <3>1 DEF Steady, Used
  <2>6. PICK c, told : c = chan /\ told = cast
    OBVIOUS
  <2>7. c \in Chans /\ told \subseteq Used /\ Carries(c, told)
    BY <1>1, <2>6 DEF Typed, DenseOK, QueueOK
  <2>8. Carries(c, told)'
    BY <1>1, <2>5, <2>7, SteadyCarries
  <2>9. Carries(chan, cast)'
    BY <2>2, <2>6, <2>8, CarriesNow
  <2>10. QueueOK'
    BY <2>1, <2>9 DEF QueueOK
  <2> QED
    BY <2>3, <2>4, <2>10 DEF StreamInv
<1> QED
  BY <1>3, <1>4 DEF Checks

LEMMA HeartbeatsInv ==
  ASSUME StreamInv, Heartbeats
  PROVE  StreamInv'
<1>1. Typed /\ DenseOK /\ CursorMeansSeen /\ QueueOK /\ EndedOK /\ EndIsComplete
  BY DEF StreamInv
<1>2. client.at = "live" /\ UNCHANGED <<clientOthers, cursor, shown>>
  BY DEF Heartbeats
<1>3. CASE Ends("beat", 0) /\ chan' = Unsubscribed
  <2>1. "beat" \in Endings /\ "beat" # "complete"
    BY DEF Endings
  <2> QED
    BY <1>2, <1>3, <2>1, EndsInv
<1>4. CASE chan' = chan /\ \E n \in Nat : client' = [client EXCEPT !.beats = n]
  <2>1. client'.at = "live" /\ ClientTyped'
    BY <1>1, <1>2, <1>4 DEF Typed, ClientTyped
  <2>2. UNCHANGED <<rows, freed, unsure, cast, overtaken, chan, cursor, shown>>
    BY <1>2, <1>4 DEF clientOthers, logVars
  <2>3. Typed' /\ DenseOK' /\ OwnOK' /\ TurnOK' /\ CastOK' /\ Lasts
    BY <1>1, <1>2, <1>4, <2>1, ClientFrame DEF Typed, DenseOK
  <2>4. CursorMeansSeen' /\ EndedOK' /\ EndIsComplete'
    BY <1>1, <2>1, <2>2 DEF CursorMeansSeen, EndedOK, EndIsComplete
  <2>5. Steady
    BY <1>1, <1>2, <2>1, <2>2, <2>3, SameLog
  <2>6. PICK c, told : c = chan /\ told = cast
    OBVIOUS
  <2>7. c \in Chans /\ told \subseteq Used /\ Carries(c, told)
    BY <1>1, <2>6 DEF Typed, DenseOK, QueueOK
  <2>8. Carries(c, told)'
    BY <1>1, <2>5, <2>7, SteadyCarries
  <2>9. Carries(chan, cast)'
    BY <2>2, <2>6, <2>8, CarriesNow
  <2>10. QueueOK'
    BY <2>1, <2>9 DEF QueueOK
  <2> QED
    BY <2>3, <2>4, <2>10 DEF StreamInv
<1>5. client.beats \in Nat /\ client.beats + 1 \in Nat
  BY <1>1 DEF Typed, ClientTyped
<1> QED
  BY <1>3, <1>4, <1>5 DEF Heartbeats

LEMMA DropsInv ==
  ASSUME StreamInv, Drops
  PROVE  StreamInv'
<1>1. "drop" \in Endings /\ "drop" # "complete"
  BY DEF Endings
<1> QED
  BY <1>1, EndsInv DEF Drops

\* The next item of the queue is given, or was listed before.
LEMMA ReceivesInv ==
  ASSUME StreamInv, Receives
  PROVE  StreamInv'
<1>1. Typed /\ DenseOK /\ CursorMeansSeen /\ QueueOK
  BY DEF StreamInv
<1>2. PICK item, q : q = chan.queue /\ item = Head(q)
  OBVIOUS
<1> DEFINE fresh == item[1] = "entry" /\ item[2] > cursor
<1>3. /\ client.at = "live" /\ q # <<>> /\ UNCHANGED clientOthers
      /\ shown' = (IF fresh THEN Append(shown, item[3]) ELSE shown)
      /\ cursor' = (IF fresh THEN item[2] ELSE cursor)
      /\ \/ /\ EndsStream(item) /\ chan' = Unsubscribed
            /\ Ends(item[1], IF item[1] = "complete" THEN item[2] ELSE 0)
         \/ /\ chan' = [chan EXCEPT !.queue = Tail(q)]
            /\ \E b \in BOOLEAN : client' = [client EXCEPT !.pending = b]
  <2>1. client.pending \in BOOLEAN
    BY <1>1 DEF Typed, ClientTyped
  <2>2. (client.pending \/ item[1] = "result") \in BOOLEAN
    OBVIOUS
  <2> QED
    BY <1>2, <2>1, <2>2 DEF Receives, IsNew
<1>4. UNCHANGED <<rows, freed, unsure, cast, overtaken, turns, driven, unread, writer>>
  BY <1>3 DEF clientOthers, logVars, actorSide
<1>5. q \in Seq(Items) /\ Len(q) \in Nat /\ Len(q) > 0 /\ 1 \in 1..Len(q) /\ item = q[1] /\ item \in Items
  <2>1. q \in Seq(Items)
    BY <1>1, <1>2 DEF Typed, Chans
  <2> QED
    BY <1>2, <1>3, <2>1
<1>6. EntryOK(q, 1) /\ CompleteOK(q, 1)
  BY <1>1, <1>2, <1>5 DEF QueueOK, Carries
<1>7. /\ item[1] = "entry" => item[2] \in Nat /\ item[3] \in Entries
      /\ item[1] = "complete" => item[2] \in Nat
  BY <1>5, ItemParts
<1>8. cursor \in Int /\ cursor >= -1 /\ shown \in Seq(Entries)
  BY <1>1 DEF Typed, ClientTyped
<1>9. /\ shown' \in Seq(Entries) /\ ToSet(shown) \subseteq ToSet(shown')
      /\ fresh => item[3] \in ToSet(shown')
  <2>1. CASE fresh
    <3>1. /\ shown' \in Seq(Entries) /\ Len(shown') = Len(shown) + 1 /\ Len(shown) \in Nat
          /\ shown'[Len(shown) + 1] = item[3] /\ \A i \in 1..Len(shown) : shown'[i] = shown[i]
      BY <1>3, <1>7, <1>8, <2>1
    <3>2. DOMAIN shown = 1..Len(shown) /\ DOMAIN shown' = 1..(Len(shown) + 1)
      BY <1>8, <3>1
    <3> QED
      BY <3>1, <3>2 DEF ToSet
  <2>2. CASE ~ fresh
    BY <1>3, <1>8, <2>2
  <2> QED
    BY <2>1, <2>2
<1>10. cursor' \in Int /\ cursor' >= -1 /\ (cursor' = -1 \/ cursor' \in Used)
  <2>1. CASE fresh
    BY <1>3, <1>5, <1>6, <1>7, <2>1 DEF EntryOK
  <2>2. CASE ~ fresh
    BY <1>1, <1>3, <1>8, <2>2 DEF DenseOK
  <2> QED
    BY <2>1, <2>2
<1>11. \A s \in DOMAIN rows : s \in Nat /\ (Given(s) => Given(s)')
  BY <1>1, <1>4, <1>9, LastSeqIs DEF Given
<1>12. \A s \in DOMAIN rows : q[1] = <<"entry", s, rows[s]>> => Given(s)'
  <2> SUFFICES ASSUME NEW s \in DOMAIN rows, q[1] = <<"entry", s, rows[s]>>
               PROVE  Given(s)'
    OBVIOUS
  <2>1. item[1] = "entry" /\ item[2] = s /\ item[3] = rows[s]
    BY <1>5
  <2>2. CASE fresh
    BY <1>4, <1>9, <2>1, <2>2 DEF Given
  <2>3. CASE ~ fresh
    <3>1. s <= cursor
      BY <1>8, <1>11, <2>1, <2>3
    <3>2. Given(s)
      BY <1>1, <3>1 DEF CursorMeansSeen, Given
    <3> QED
      BY <1>11, <3>2
  <2> QED
    BY <2>2, <2>3
<1>13. \A s \in DOMAIN rows : Covered(q, s, 1) => Given(s)'
  <2> SUFFICES ASSUME NEW s \in DOMAIN rows, Covered(q, s, 1)
               PROVE  Given(s)'
    OBVIOUS
  <2>1. CASE \E j \in 1..Len(q) : j <= 1 /\ q[j] = <<"entry", s, rows[s]>>
    <3>1. q[1] = <<"entry", s, rows[s]>>
      <4>1. PICK j \in 1..Len(q) : j <= 1 /\ q[j] = <<"entry", s, rows[s]>>
        BY <2>1
      <4>2. j = 1
        BY <1>5, <4>1
      <4> QED
        BY <4>1, <4>2
    <3> QED
      BY <1>12, <3>1
  <2> QED
    BY <1>3, <1>11, <2>1 DEF Covered
<1>14. CursorMeansSeen'
  <2> SUFFICES ASSUME NEW s \in DOMAIN rows, s <= cursor'
               PROVE  Given(s)'
    BY <1>4 DEF CursorMeansSeen, Given
  <2>1. CASE fresh
    <3>1. s < item[2] \/ s = item[2]
      BY <1>3, <1>7, <1>11, <2>1
    <3>2. CASE s < item[2]
      BY <1>5, <1>6, <1>13, <2>1, <3>2 DEF EntryOK
    <3>3. CASE s = item[2]
      <4>1. rows[s] = item[3] \/ s \in freed
        BY <1>5, <1>6, <2>1, <3>3 DEF EntryOK
      <4> QED
        BY <1>4, <1>9, <2>1, <4>1 DEF Given
    <3> QED
      BY <3>1, <3>2, <3>3
  <2>2. CASE ~ fresh
    BY <1>1, <1>3, <1>11, <2>2 DEF CursorMeansSeen, Given
  <2> QED
    BY <2>1, <2>2
<1>15. CASE /\ EndsStream(item) /\ chan' = Unsubscribed
            /\ Ends(item[1], IF item[1] = "complete" THEN item[2] ELSE 0)
  <2>1. PICK turn : turn = IF item[1] = "complete" THEN item[2] ELSE 0
    OBVIOUS
  <2>2. turn \in Nat /\ item[1] \in Endings
    BY <1>7, <1>15, <2>1 DEF EndsStream, Endings
  <2>3. client'.at = "ended" /\ client'.by = item[1] /\ client'.turn = turn /\ ClientTyped'
    <3>1. client' = [client EXCEPT !.at = "ended", !.by = item[1], !.turn = turn]
      BY <1>15, <2>1 DEF Ends
    <3> QED
      BY <1>1, <1>9, <1>10, <2>2, <3>1 DEF Typed, ClientTyped
  <2>4. chan' \in Chans /\ chan'.queue = <<>> /\ chan'.on = FALSE
    BY <1>15 DEF Unsubscribed, Chans
  <2>5. Typed' /\ DenseOK' /\ OwnOK' /\ TurnOK' /\ CastOK' /\ Lasts
    BY <1>3, <1>10, <2>3, <2>4, ClientFrame
  <2>6. QueueOK'
    BY <2>4 DEF QueueOK, Carries
  <2>7. EndedOK' /\ EndIsComplete'
    <3>1. CASE item[1] = "complete"
      <4>1. Over(turn) /\ \A s \in DOMAIN rows : rows[s][3] \in 1..turn => Covered(q, s, 1) \/ rows[s] \in unsure
        BY <1>5, <1>6, <2>1, <3>1 DEF CompleteOK
      <4>2. Over(turn)'
        BY <2>2, <2>5, <4>1 DEF Lasts
      <4>3. EndedOK'
        BY <2>3, <4>2 DEF EndedOK
      <4>4. \A s \in DOMAIN rows' : rows'[s][3] \in 1..turn => Given(s)' \/ rows'[s] \in unsure'
        BY <1>4, <1>13, <4>1
      <4>5. EndIsComplete'
        BY <2>3, <4>4 DEF EndIsComplete, Given
      <4> QED
        BY <4>3, <4>5
    <3>2. CASE item[1] # "complete"
      BY <2>3, <3>2 DEF EndedOK, EndIsComplete
    <3> QED
      BY <3>1, <3>2
  <2> QED
    BY <1>14, <2>5, <2>6, <2>7 DEF StreamInv
<1>16. CASE /\ chan' = [chan EXCEPT !.queue = Tail(q)]
            /\ \E b \in BOOLEAN : client' = [client EXCEPT !.pending = b]
  <2>1. client'.at = "live" /\ ClientTyped'
    BY <1>1, <1>3, <1>9, <1>10, <1>16 DEF Typed, ClientTyped
  <2>2. PICK r, told, on : r = Tail(q) /\ told = cast /\ on = chan.on
    OBVIOUS
  <2>3. /\ r \in Seq(Items) /\ Len(r) = Len(q) - 1
        /\ \A k \in 1..Len(r) : k + 1 \in 1..Len(q) /\ r[k] = q[k + 1]
    BY <1>5, <2>2
  <2>4. PICK d : d = [queue |-> r, on |-> on]
    OBVIOUS
  <2>5. chan' = d /\ d \in Chans /\ d.queue = r /\ d.on = on
    <3>1. chan = [queue |-> q, on |-> on] /\ on \in BOOLEAN
      BY <1>1, <1>2, <2>2 DEF Typed, Chans
    <3>2. chan' = [queue |-> r, on |-> on]
      BY <1>16, <2>2, <3>1
    <3> QED
      BY <2>3, <2>4, <3>1, <3>2 DEF Chans
  <2>6. Typed' /\ DenseOK' /\ OwnOK' /\ TurnOK' /\ CastOK' /\ Lasts
    BY <1>3, <1>10, <2>1, <2>5, ClientFrame
  <2>7. ASSUME NEW s \in DOMAIN rows, NEW k \in Nat, Covered(q, s, k + 1)
        PROVE  Covered(r, s, k)'
    <3>1. CASE Given(s)
      BY <1>11, <3>1 DEF Covered
    <3>2. CASE \E j \in 1..Len(q) : j <= k + 1 /\ q[j] = <<"entry", s, rows[s]>>
      <4>1. PICK j \in 1..Len(q) : j <= k + 1 /\ q[j] = <<"entry", s, rows[s]>>
        BY <3>2
      <4>2. CASE j = 1
        BY <1>12, <4>1, <4>2 DEF Covered
      <4>3. CASE j # 1
        <5>1. j - 1 \in 1..Len(r) /\ j - 1 + 1 = j /\ j - 1 <= k
          BY <1>5, <2>3, <4>1, <4>3
        <5>2. r[j - 1] = <<"entry", s, rows'[s]>>
          BY <1>4, <2>3, <4>1, <5>1
        <5> QED
          BY <5>1, <5>2 DEF Covered
      <4> QED
        BY <4>2, <4>3
    <3> QED
      BY <1>3, <2>7, <3>1, <3>2 DEF Covered
  <2>8. on => \A s \in DOMAIN rows' : s \in told => Covered(r, s, Len(r))'
    <3> SUFFICES ASSUME on, NEW s \in DOMAIN rows, s \in told
                 PROVE  Covered(r, s, Len(r))'
      BY <1>4
    <3>1. Covered(q, s, Len(q))
      BY <1>1, <1>2, <2>2 DEF QueueOK, Carries
    <3>2. Len(r) \in Nat /\ Len(q) = Len(r) + 1
      BY <1>5, <2>3
    <3> QED
      BY <2>7, <3>1, <3>2
  <2>9. ASSUME NEW k \in 1..Len(r)
        PROVE  EntryOK(r, k)' /\ CompleteOK(r, k)'
    <3>1. k \in Nat /\ k + 1 \in 1..Len(q) /\ r[k] = q[k + 1]
      BY <1>5, <2>3
    <3>2. EntryOK(q, k + 1) /\ CompleteOK(q, k + 1)
      BY <1>1, <1>2, <3>1 DEF QueueOK, Carries
    <3>3. EntryOK(r, k)'
      <4> SUFFICES ASSUME r[k][1] = "entry"
                   PROVE  /\ r[k][2] \in Used'
                          /\ r[k][2] \in DOMAIN rows' => rows'[r[k][2]] = r[k][3] \/ r[k][2] \in freed'
                          /\ \A s \in DOMAIN rows' : s < r[k][2] => Covered(r, s, k)'
        BY DEF EntryOK
      <4> QED
        BY <1>4, <2>7, <3>1, <3>2 DEF EntryOK, Used
    <3>4. CompleteOK(r, k)'
      <4> SUFFICES ASSUME r[k][1] = "complete"
                   PROVE  /\ Over(r[k][2])'
                          /\ \A s \in DOMAIN rows' : rows'[s][3] \in 1..r[k][2] => Covered(r, s, k)' \/ rows'[s] \in unsure'
        BY DEF CompleteOK
      <4>1. PICK x : x = r[k][2]
        OBVIOUS
      <4>2. Over(x) /\ \A s \in DOMAIN rows : rows[s][3] \in 1..x => Covered(q, s, k + 1) \/ rows[s] \in unsure
        BY <3>1, <3>2, <4>1 DEF CompleteOK
      <4>3. Over(x)'
        BY <1>4, <4>2 DEF Over, After
      <4> QED
        BY <1>4, <2>7, <3>1, <4>1, <4>2, <4>3
    <3> QED
      BY <3>3, <3>4
  <2>10. Carries(d, told)'
    BY <2>5, <2>8, <2>9 DEF Carries
  <2>11. cast' = told
    BY <1>4, <2>2
  <2>12. Carries(chan, cast)'
    BY <2>5, <2>10, <2>11, CarriesNow
  <2>13. QueueOK'
    BY <2>1, <2>12 DEF QueueOK
  <2>14. EndedOK' /\ EndIsComplete'
    BY <2>1 DEF EndedOK, EndIsComplete
  <2> QED
    BY <1>14, <2>6, <2>13, <2>14 DEF StreamInv
<1> QED
  BY <1>3, <1>15, <1>16
-----------------------------------------------------------------------------
(* The theorems *)

LEMMA InitInv ==
  ASSUME StreamInit
  PROVE  StreamInv
<1>1. /\ DOMAIN rows = {} /\ freed = {} /\ cast = {} /\ cursor = -1 /\ shown = <<>>
      /\ user = [u \in Users |-> [at |-> "new", seq |-> -1]]
      /\ waiting = <<>> /\ driven = 0 /\ turns = 0 /\ made = 0 /\ unread = <<>>
      /\ writer = IdleWriter /\ chan = [queue |-> <<>>, on |-> FALSE]
      /\ client = [at |-> "off", by |-> "none", turn |-> 0, pending |-> FALSE, beats |-> 0]
  BY DEF StreamInit
<1>2. LogTyped
  <2>1. rows \in [DOMAIN rows -> Entries]
    BY DEF StreamInit
  <2>2. 0 \in Nat /\ DOMAIN rows \subseteq 0..0
    BY <1>1
  <2> QED
    BY <1>1, <2>1, <2>2 DEF LogTyped
<1>3. UserTyped /\ ActorTyped
  BY <1>1 DEF UserTyped, ActorTyped
<1>4. WriterTyped /\ writer.at = "idle"
  BY <1>1, IdleTyped DEF WriterTyped, IdleWriter
<1>5. ClientTyped /\ client.at = "off"
  BY <1>1 DEF ClientTyped, Endings
<1>6. chan \in Chans /\ chan.queue = <<>> /\ chan.on = FALSE
  BY <1>1 DEF Chans
<1>7. Typed
  BY <1>2, <1>3, <1>4, <1>5, <1>6 DEF Typed
<1>8. DenseOK
  BY <1>1, <1>4 DEF DenseOK, Used
<1>9. OwnOK /\ TurnOK
  <2>1. Len(waiting) = 0 /\ Len(unread) = 0 /\ driven <= turns
    BY <1>1
  <2>2. \A u \in Users : user[u].at = "new"
    BY <1>1
  <2> QED
    BY <1>4, <2>1, <2>2 DEF OwnOK, TurnOK
<1>10. QueueOK
  BY <1>6 DEF QueueOK, Carries
<1>11. CastOK /\ EndedOK /\ CursorMeansSeen /\ EndIsComplete
  BY <1>1, <1>5 DEF CastOK, EndedOK, CursorMeansSeen, EndIsComplete
<1> QED
  BY <1>7, <1>8, <1>9, <1>10, <1>11 DEF StreamInv

LEMMA StutterInv ==
  ASSUME StreamInv, UNCHANGED streamVars
  PROVE  StreamInv'
<1>1. /\ UNCHANGED <<rows, freed, unsure, castVars, clientVars>>
      /\ UNCHANGED <<user, waiting, driven, turns, made, unread, writer, chan, cast, client, cursor, shown>>
  BY DEF streamVars, logVars, actorSide, castVars, clientVars
<1>2. Typed /\ DenseOK /\ OwnOK /\ TurnOK /\ CastOK
  BY DEF StreamInv
<1>3. Typed'
  BY <1>1, <1>2 DEF Typed, LogTyped, UserTyped, ActorTyped, WriterTyped, ClientTyped
<1>4. DenseOK' /\ OwnOK' /\ TurnOK' /\ CastOK'
  BY <1>1, <1>2 DEF DenseOK, Used, OwnOK, TurnOK, After, CastOK
<1>5. Lasts
  BY <1>1, SameTurns
<1> QED
  BY <1>1, <1>3, <1>4, <1>5, QuietInv

LEMMA StepInv ==
  ASSUME StreamInv, [StreamNext]_streamVars
  PROVE  StreamInv'
BY AdmittedInv, UserWritesInv, UserFailsInv, QueuedInv, UndoneInv, UndoFailsInv, AcceptedInv, RefusedInv, ReconnectedInv,
   SpeaksInv, ResultsInv, TakeMessageInv, ChecksTailInv, ReadsSeqInv, WritesInv, BroadcastsInv,
   WriteFailsInv, OpensInv, ListsInv, ChecksInv, ReceivesInv, HeartbeatsInv, DropsInv, StutterInv
   DEF StreamNext

\* The inductive invariant holds in every state.
THEOREM StreamHolds == StreamSpec => []StreamInv
<1>1. StreamInit => StreamInv
  BY InitInv
<1>2. StreamInv /\ [StreamNext]_streamVars => StreamInv'
  BY StepInv
<1> QED
  BY <1>1, <1>2, PTL DEF StreamSpec

\* What lies below the cursor of a client was given to it, whatever is written, deleted,
\* evicted from its queue or lost with a connection.
THEOREM CursorHolds == StreamSpec => []CursorMeansSeen
<1>1. StreamInv => CursorMeansSeen
  BY DEF StreamInv
<1> QED
  BY <1>1, StreamHolds, PTL

\* A stream that the end of a turn ended has given all entries of that turn, but for the
\* exceptions of the cursor and for an entry whose write was committed and yet raised.
THEOREM EndHolds == StreamSpec => []EndIsComplete
<1>1. StreamInv => EndIsComplete
  BY DEF StreamInv
<1> QED
  BY <1>1, StreamHolds, PTL

-----------------------------------------------------------------------------
(* No entry is given twice *)

Stored(e) == \E s \in DOMAIN rows : rows[s] = e
Spoken(e) == e[1] \in {"say", "echo", "result"}

\* What was said so far, or is the result of a turn that is over.
Recent(e) ==
  /\ e[1] \in {"say", "echo"} => e[2] <= made
  /\ e[1] = "result" => e[3] <= turns /\ (driven # 0 => e[3] < driven)

\* An entry has one seq, unless a write of it was committed and yet raised, which no entry
\* of a user is; who has not written his entry, or has deleted it, has none.
LogOnce ==
  /\ \A s, t \in DOMAIN rows : rows[s] = rows[t] => s = t \/ rows[s] \in unsure
  /\ \A e \in unsure : e[1] # "user"
  /\ \A u \in Users : user[u].at \in {"new", "write", "failed"} => ~ Stored(UserEntry(u))

\* What the SDK said is in the log, with the writer or in the inbox, and there once.
SpokenOnce ==
  /\ \A s \in DOMAIN rows : Recent(rows[s])
  /\ \A i \in 1..Len(unread) : Spoken(unread[i]) =>
       /\ Recent(unread[i]) /\ ~ Stored(unread[i])
       /\ \A j \in 1..Len(unread) : unread[j] = unread[i] => j = i
       /\ writer.at # "idle" => unread[i] # writer.msg
  /\ writer.at # "idle" => Recent(writer.msg)
  /\ writer.at \in {"tail", "read", "write"} => ~ Stored(writer.msg) \/ writer.msg \in unsure

\* An entry in the queue is stored where it says and is not deleted any more.
Kept(item) ==
  item[1] = "entry" =>
    /\ item[2] \in DOMAIN rows /\ rows[item[2]] = item[3]
    /\ \A u \in Users : item[3] = UserEntry(u) => user[u].at = "accepted"
ChanOnce == \A k \in 1..Len(chan.queue) : Kept(chan.queue[k])

\* What the client was given lies below its cursor, or was deleted for good.
Origin(e) ==
  \/ \E s \in DOMAIN rows : s <= cursor /\ rows[s] = e
  \/ \E u \in Users : user[u].at = "failed" /\ e = UserEntry(u)
ShownOnce == GivenOnce /\ \A k \in 1..Len(shown) : Origin(shown[k])

Once == LogOnce /\ SpokenOnce /\ ChanOnce /\ ShownOnce

\* The log keeps its entries, but for one a user deletes whose query was not accepted.
RowsKept ==
  /\ \A s \in DOMAIN rows :
       \/ s \in DOMAIN rows' /\ rows'[s] = rows[s]
       \/ \E u \in Users : user[u].at # "accepted" /\ user'[u].at = "failed" /\ rows[s] = UserEntry(u)
  /\ \A u \in Users : user[u].at \in {"accepted", "failed"} => user'[u].at = user[u].at
  /\ unsure \subseteq unsure'

LEMMA KeptStays ==
  ASSUME RowsKept, NEW item, Kept(item)
  PROVE  Kept(item)'
BY DEF RowsKept, Kept

LEMMA OriginStays ==
  ASSUME Typed, RowsKept, cursor' \in Int, cursor <= cursor', NEW e, Origin(e)
  PROVE  Origin(e)'
<1>1. cursor \in Int
  BY DEF Typed, ClientTyped
<1>2. CASE \E s \in DOMAIN rows : s <= cursor /\ rows[s] = e
  <2>1. PICK s \in DOMAIN rows : s <= cursor /\ rows[s] = e
    BY <1>2
  <2>2. s \in Nat /\ s <= cursor'
    BY <1>1, <2>1, LastSeqIs
  <2> QED
    BY <2>1, <2>2 DEF RowsKept, Origin
<1>3. CASE \E u \in Users : user[u].at = "failed" /\ e = UserEntry(u)
  BY <1>3 DEF RowsKept, Origin
<1> QED
  BY <1>2, <1>3 DEF Origin

\* A step that gives the client nothing, and puts into the queue only what is stored.
LEMMA ClientKeeps ==
  ASSUME StreamInv, ChanOnce, ShownOnce, RowsKept, UNCHANGED <<cursor, shown>>,
         \A k \in 1..Len(chan'.queue) : \E item :
           chan'.queue[k] = item /\ ((\E j \in 1..Len(chan.queue) : chan.queue[j] = item) \/ Kept(item)')
  PROVE  ChanOnce' /\ ShownOnce'
<1>1. Typed
  BY DEF StreamInv
<1>2. ASSUME NEW k \in 1..Len(chan'.queue)
      PROVE  Kept(chan.queue[k])'
  <2>1. PICK item : chan'.queue[k] = item /\ ((\E j \in 1..Len(chan.queue) : chan.queue[j] = item) \/ Kept(item)')
    OBVIOUS
  <2>2. Kept(item)'
    BY <2>1, KeptStays DEF ChanOnce
  <2> QED
    BY <2>1, <2>2 DEF Kept
<1>3. cursor' \in Int /\ cursor <= cursor'
  BY <1>1 DEF Typed, ClientTyped
<1>4. ASSUME NEW k \in 1..Len(shown)
      PROVE  Origin(shown[k])'
  <2>1. PICK e : e = shown[k]
    OBVIOUS
  <2>2. Origin(e)
    BY <2>1 DEF ShownOnce
  <2>3. Origin(e)'
    BY <1>1, <1>3, <2>2, OriginStays
  <2> QED
    BY <2>1, <2>3 DEF Origin
<1>5. GivenOnce'
  BY DEF ShownOnce, GivenOnce, RowsKept
<1> QED
  BY <1>2, <1>4, <1>5 DEF ChanOnce, ShownOnce

\* What a delivery leaves in the queue was there, or is what was delivered or the end.
LEMMA DeliverGives ==
  ASSUME NEW c \in Chans, NEW item \in Items, NEW d, d = Deliver(c, item)
  PROVE  /\ d \in Chans
         /\ \A k \in 1..Len(d.queue) :
              d.queue[k] \in {item, <<"eos">>} \/ \E j \in 1..Len(c.queue) : c.queue[j] = d.queue[k]
<1>2. /\ d \in Chans
      /\ \/ d.on = FALSE /\ d.queue = <<<<"eos">>>>
         \/ Follows(c.queue, d.queue, item)
  BY DeliverKeeps
<1>3. CASE d.queue = <<<<"eos">>>>
  BY <1>2, <1>3
<1>4. CASE Follows(c.queue, d.queue, item)
  BY <1>2, <1>4 DEF Follows
<1> QED
  BY <1>2, <1>3, <1>4

\* A broadcast of what is stored.
LEMMA CastKeeps ==
  ASSUME StreamInv, ChanOnce, ShownOnce, RowsKept, UNCHANGED <<cursor, shown>>,
         NEW a \in Items, Kept(a)', NEW b \in Items, Kept(b)',
         chan' = Deliver(chan, a) \/ chan' = Deliver(Deliver(chan, a), b)
  PROVE  ChanOnce' /\ ShownOnce'
<1>1. PICK c, d, e : c = chan /\ d = Deliver(c, a) /\ e = Deliver(d, b)
  OBVIOUS
<1>2. c \in Chans /\ d = Deliver(c, a) /\ e = Deliver(d, b)
  BY <1>1 DEF StreamInv, Typed
<1>3. d \in Chans
  BY <1>2, DeliverGives
<1>4. \A k \in 1..Len(d.queue) : d.queue[k] \in {a, <<"eos">>} \/ \E j \in 1..Len(c.queue) : c.queue[j] = d.queue[k]
  BY <1>2, DeliverGives
<1>5. e = Deliver(d, b)
  BY <1>2
<1>6. \A k \in 1..Len(e.queue) : e.queue[k] \in {b, <<"eos">>} \/ \E j \in 1..Len(d.queue) : d.queue[j] = e.queue[k]
  BY <1>3, <1>5, DeliverGives
<1>7. Kept(<<"eos">>)'
  BY DEF Kept
<1>8. \A k \in 1..Len(d.queue) : (\E j \in 1..Len(c.queue) : c.queue[j] = d.queue[k]) \/ Kept(d.queue[k])'
  BY <1>7, <1>4
<1>9. \A k \in 1..Len(e.queue) : (\E j \in 1..Len(c.queue) : c.queue[j] = e.queue[k]) \/ Kept(e.queue[k])'
  <2> TAKE k \in 1..Len(e.queue)
  <2>1. CASE e.queue[k] \in {b, <<"eos">>}
    BY <1>7, <2>1
  <2>2. CASE \E j \in 1..Len(d.queue) : d.queue[j] = e.queue[k]
    <3>1. PICK j \in 1..Len(d.queue) : d.queue[j] = e.queue[k]
      BY <2>2
    <3>2. (\E l \in 1..Len(c.queue) : c.queue[l] = d.queue[j]) \/ Kept(d.queue[j])'
      BY <1>8
    <3> QED
      BY <3>1, <3>2
  <2> QED
    BY <1>6, <2>1, <2>2
<1>10. chan' = d \/ chan' = e
  BY <1>1
<1> QED
  BY <1>1, <1>8, <1>9, <1>10, ClientKeeps

\* Nothing the SDK said moves, and the log gets only what it had or entries of users.
LEMMA SpokenFrame ==
  ASSUME SpokenOnce, OwnOK, UNCHANGED <<unsure, made, turns, driven, unread, writer>>,
         \A s \in DOMAIN rows' : rows'[s][1] = "user" \/ \E t \in DOMAIN rows : rows[t] = rows'[s]
  PROVE  SpokenOnce'
<1>1. ASSUME NEW e, Stored(e)' PROVE Stored(e) \/ e[1] = "user"
  BY <1>1 DEF Stored
<1>2. ASSUME NEW s \in DOMAIN rows' PROVE Recent(rows[s])'
  <2>1. CASE rows'[s][1] = "user"
    BY <2>1 DEF Recent
  <2>2. CASE \E t \in DOMAIN rows : rows[t] = rows'[s]
    BY <2>2 DEF Recent, SpokenOnce
  <2> QED
    BY <2>1, <2>2
<1>3. ASSUME NEW i \in 1..Len(unread), Spoken(unread[i])
      PROVE  /\ Recent(unread[i])' /\ ~ Stored(unread[i])'
             /\ \A j \in 1..Len(unread) : unread[j] = unread[i] => j = i
             /\ writer.at # "idle" => unread[i] # writer.msg
  <2>1. PICK m : m = unread[i]
    OBVIOUS
  <2>2. Recent(m) /\ ~ Stored(m) /\ m[1] # "user"
    BY <1>3, <2>1 DEF SpokenOnce, Spoken
  <2>3. Recent(m)' /\ ~ Stored(m)'
    BY <1>1, <2>2 DEF Recent
  <2>4. Recent(unread[i])' /\ ~ Stored(unread[i])'
    BY <2>1, <2>3 DEF Recent, Stored
  <2> QED
    BY <1>3, <2>4 DEF SpokenOnce
<1>4. writer.at # "idle" => Recent(writer.msg)'
  BY DEF SpokenOnce, Recent
<1>5. writer.at \in {"tail", "read", "write"} => ~ Stored(writer.msg)' \/ writer.msg \in unsure
  <2>1. PICK m : m = writer.msg
    OBVIOUS
  <2>2. writer.at \in {"tail", "read", "write"} => (~ Stored(m) \/ m \in unsure) /\ m[1] # "user"
    BY <2>1 DEF SpokenOnce, OwnOK
  <2>3. writer.at \in {"tail", "read", "write"} => ~ Stored(m)' \/ m \in unsure
    BY <1>1, <2>2
  <2> QED
    BY <2>1, <2>3 DEF Stored
<1> QED
  BY <1>2, <1>3, <1>4, <1>5 DEF SpokenOnce, Spoken

\* What was recent stays so when more is said, a turn ends or the next one begins.
LEMMA RecentLater ==
  ASSUME Typed, NEW e \in Entries \cup Messages, Recent(e), made' \in {made, made + 1},
         turns' \in {turns, turns + 1}, driven' \in {driven, 0, turns + 1}
  PROVE  Recent(e)'
<1>1. made \in Nat /\ turns \in Nat /\ driven \in Nat
  BY DEF Typed, ActorTyped
<1>2. e[2] \in Nat /\ e[3] \in Nat
  BY DEF Entries, Messages
<1>3. e[1] \in {"say", "echo"} => e[2] <= made'
  BY <1>1, <1>2 DEF Recent
<1>4. e[1] = "result" => e[3] <= turns' /\ (driven' # 0 => e[3] < driven')
  BY <1>1, <1>2 DEF Recent
<1> QED
  BY <1>3, <1>4 DEF Recent

\* A message comes into the inbox that is none of those that came before it.
LEMMA SpokenAppend ==
  ASSUME StreamInv, SpokenOnce, NEW m \in Messages, unread' = Append(unread, m), UNCHANGED <<rows, unsure, writer>>,
         Spoken(m) => ~ Recent(m) /\ Recent(m)',
         \A e \in Entries \cup Messages : Recent(e) => Recent(e)'
  PROVE  SpokenOnce'
<1>1. Typed /\ OwnOK
  BY DEF StreamInv
<1>2. unread \in Seq(Messages) /\ Len(unread) \in Nat
  BY <1>1 DEF Typed, ActorTyped
<1>3. /\ Len(unread') = Len(unread) + 1
      /\ \A i \in 1..Len(unread') :
           (i \in 1..Len(unread) /\ unread'[i] = unread[i]) \/ (i = Len(unread) + 1 /\ unread'[i] = m)
  BY <1>2
<1>4. \A s \in DOMAIN rows : rows[s] \in Entries
  BY <1>1 DEF Typed, LogTyped
<1>5. writer.at # "idle" => writer.msg \in Messages
  BY <1>1 DEF Typed, WriterTyped, OwnOK
<1>6. Spoken(m) => /\ ~ Stored(m) /\ (writer.at # "idle" => m # writer.msg)
                   /\ \A i \in 1..Len(unread) : unread[i] # m
  BY <1>4 DEF SpokenOnce, Stored
<1>7. \A s \in DOMAIN rows : Recent(rows[s])'
  <2> TAKE s \in DOMAIN rows
  <2>1. PICK e : e = rows[s]
    OBVIOUS
  <2>2. Recent(e) /\ e \in Entries
    BY <1>4, <2>1 DEF SpokenOnce
  <2>3. Recent(e)'
    BY <2>2
  <2> QED
    BY <2>1, <2>3 DEF Recent
<1>8. ASSUME NEW x, Spoken(x), x = m \/ \E i \in 1..Len(unread) : x = unread[i]
      PROVE  Recent(x)' /\ ~ Stored(x)' /\ (writer.at # "idle" => x # writer.msg)
  <2>1. CASE x = m
    BY <1>6, <1>8, <2>1 DEF Stored
  <2>2. CASE \E i \in 1..Len(unread) : x = unread[i]
    <3>1. PICK i \in 1..Len(unread) : x = unread[i]
      BY <2>2
    <3>2. x \in Messages /\ Recent(x) /\ ~ Stored(x) /\ (writer.at # "idle" => x # writer.msg)
      BY <1>2, <1>8, <3>1 DEF SpokenOnce
    <3> QED
      BY <3>2 DEF Stored
  <2> QED
    BY <1>8, <2>1, <2>2
<1>9. ASSUME NEW i \in 1..Len(unread'), Spoken(unread'[i])
      PROVE  /\ Recent(unread[i])' /\ ~ Stored(unread[i])'
             /\ \A j \in 1..Len(unread') : unread'[j] = unread'[i] => j = i
             /\ writer.at # "idle" => unread'[i] # writer.msg
  <2>1. PICK x : x = unread'[i]
    OBVIOUS
  <2>2. Recent(x)' /\ ~ Stored(x)' /\ (writer.at # "idle" => x # writer.msg)
    BY <1>3, <1>8, <1>9, <2>1
  <2>3. \A j \in 1..Len(unread') : unread'[j] = unread'[i] => j = i
    BY <1>3, <1>6, <1>9 DEF SpokenOnce
  <2> QED
    BY <2>1, <2>2, <2>3 DEF Recent, Stored
<1>10. writer.at # "idle" => Recent(writer.msg)'
  <2>1. PICK x : x = writer.msg
    OBVIOUS
  <2>2. writer.at # "idle" => Recent(x)'
    BY <1>5, <2>1 DEF SpokenOnce
  <2> QED
    BY <2>1, <2>2 DEF Recent
<1>11. writer.at \in {"tail", "read", "write"} => ~ Stored(writer.msg)' \/ writer.msg \in unsure
  BY DEF SpokenOnce, Stored
<1> QED
  BY <1>7, <1>9, <1>10, <1>11 DEF SpokenOnce, Spoken

\* The next message leaves the inbox, for the writer or for good.
LEMMA SpokenTake ==
  ASSUME StreamInv, SpokenOnce, unread # <<>>, writer.at = "idle", unread' = Tail(unread),
         UNCHANGED <<rows, unsure, made, turns, driven>>,
         writer' = writer \/ (Spoken(Head(unread)) /\ writer'.msg = Head(unread) /\ writer'.at # "cast")
  PROVE  SpokenOnce'
<1>1. unread \in Seq(Messages) /\ Len(unread) \in Nat /\ Len(unread) > 0
  BY DEF StreamInv, Typed, ActorTyped
<1>2. /\ Len(unread') = Len(unread) - 1 /\ 1 \in 1..Len(unread) /\ Head(unread) = unread[1]
      /\ \A i \in 1..Len(unread') : i + 1 \in 1..Len(unread) /\ unread'[i] = unread[i + 1] /\ i + 1 # 1
  BY <1>1
<1>3. \A s \in DOMAIN rows : Recent(rows[s])'
  BY DEF SpokenOnce, Recent
<1>4. \A e : (Recent(e) => Recent(e)') /\ (Stored(e)' => Stored(e))
  BY DEF Recent, Stored
<1>5. ASSUME NEW i \in 1..Len(unread'), Spoken(unread'[i])
      PROVE  /\ Recent(unread[i])' /\ ~ Stored(unread[i])'
             /\ \A j \in 1..Len(unread') : unread'[j] = unread'[i] => j = i
             /\ writer'.at # "idle" => unread'[i] # writer'.msg
  <2>1. PICK x : x = unread'[i]
    OBVIOUS
  <2>2. /\ Recent(x) /\ ~ Stored(x) /\ x = unread[i + 1] /\ i + 1 \in 1..Len(unread)
        /\ \A j \in 1..Len(unread) : unread[j] = x => j = i + 1
    BY <1>2, <1>5, <2>1 DEF SpokenOnce
  <2>3. Recent(x)' /\ ~ Stored(x)'
    BY <1>4, <2>2
  <2>4. \A j \in 1..Len(unread') : unread'[j] = x => j = i
    BY <1>1, <1>2, <2>2
  <2>5. x # unread[1]
    BY <1>2, <2>2
  <2> QED
    BY <1>2, <2>1, <2>3, <2>4, <2>5 DEF Recent, Stored
<1>6. /\ writer'.at # "idle" => Recent(writer.msg)'
      /\ writer'.at \in {"tail", "read", "write"} => ~ Stored(writer.msg)'
  <2>1. PICK m : m = Head(unread)
    OBVIOUS
  <2>2. Spoken(m) => Recent(m)' /\ ~ Stored(m)'
    BY <1>2, <1>4, <2>1 DEF SpokenOnce
  <2> QED
    BY <2>1, <2>2 DEF Recent, Stored
<1> QED
  BY <1>3, <1>5, <1>6 DEF SpokenOnce

\* The writer goes on with its message, or gives it up.
LEMMA SpokenWriter ==
  ASSUME SpokenOnce, UNCHANGED <<rows, unsure, made, turns, driven, unread>>,
         \/ writer' = IdleWriter
         \/ writer.at \in {"tail", "read", "write"} /\ writer'.msg = writer.msg
  PROVE  SpokenOnce'
<1>1. IdleWriter.at = "idle"
  BY DEF IdleWriter
<1>2. \A e : (Recent(e) => Recent(e)') /\ (Stored(e)' => Stored(e))
  BY DEF Recent, Stored
<1>3. \A s \in DOMAIN rows : Recent(rows[s])'
  BY DEF SpokenOnce, Recent
<1>4. ASSUME NEW i \in 1..Len(unread), Spoken(unread[i])
      PROVE  /\ Recent(unread[i])' /\ ~ Stored(unread[i])'
             /\ \A j \in 1..Len(unread) : unread[j] = unread[i] => j = i
             /\ writer'.at # "idle" => unread[i] # writer'.msg
  BY <1>1, <1>4 DEF SpokenOnce, Recent, Stored
<1>5. /\ writer'.at # "idle" => Recent(writer.msg)'
      /\ writer'.at \in {"tail", "read", "write"} => ~ Stored(writer.msg)' \/ writer'.msg \in unsure
  BY <1>1 DEF SpokenOnce, Recent, Stored
<1> QED
  BY <1>3, <1>4, <1>5 DEF SpokenOnce, Spoken

\* An entry is inserted that is new, or of which a write raised before.
LEMMA InsertOnce ==
  ASSUME LogOnce, NEW p, p \notin DOMAIN rows, NEW e, ~ Stored(e) \/ e \in unsure, rows' = WithRow(p, e),
         unsure' = unsure \/ (unsure' = unsure \cup {e} /\ e[1] # "user"),
         \A u \in Users : user'[u].at \in {"new", "write", "failed"} =>
           user[u].at \in {"new", "write", "failed"} /\ e # UserEntry(u)
  PROVE  LogOnce' /\ \A x : Stored(x)' => Stored(x) \/ x = e
<1>1. /\ DOMAIN rows' = DOMAIN rows \cup {p} /\ rows'[p] = e
      /\ \A s \in DOMAIN rows : rows'[s] = rows[s]
  BY DEF WithRow
<1>2. \A x : Stored(x)' => Stored(x) \/ x = e
  BY <1>1 DEF Stored
<1>3. unsure \subseteq unsure' /\ \A x \in unsure' : x[1] # "user"
  BY DEF LogOnce
<1>4. \A s, t \in DOMAIN rows' : rows'[s] = rows'[t] => s = t \/ rows'[s] \in unsure'
  <2> SUFFICES ASSUME NEW s \in DOMAIN rows', NEW t \in DOMAIN rows', rows'[s] = rows'[t], s # t
               PROVE  rows'[s] \in unsure'
    OBVIOUS
  <2>1. CASE s \in DOMAIN rows /\ t \in DOMAIN rows
    BY <1>1, <1>3, <2>1 DEF LogOnce
  <2>2. CASE s = p \/ t = p
    BY <1>1, <1>3, <2>2 DEF Stored
  <2> QED
    BY <1>1, <2>1, <2>2
<1>5. ASSUME NEW u \in Users, user'[u].at \in {"new", "write", "failed"}
      PROVE  ~ Stored(UserEntry(u))'
  <2>1. PICK x : x = UserEntry(u)
    OBVIOUS
  <2>2. ~ Stored(x) /\ x # e
    BY <1>5, <2>1 DEF LogOnce
  <2>3. ~ Stored(x)'
    BY <1>2, <2>2
  <2> QED
    BY <2>1, <2>3
<1> QED
  BY <1>2, <1>3, <1>4, <1>5 DEF LogOnce

\* No entry is written or deleted, and nobody goes back to where he had none.
LEMMA LogFrame ==
  ASSUME LogOnce, UNCHANGED <<rows, unsure>>,
         \A u \in Users : user'[u].at \in {"new", "write", "failed"} => user[u].at \in {"new", "write", "failed"}
  PROVE  LogOnce'
BY DEF LogOnce, Stored

\* Only the counters move, and what was recent stays so.
LEMMA SpokenLater ==
  ASSUME SpokenOnce, UNCHANGED <<rows, unsure, unread, writer>>,
         \A e \in Entries \cup Messages : Recent(e) => Recent(e)',
         \A s \in DOMAIN rows : rows[s] \in Entries,
         \A i \in 1..Len(unread) : unread[i] \in Messages,
         writer.at # "idle" => writer.msg \in Messages
  PROVE  SpokenOnce'
<1>1. ASSUME NEW x, x \in Entries \cup Messages, Recent(x) PROVE Recent(x)'
  BY <1>1
<1>2. \A s \in DOMAIN rows : Recent(rows[s])'
  <2> TAKE s \in DOMAIN rows
  <2>1. PICK x : x = rows[s]
    OBVIOUS
  <2>2. Recent(x)'
    BY <1>1, <2>1 DEF SpokenOnce
  <2> QED
    BY <2>1, <2>2 DEF Recent
<1>3. ASSUME NEW i \in 1..Len(unread), Spoken(unread[i])
      PROVE  Recent(unread[i])'
  <2>1. PICK x : x = unread[i]
    OBVIOUS
  <2>2. Recent(x)'
    BY <1>1, <1>3, <2>1 DEF SpokenOnce
  <2> QED
    BY <2>1, <2>2 DEF Recent
<1>4. writer.at # "idle" => Recent(writer.msg)'
  <2>1. PICK x : x = writer.msg
    OBVIOUS
  <2>2. writer.at # "idle" => Recent(x)'
    BY <1>1, <2>1 DEF SpokenOnce
  <2> QED
    BY <2>1, <2>2 DEF Recent
<1> QED
  BY <1>2, <1>3, <1>4 DEF SpokenOnce, Spoken, Stored

\* The queue and the client see nothing of the step.
LEMMA QuietClient ==
  ASSUME StreamInv, ChanOnce, ShownOnce, RowsKept, UNCHANGED <<chan, cursor, shown>>
  PROVE  ChanOnce' /\ ShownOnce'
<1>1. \A k \in 1..Len(chan'.queue) : \E item :
        chan'.queue[k] = item /\ ((\E j \in 1..Len(chan.queue) : chan.queue[j] = item) \/ Kept(item)')
  OBVIOUS
<1> QED
  BY <1>1, ClientKeeps

\* A step of one user that writes or deletes no entry.
LEMMA UserOnce ==
  ASSUME StreamInv, Once, UNCHANGED <<rows, unsure, made, turns, driven, unread, writer, chan, cursor, shown>>,
         \A w \in Users : \/ user'[w].at = user[w].at
                          \/ user[w].at = "new" /\ user'[w].at = "write"
                          \/ user[w].at \in {"send", "sent"} /\ user'[w].at \in {"sent", "undo"}
                          \/ user[w].at \in {"write", "send", "undo"} /\ user'[w].at = "left"
  PROVE  Once'
<1>1. OwnOK
  BY DEF StreamInv
<1>2. LogOnce'
  BY LogFrame DEF Once
<1>3. SpokenOnce'
  BY <1>1, SpokenFrame DEF Once
<1>4. RowsKept
  BY DEF RowsKept
<1>5. ChanOnce' /\ ShownOnce'
  BY <1>4, QuietClient DEF Once
<1> QED
  BY <1>2, <1>3, <1>5 DEF Once

LEMMA AdmittedOnce ==
  ASSUME StreamInv, Once, NEW u \in Users, Admitted(u)
  PROVE  Once'
<1>1. /\ user' = [user EXCEPT ![u] = [at |-> "write", seq |-> LastSeq + 1]] /\ user[u].at = "new"
      /\ UNCHANGED <<rows, unsure, made, turns, driven, unread, writer, chan, cursor, shown>>
  BY DEF Admitted, logVars, actorSide, castVars, clientVars
<1>2. \A w \in Users : user'[w] = IF w = u THEN [at |-> "write", seq |-> LastSeq + 1] ELSE user[w]
  BY <1>1 DEF StreamInv, Typed, UserTyped
<1>3. \A w \in Users : user'[w].at = user[w].at \/ (user[w].at = "new" /\ user'[w].at = "write")
  BY <1>1, <1>2
<1> QED
  BY <1>1, <1>3, UserOnce

LEMMA QueuedOnce ==
  ASSUME StreamInv, Once, NEW u \in Users, Queued(u)
  PROVE  Once'
<1>1. PICK at : at = IF alive THEN "sent" ELSE "undo"
  OBVIOUS
<1>2. /\ user' = [user EXCEPT ![u].at = at] /\ user[u].at = "send"
      /\ UNCHANGED <<rows, unsure, made, turns, driven, unread, writer, chan, cursor, shown>>
  BY <1>1 DEF Queued, logVars, castVars, clientVars
<1>3. \A w \in Users : user'[w].at = IF w = u THEN at ELSE user[w].at
  BY <1>2 DEF StreamInv, Typed, UserTyped
<1>4. \A w \in Users : user'[w].at = user[w].at \/ (user[w].at \in {"send", "sent"} /\ user'[w].at \in {"sent", "undo"})
  BY <1>1, <1>2, <1>3
<1> QED
  BY <1>2, <1>4, UserOnce

\* The entry of a user is inserted, and the call goes on or ends.
LEMMA UserInsertsOnce ==
  ASSUME StreamInv, Once, NEW u \in Users, user[u].at = "write", NEW at \in {"send", "left"},
         NEW p, p \notin DOMAIN rows, NEW e, e = UserEntry(u),
         user' = [user EXCEPT ![u].at = at], rows' = WithRow(p, e),
         UNCHANGED <<unsure, made, turns, driven, unread, writer, chan, cursor, shown>>
  PROVE  Once'
<1>1. Typed /\ OwnOK
  BY DEF StreamInv
<1>2. \A w \in Users : user'[w].at = IF w = u THEN at ELSE user[w].at
  BY <1>1 DEF Typed, UserTyped
<1>3. ~ Stored(e)
  BY DEF Once, LogOnce
<1>4. \A w \in Users : w # u => e # UserEntry(w)
  BY UserEntryIs
<1>5. LogOnce' /\ \A x : Stored(x)' => Stored(x) \/ x = e
  BY <1>2, <1>3, <1>4, InsertOnce DEF Once
<1>6. e[1] = "user"
  BY UserEntryIs
<1>7. /\ \A s \in DOMAIN rows : s \in DOMAIN rows' /\ rows'[s] = rows[s]
      /\ \A s \in DOMAIN rows' : (s \in DOMAIN rows /\ rows[s] = rows'[s]) \/ rows'[s] = e
  BY DEF WithRow
<1>8. SpokenOnce'
  <2>1. \A s \in DOMAIN rows' : rows'[s][1] = "user" \/ \E t \in DOMAIN rows : rows[t] = rows'[s]
    BY <1>6, <1>7
  <2> QED
    BY <1>1, <2>1, SpokenFrame DEF Once
<1>9. RowsKept
  BY <1>2, <1>7 DEF RowsKept
<1>10. ChanOnce' /\ ShownOnce'
  BY <1>9, QuietClient DEF Once
<1> QED
  BY <1>5, <1>8, <1>10 DEF Once

LEMMA UserWritesOnce ==
  ASSUME StreamInv, Once, NEW u \in Users, UserWrites(u)
  PROVE  Once'
<1>1. user[u].at = "write" /\ UNCHANGED <<unsure, made, turns, driven, unread, writer, chan, cursor, shown>>
  BY DEF UserWrites, actorSide, castVars, clientVars
<1>2. CASE user[u].seq \in DOMAIN rows
  <2>1. user' = [user EXCEPT ![u].seq = LastSeq + 1] /\ rows' = rows
    BY <1>2 DEF UserWrites
  <2>2. \A w \in Users : user'[w].at = user[w].at
    BY <2>1 DEF StreamInv, Typed, UserTyped
  <2> QED
    BY <1>1, <2>1, <2>2, UserOnce
<1>3. CASE user[u].seq \notin DOMAIN rows
  <2>1. PICK p, e : p = user[u].seq /\ e = UserEntry(u)
    OBVIOUS
  <2>2. user' = [user EXCEPT ![u].at = "send"] /\ rows' = WithRow(p, e) /\ p \notin DOMAIN rows
    BY <1>3, <2>1 DEF UserWrites
  <2> QED
    BY <1>1, <2>1, <2>2, UserInsertsOnce
<1> QED
  BY <1>2, <1>3

LEMMA UserFailsOnce ==
  ASSUME StreamInv, Once, NEW u \in Users, UserFails(u)
  PROVE  Once'
<1>1. /\ user[u].at \in {"write", "send"} /\ user' = [user EXCEPT ![u].at = "left"]
      /\ UNCHANGED <<unsure, made, turns, driven, unread, writer, chan, cursor, shown>>
  BY DEF UserFails, actorSide, castVars, clientVars
<1>2. CASE rows' = rows
  <2>1. \A w \in Users : user'[w].at = IF w = u THEN "left" ELSE user[w].at
    BY <1>1 DEF StreamInv, Typed, UserTyped
  <2>2. \A w \in Users : user'[w].at = user[w].at \/ (user[w].at \in {"write", "send"} /\ user'[w].at = "left")
    BY <1>1, <2>1
  <2> QED
    BY <1>1, <1>2, <2>2, UserOnce
<1>3. CASE user[u].at = "write" /\ user[u].seq \notin DOMAIN rows /\ rows' = WithRow(user[u].seq, UserEntry(u))
  <2>1. PICK p, e : p = user[u].seq /\ e = UserEntry(u)
    OBVIOUS
  <2> QED
    BY <1>1, <1>3, <2>1, UserInsertsOnce
<1> QED
  BY <1>2, <1>3 DEF UserFails

LEMMA UndoFailsOnce ==
  ASSUME StreamInv, Once, NEW u \in Users, UndoFails(u)
  PROVE  Once'
<1>1. /\ user[u].at = "undo" /\ user' = [user EXCEPT ![u].at = "left"]
      /\ UNCHANGED <<rows, unsure, made, turns, driven, unread, writer, chan, cursor, shown>>
  BY DEF UndoFails, logVars, actorSide, castVars, clientVars
<1>2. \A w \in Users : user'[w].at = IF w = u THEN "left" ELSE user[w].at
  BY <1>1 DEF StreamInv, Typed, UserTyped
<1>3. \A w \in Users : user'[w].at = user[w].at \/ (user[w].at = "undo" /\ user'[w].at = "left")
  BY <1>1, <1>2
<1> QED
  BY <1>1, <1>3, UserOnce

LEMMA UndoneOnce ==
  ASSUME StreamInv, Once, NEW u \in Users, Undone(u)
  PROVE  Once'
<1>1. Typed /\ OwnOK
  BY DEF StreamInv
<1>2. PICK p, e : p = user[u].seq /\ e = UserEntry(u)
  OBVIOUS
<1>3. /\ user[u].at = "undo" /\ user' = [user EXCEPT ![u].at = "failed"]
      /\ rows' = WithoutRow(p)
      /\ UNCHANGED <<unsure, turns, driven, unread, writer, made, chan, cursor, shown>>
  BY <1>2 DEF Undone, actorSide, castVars, clientVars
<1>4. p \in DOMAIN rows /\ rows[p] = e
  BY <1>1, <1>2, <1>3 DEF OwnOK
<1>5. \A w \in Users : user'[w].at = IF w = u THEN "failed" ELSE user[w].at
  BY <1>1, <1>3 DEF Typed, UserTyped
<1>6. DOMAIN rows' = DOMAIN rows \ {p} /\ \A s \in DOMAIN rows' : rows'[s] = rows[s]
  BY <1>3 DEF WithoutRow
<1>7. LogOnce'
  <2>1. /\ \A s, t \in DOMAIN rows' : rows'[s] = rows'[t] => s = t \/ rows'[s] \in unsure'
        /\ \A x \in unsure' : x[1] # "user"
    BY <1>3, <1>6 DEF Once, LogOnce
  <2>2. ASSUME NEW w \in Users, user'[w].at \in {"new", "write", "failed"}
        PROVE  ~ Stored(UserEntry(w))'
    <3>1. PICK x : x = UserEntry(w)
      OBVIOUS
    <3>2. CASE w = u
      <4>1. x \notin unsure
        BY <3>1, UserEntryIs DEF Once, LogOnce
      <4>2. \A s \in DOMAIN rows : rows[s] = x => s = p
        BY <1>2, <1>4, <3>1, <3>2, <4>1 DEF Once, LogOnce
      <4>3. ~ Stored(x)'
        BY <1>6, <4>2 DEF Stored
      <4> QED
        BY <3>1, <4>3
    <3>3. CASE w # u
      <4>1. ~ Stored(x)
        BY <1>5, <2>2, <3>1, <3>3 DEF Once, LogOnce
      <4>2. ~ Stored(x)'
        BY <1>6, <4>1 DEF Stored
      <4> QED
        BY <3>1, <4>2
    <3> QED
      BY <3>2, <3>3
  <2> QED
    BY <2>1, <2>2 DEF LogOnce
<1>8. SpokenOnce'
  BY <1>1, <1>3, <1>6, SpokenFrame DEF Once
<1>9. RowsKept
  <2>1. \A s \in DOMAIN rows : s = p \/ (s \in DOMAIN rows' /\ rows'[s] = rows[s])
    BY <1>6
  <2> QED
    BY <1>2, <1>3, <1>4, <1>5, <2>1 DEF RowsKept
<1>10. ChanOnce' /\ ShownOnce'
  BY <1>3, <1>9, QuietClient DEF Once
<1> QED
  BY <1>7, <1>8, <1>10 DEF Once

LEMMA AcceptedOnce ==
  ASSUME StreamInv, Once, Accepted
  PROVE  Once'
<1>1. Typed /\ OwnOK /\ TurnOK
  BY DEF StreamInv
<1>2. PICK u : u = Head(waiting)
  OBVIOUS
<1>3. PICK item : item = <<"entry", user[u].seq, UserEntry(u)>>
  OBVIOUS
<1>4. /\ waiting # <<>> /\ driven = 0
      /\ turns' = turns + 1 /\ driven' = turns + 1
      /\ user' = [user EXCEPT ![u].at = "accepted"]
      /\ chan' = Deliver(chan, item)
      /\ UNCHANGED <<rows, unsure, unread, writer, made, cursor, shown>>
  BY <1>2, <1>3, DeliveredOne DEF Accepted, CastEntry, logVars, clientVars
<1>5. waiting \in Seq(Users) /\ Len(waiting) \in Nat /\ Len(waiting) > 0
  BY <1>1, <1>4 DEF Typed, ActorTyped
<1>6. u \in Users /\ user[u].at = "sent"
  BY <1>1, <1>2, <1>5 DEF OwnOK
<1>7. user[u].seq \in DOMAIN rows /\ rows[user[u].seq] = UserEntry(u) /\ user[u].seq \in Nat
  BY <1>1, <1>6, LastSeqIs DEF OwnOK
<1>8. \A w \in Users : user'[w].at = IF w = u THEN "accepted" ELSE user[w].at
  BY <1>1, <1>4 DEF Typed, UserTyped
<1>9. LogOnce'
  BY <1>4, <1>8, LogFrame DEF Once
<1>10. SpokenOnce'
  <2>1. \A e \in Entries \cup Messages : Recent(e) => Recent(e)'
    BY <1>1, <1>4, RecentLater
  <2>2. \A s \in DOMAIN rows : rows[s] \in Entries
    BY <1>1 DEF Typed, LogTyped
  <2>3. \A i \in 1..Len(unread) : unread[i] \in Messages
    BY <1>1 DEF Typed, ActorTyped
  <2>4. writer.at # "idle" => writer.msg \in Messages
    BY <1>1 DEF Typed, WriterTyped, OwnOK
  <2> QED
    BY <1>4, <2>1, <2>2, <2>3, <2>4, SpokenLater DEF Once
<1>11. RowsKept
  BY <1>4, <1>6, <1>8 DEF RowsKept
<1>12. item \in Items /\ Kept(item)'
  <2>1. UserEntry(u) \in Entries
    BY <1>6, UserEntryIs
  <2>2. item \in Items /\ item[1] = "entry" /\ item[2] = user[u].seq /\ item[3] = UserEntry(u)
    BY <1>3, <1>7, <2>1 DEF Items
  <2>3. \A w \in Users : UserEntry(w)[2] = w
    BY UserEntryIs
  <2>4. \A w \in Users : UserEntry(u) = UserEntry(w) => w = u
    BY <1>6, <2>3, Zenon
  <2>5. user'[u].at = "accepted"
    BY <1>6, <1>8
  <2> QED
    BY <1>4, <1>6, <1>7, <1>8, <2>2, <2>4, <2>5 DEF Kept
<1>13. ChanOnce' /\ ShownOnce'
  BY <1>4, <1>11, <1>12, CastKeeps DEF Once
<1> QED
  BY <1>9, <1>10, <1>13 DEF Once

LEMMA RefusedOnce ==
  ASSUME StreamInv, Once, Refused
  PROVE  Once'
<1>1. Typed /\ OwnOK
  BY DEF StreamInv
<1>2. PICK m : m = <<"crash", 0, 0>>
  OBVIOUS
<1>3. /\ user' = [u \in Users |-> IF u \in ToSet(waiting) THEN [user[u] EXCEPT !.at = "undo"] ELSE user[u]]
      /\ unread' = Append(unread, m)
      /\ UNCHANGED <<rows, unsure, turns, driven, writer, made, chan, cursor, shown>>
  BY <1>2 DEF Refused, logVars, castVars, clientVars
<1>4. \A u \in ToSet(waiting) : user[u].at = "sent"
  BY <1>1 DEF ToSet, OwnOK, Typed, ActorTyped
<1>5. \A u \in Users : user'[u].at = user[u].at \/ (user[u].at = "sent" /\ user'[u].at = "undo")
  BY <1>1, <1>3, <1>4 DEF Typed, UserTyped
<1>6. LogOnce'
  BY <1>3, <1>5, LogFrame DEF Once
<1>7. SpokenOnce'
  <2>1. m \in Messages /\ ~ Spoken(m)
    BY <1>2 DEF Messages, Spoken
  <2>2. \A e \in Entries \cup Messages : Recent(e) => Recent(e)'
    BY <1>3 DEF Recent
  <2> QED
    BY <1>3, <2>1, <2>2, SpokenAppend DEF Once
<1>8. RowsKept
  BY <1>3, <1>5 DEF RowsKept
<1>9. ChanOnce' /\ ShownOnce'
  BY <1>3, <1>8, QuietClient DEF Once
<1> QED
  BY <1>6, <1>7, <1>9 DEF Once

LEMMA ReconnectedOnce ==
  ASSUME StreamInv, Once, Reconnected
  PROVE  Once'
<1>1. Typed /\ OwnOK
  BY DEF StreamInv
<1>2. /\ chan' = [chan EXCEPT !.on = FALSE]
      /\ UNCHANGED <<rows, unsure, turns, driven, unread, writer, made, user, cursor, shown>>
  BY DEF Reconnected, logVars, clientVars
<1>3. chan'.queue = chan.queue
  BY <1>1, <1>2 DEF Typed, Chans
<1>4. LogOnce' /\ RowsKept
  BY <1>2, LogFrame DEF Once, RowsKept
<1>5. SpokenOnce'
  BY <1>1, <1>2, SpokenFrame DEF Once
<1>6. ChanOnce' /\ ShownOnce'
  <2>1. \A k \in 1..Len(chan'.queue) : \E item :
          chan'.queue[k] = item /\ ((\E j \in 1..Len(chan.queue) : chan.queue[j] = item) \/ Kept(item)')
    BY <1>3
  <2> QED
    BY <1>2, <1>4, <2>1, ClientKeeps DEF Once
<1> QED
  BY <1>4, <1>5, <1>6 DEF Once

\* The callback of the actor: one message comes into the inbox, and something is broadcast
\* that is not an entry.
LEMMA CallbackOnce ==
  ASSUME StreamInv, Once, NEW m \in Messages, NEW item, item \in {<<"raw">>, <<"result">>},
         unread' = Append(unread, m), Cast(<<item>>),
         UNCHANGED <<rows, unsure, writer, user, cursor, shown>>,
         Spoken(m) => ~ Recent(m) /\ Recent(m)',
         \A e \in Entries \cup Messages : Recent(e) => Recent(e)'
  PROVE  Once'
<1>1. chan' = Deliver(chan, item)
  BY DeliveredOne DEF Cast
<1>2. item \in Items /\ Kept(item)'
  BY DEF Items, Kept
<1>3. LogOnce' /\ RowsKept
  BY LogFrame DEF Once, RowsKept
<1>4. SpokenOnce'
  BY SpokenAppend DEF Once
<1>5. ChanOnce' /\ ShownOnce'
  BY <1>1, <1>2, <1>3, CastKeeps DEF Once
<1> QED
  BY <1>3, <1>4, <1>5 DEF Once

LEMMA SpeaksOnce ==
  ASSUME StreamInv, Once, NEW kind \in {"say", "echo"}, Speaks(kind)
  PROVE  Once'
<1>1. Typed /\ driven \in Nat /\ made \in Nat /\ turns \in Nat
  BY DEF StreamInv, Typed, ActorTyped
<1>2. PICK m : m = <<kind, made + 1, driven>>
  OBVIOUS
<1>3. /\ made' = made + 1 /\ unread' = Append(unread, m) /\ Cast(<<<<"raw">>>>)
      /\ UNCHANGED <<rows, unsure, driven, turns, writer, user, cursor, shown>>
  BY <1>2 DEF Speaks, logVars, clientVars
<1>4. m \in Messages /\ m[1] \in {"say", "echo"} /\ m[2] = made + 1
  BY <1>1, <1>2 DEF Messages
<1>5. ~ Recent(m) /\ Recent(m)'
  BY <1>1, <1>3, <1>4 DEF Recent
<1>6. \A e \in Entries \cup Messages : Recent(e) => Recent(e)'
  BY <1>1, <1>3, RecentLater
<1> QED
  BY <1>3, <1>4, <1>5, <1>6, CallbackOnce

LEMMA ResultsOnce ==
  ASSUME StreamInv, Once, NEW how \in {"completed", "result"}, Results(how)
  PROVE  Once'
<1>1. Typed /\ driven \in Nat /\ made \in Nat /\ turns \in Nat /\ driven <= turns
  BY DEF StreamInv, Typed, ActorTyped, TurnOK
<1>2. PICK m : m = <<how, 0, driven>>
  OBVIOUS
<1>3. /\ driven # 0 /\ driven' = 0 /\ unread' = Append(unread, m) /\ Cast(<<<<"result">>>>)
      /\ UNCHANGED <<rows, unsure, made, turns, writer, user, cursor, shown>>
  BY <1>2 DEF Results, logVars, clientVars
<1>4. m \in Messages /\ m[1] \in {"completed", "result"} /\ m[3] = driven
  BY <1>1, <1>2 DEF Messages
<1>5. Spoken(m) => ~ Recent(m) /\ Recent(m)'
  BY <1>1, <1>3, <1>4 DEF Recent, Spoken
<1>6. \A e \in Entries \cup Messages : Recent(e) => Recent(e)'
  BY <1>1, <1>3, RecentLater
<1> QED
  BY <1>3, <1>4, <1>5, <1>6, CallbackOnce

\* A step of the inbox processor that writes no entry, and may announce the end of a turn.
LEMMA WriterOnce ==
  ASSUME StreamInv, Once, SpokenOnce', UNCHANGED <<rows, unsure, user, cursor, shown>>,
         NEW item \in Items, item[1] # "entry", chan' = chan \/ chan' = Deliver(chan, item)
  PROVE  Once'
<1>1. LogOnce' /\ RowsKept
  BY LogFrame DEF Once, RowsKept
<1>2. Kept(item)'
  BY DEF Kept
<1>3. ChanOnce' /\ ShownOnce'
  BY <1>1, <1>2, QuietClient, CastKeeps DEF Once
<1> QED
  BY <1>1, <1>3 DEF Once

LEMMA TakeMessageOnce ==
  ASSUME StreamInv, Once, TakeMessage
  PROVE  Once'
<1>1. PICK m : m = Head(unread)
  OBVIOUS
<1>2. unread \in Seq(Messages) /\ unread # <<>>
  BY DEF StreamInv, Typed, ActorTyped, TakeMessage
<1>3. m \in Messages
  BY <1>1, <1>2
<1>4. m[3] \in Nat /\ m[1] \in {"say", "echo", "completed", "result", "crash"}
  BY <1>3 DEF Messages
<1>5. /\ writer.at = "idle" /\ unread' = Tail(unread)
      /\ UNCHANGED <<rows, unsure, turns, driven, made, user, cursor, shown>>
  BY DEF TakeMessage, writerOthers, logVars, clientVars
<1>6. CASE m[1] = "crash"
  <2>1. writer' = writer /\ chan' = Deliver(chan, <<"runtime">>)
    BY <1>1, <1>6, DeliveredOne DEF TakeMessage, Cast
  <2>2. SpokenOnce'
    BY <1>2, <1>5, <2>1, SpokenTake DEF Once
  <2>3. <<"runtime">> \in Items /\ <<"runtime">>[1] # "entry"
    BY DEF Items
  <2> QED
    BY <1>5, <2>1, <2>2, <2>3, WriterOnce
<1>7. CASE m[1] = "completed"
  <2>1. PICK item : item = <<"complete", m[3]>>
    OBVIOUS
  <2>2. writer' = writer /\ chan' = Deliver(chan, item)
    BY <1>1, <1>7, <2>1, DeliveredOne DEF TakeMessage, Cast
  <2>3. SpokenOnce'
    BY <1>2, <1>5, <2>2, SpokenTake DEF Once
  <2>4. item \in Items /\ item[1] # "entry"
    BY <1>4, <2>1 DEF Items
  <2> QED
    BY <1>5, <2>2, <2>3, <2>4, WriterOnce
<1>8. CASE m[1] \in {"say", "echo", "result"}
  <2>1. chan' = chan /\ \E at \in {"tail", "read"} : writer' = [at |-> at, msg |-> m, seq |-> -1]
    BY <1>1, <1>8 DEF TakeMessage, castVars
  <2>2. writer'.msg = m /\ writer'.at # "cast" /\ Spoken(m)
    BY <1>8, <2>1 DEF Spoken
  <2>3. SpokenOnce'
    BY <1>1, <1>2, <1>5, <2>2, SpokenTake DEF Once
  <2>4. <<"runtime">> \in Items /\ <<"runtime">>[1] # "entry"
    BY DEF Items
  <2> QED
    BY <1>5, <2>1, <2>3, <2>4, WriterOnce
<1> QED
  BY <1>4, <1>6, <1>7, <1>8

LEMMA ChecksTailOnce ==
  ASSUME StreamInv, Once, ChecksTail
  PROVE  Once'
<1>1. Typed
  BY DEF StreamInv
<1>2. PICK item : item = <<"complete", writer.msg[3]>>
  OBVIOUS
<1>3. /\ writer.at = "tail"
      /\ writer' = IdleWriter \/ writer' = [writer EXCEPT !.at = "read"]
      /\ chan' = chan \/ chan' = Deliver(chan, item)
      /\ UNCHANGED <<rows, unsure, turns, driven, made, unread, user, cursor, shown>>
  BY <1>2, DeliveredOne DEF ChecksTail, Cast, castVars, writerOthers, logVars, clientVars
<1>4. writer' = IdleWriter \/ writer'.msg = writer.msg
  BY <1>1, <1>3 DEF Typed, WriterTyped
<1>5. SpokenOnce'
  BY <1>3, <1>4, SpokenWriter DEF Once
<1>6. item \in Items /\ item[1] # "entry"
  <2>1. writer.msg \in Messages \cup {<<"none", 0, 0>>}
    BY <1>1 DEF Typed, WriterTyped
  <2>2. writer.msg[3] \in Nat
    BY <2>1, MessageParts
  <2> QED
    BY <1>2, <2>2 DEF Items
<1> QED
  BY <1>3, <1>5, <1>6, WriterOnce

\* A step of the inbox processor that neither writes nor announces.
LEMMA QuietWriterOnce ==
  ASSUME StreamInv, Once, UNCHANGED <<rows, unsure, turns, driven, made, unread, user, chan, cursor, shown>>,
         writer.at \in {"read", "write"},
         \/ writer' = IdleWriter
         \/ \E y : writer' = y /\ y.msg = writer.msg
  PROVE  Once'
<1>1. SpokenOnce'
  BY SpokenWriter DEF Once
<1>2. <<"runtime">> \in Items /\ <<"runtime">>[1] # "entry"
  BY DEF Items
<1> QED
  BY <1>1, <1>2, WriterOnce

LEMMA ReadsSeqOnce ==
  ASSUME StreamInv, Once, ReadsSeq
  PROVE  Once'
<1>1. /\ writer.at = "read" /\ writer' = [writer EXCEPT !.at = "write", !.seq = LastSeq + 1]
      /\ UNCHANGED <<rows, unsure, turns, driven, made, unread, user, chan, cursor, shown>>
  BY DEF ReadsSeq, castVars, writerOthers, logVars, clientVars
<1>2. writer'.msg = writer.msg
  BY <1>1 DEF StreamInv, Typed, WriterTyped
<1> QED
  BY <1>1, <1>2, QuietWriterOnce

\* The writer inserts its entry, and goes on with it only when the insert has raised.
LEMMA WriterInsertsOnce ==
  ASSUME StreamInv, Once, writer.at = "write", NEW p, p \notin DOMAIN rows, NEW e, e = writer.msg,
         rows' = WithRow(p, e), unsure' = unsure \/ unsure' = unsure \cup {e},
         writer'.at # "idle" => writer'.msg = e,
         writer'.at \in {"tail", "read", "write"} => e \in unsure',
         UNCHANGED <<made, turns, driven, unread, user, chan, cursor, shown>>
  PROVE  Once'
<1>1. OwnOK
  BY DEF StreamInv
<1>2. (~ Stored(e) \/ e \in unsure) /\ Recent(e) /\ e[1] \in {"say", "echo", "result"}
  BY <1>1 DEF Once, SpokenOnce, OwnOK
<1>3. \A u \in Users : e # UserEntry(u)
  BY <1>2, UserEntryIs
<1>4. LogOnce' /\ \A x : Stored(x)' => Stored(x) \/ x = e
  BY <1>2, <1>3, InsertOnce DEF Once
<1>5. /\ \A s \in DOMAIN rows : s \in DOMAIN rows' /\ rows'[s] = rows[s]
      /\ \A s \in DOMAIN rows' : (s \in DOMAIN rows /\ rows[s] = rows'[s]) \/ rows'[s] = e
  BY DEF WithRow
<1>6. \A x : Recent(x) => Recent(x)'
  BY DEF Recent
<1>7. ASSUME NEW s \in DOMAIN rows' PROVE Recent(rows[s])'
  <2>1. PICK x : x = rows'[s]
    OBVIOUS
  <2>2. Recent(x)
    BY <1>2, <1>5, <2>1 DEF Once, SpokenOnce
  <2>3. Recent(x)'
    BY <1>6, <2>2
  <2> QED
    BY <2>1, <2>3 DEF Recent
<1>8. ASSUME NEW i \in 1..Len(unread), Spoken(unread[i])
      PROVE  /\ Recent(unread[i])' /\ ~ Stored(unread[i])'
             /\ \A j \in 1..Len(unread) : unread[j] = unread[i] => j = i
             /\ unread[i] # e
  <2>1. PICK x : x = unread[i]
    OBVIOUS
  <2>2. /\ Recent(x) /\ ~ Stored(x) /\ x # e
        /\ \A j \in 1..Len(unread) : unread[j] = x => j = i
    BY <1>8, <2>1 DEF Once, SpokenOnce
  <2>3. Recent(x)' /\ ~ Stored(x)'
    BY <1>4, <1>6, <2>2
  <2> QED
    BY <2>1, <2>2, <2>3 DEF Recent, Stored
<1>9. writer'.at # "idle" => Recent(writer.msg)'
  <2>1. Recent(e)'
    BY <1>2, <1>6
  <2> QED
    BY <2>1 DEF Recent
<1>10. writer'.at \in {"tail", "read", "write"} => writer'.msg \in unsure'
  OBVIOUS
<1>11. SpokenOnce'
  BY <1>7, <1>8, <1>9, <1>10 DEF SpokenOnce, Spoken
<1>12. RowsKept
  BY <1>5 DEF RowsKept
<1>13. ChanOnce' /\ ShownOnce'
  BY <1>12, QuietClient DEF Once
<1> QED
  BY <1>4, <1>11, <1>13 DEF Once

LEMMA WriteFailsOnce ==
  ASSUME StreamInv, Once, WriteFails
  PROVE  Once'
<1>1. /\ writer.at = "write"
      /\ writer' = IdleWriter \/ writer' = [writer EXCEPT !.at = "read"]
      /\ UNCHANGED <<turns, driven, made, unread, user, chan, cursor, shown>>
  BY DEF WriteFails, castVars, actorSide, clientVars
<1>2. PICK p, e : p = writer.seq /\ e = writer.msg
  OBVIOUS
<1>3. CASE writer' = IdleWriter /\ UNCHANGED <<rows, unsure>>
  BY <1>1, <1>3, QuietWriterOnce
<1>4. CASE p \notin DOMAIN rows /\ rows' = WithRow(p, e) /\ unsure' = unsure \cup {e}
  <2>1. writer'.at # "idle" => writer'.msg = e
    BY <1>1, <1>2 DEF IdleWriter, StreamInv, Typed, WriterTyped
  <2> QED
    BY <1>1, <1>2, <1>4, <2>1, WriterInsertsOnce
<1> QED
  BY <1>2, <1>3, <1>4 DEF WriteFails

LEMMA WritesOnce ==
  ASSUME StreamInv, Once, Writes
  PROVE  Once'
<1>1. Typed
  BY DEF StreamInv
<1>2. writer.at = "write" /\ UNCHANGED <<unsure, made, turns, driven, unread, user, chan, cursor, shown>>
  BY DEF Writes, actorSide, castVars, clientVars
<1>3. CASE writer' = [writer EXCEPT !.at = "read"] /\ rows' = rows
  <2>1. writer'.msg = writer.msg
    BY <1>1, <1>3 DEF Typed, WriterTyped
  <2> QED
    BY <1>2, <1>3, <2>1, QuietWriterOnce
<1>4. PICK p, e : p = writer.seq /\ e = writer.msg
  OBVIOUS
<1>5. CASE p \notin DOMAIN rows /\ rows' = WithRow(p, e) /\ writer' = [writer EXCEPT !.at = "cast"]
  <2>1. writer'.at = "cast" /\ writer'.msg = e
    BY <1>1, <1>4, <1>5 DEF Typed, WriterTyped
  <2> QED
    BY <1>2, <1>4, <1>5, <2>1, WriterInsertsOnce
<1> QED
  BY <1>3, <1>4, <1>5 DEF Writes

LEMMA BroadcastsOnce ==
  ASSUME StreamInv, Once, Broadcasts
  PROVE  Once'
<1>1. Typed /\ OwnOK
  BY DEF StreamInv
<1>2. PICK m, a, b : m = writer.msg /\ a = <<"entry", writer.seq, m>> /\ b = <<"complete", m[3]>>
  OBVIOUS
<1>3. /\ writer.at = "cast" /\ writer' = IdleWriter
      /\ chan' = Delivered(AfterWrite(writer.seq, m))
      /\ UNCHANGED <<rows, unsure, turns, driven, made, unread, user, cursor, shown>>
  BY <1>2 DEF Broadcasts, CastEntry, writerOthers, logVars, clientVars
<1>4. chan' = Deliver(chan, a) \/ chan' = Deliver(Deliver(chan, a), b)
  <2>1. AfterWrite(writer.seq, m) \in {<<a>>, <<a, b>>}
    BY <1>2 DEF AfterWrite
  <2>2. Delivered(<<a>>) = Deliver(chan, a) /\ Delivered(<<a, b>>) = Deliver(Deliver(chan, a), b)
    BY DeliveredOne, DeliveredTwo
  <2> QED
    BY <1>3, <2>1, <2>2
<1>5. /\ writer.seq \in DOMAIN rows /\ rows[writer.seq] = m /\ m[1] \in {"say", "echo", "result"}
      /\ writer.seq \in Nat
  BY <1>1, <1>2, <1>3, LastSeqIs DEF OwnOK
<1>6. m \in Entries /\ m[3] \in Nat
  BY <1>1, <1>5 DEF Typed, LogTyped, Entries
<1>7. a \in Items /\ b \in Items /\ a[1] = "entry" /\ a[2] = writer.seq /\ a[3] = m /\ b[1] = "complete"
  BY <1>2, <1>5, <1>6 DEF Items
<1>8. Kept(a)' /\ Kept(b)'
  <2>1. \A u \in Users : m # UserEntry(u)
    BY <1>5, UserEntryIs
  <2> QED
    BY <1>3, <1>5, <1>7, <2>1 DEF Kept
<1>9. LogOnce' /\ RowsKept
  BY <1>3, LogFrame DEF Once, RowsKept
<1>10. SpokenOnce'
  <2>1. writer'.at = "idle"
    BY <1>3 DEF IdleWriter
  <2>2. \A i \in 1..Len(unread) : Recent(unread[i]) => Recent(unread[i])'
    BY <1>3 DEF Recent
  <2>3. \A s \in DOMAIN rows : Recent(rows[s])'
    BY <1>3 DEF Recent, Once, SpokenOnce
  <2>4. \A i \in 1..Len(unread) : Stored(unread[i])' => Stored(unread[i])
    BY <1>3 DEF Stored
  <2> QED
    BY <1>3, <2>1, <2>2, <2>3, <2>4 DEF Once, SpokenOnce, Spoken
<1>11. ChanOnce' /\ ShownOnce'
  BY <1>3, <1>4, <1>7, <1>8, <1>9, CastKeeps DEF Once
<1> QED
  BY <1>9, <1>10, <1>11 DEF Once

\* More is given: entries of the log behind the cursor, no seq of them twice.
LEMMA MoreOnce ==
  ASSUME StreamInv, LogOnce, ShownOnce, NEW b \in Seq(Entries), shown' = shown \o b,
         UNCHANGED <<rows, unsure, user>>,
         cursor' \in Int, cursor <= cursor',
         \A k \in 1..Len(b) : \E s \in DOMAIN rows : s > cursor /\ s <= cursor' /\ b[k] = rows[s],
         \A k, l \in 1..Len(b) : k # l => \E s, t \in DOMAIN rows : s # t /\ b[k] = rows[s] /\ b[l] = rows[t]
  PROVE  ShownOnce'
<1>1. Typed /\ shown \in Seq(Entries) /\ cursor \in Int
  BY DEF StreamInv, Typed, ClientTyped
<1>2. PICK n, r : n = Len(shown) /\ r = shown \o b
  OBVIOUS
<1>3. /\ n \in Nat /\ Len(b) \in Nat /\ Len(r) = n + Len(b) /\ DOMAIN r = 1..(n + Len(b))
      /\ \A k \in 1..n : r[k] = shown[k]
      /\ \A k \in (n + 1)..(n + Len(b)) : k - n \in 1..Len(b) /\ r[k] = b[k - n]
  BY <1>1, <1>2
<1>4. ASSUME NEW k \in 1..n, NEW l \in 1..Len(b), shown[k] = b[l]
      PROVE  b[l] \in unsure
  <2>1. PICK e : e = b[l]
    OBVIOUS
  <2>2. PICK s \in DOMAIN rows : s > cursor /\ e = rows[s] /\ s \in Nat
    BY <1>1, <2>1, LastSeqIs
  <2>3. Origin(e)
    BY <1>2, <1>4, <2>1 DEF ShownOnce
  <2>4. \A u \in Users : user[u].at = "failed" => UserEntry(u) # e
    BY <2>2 DEF LogOnce, Stored
  <2>5. PICK t \in DOMAIN rows : t <= cursor /\ rows[t] = e
    BY <2>3, <2>4 DEF Origin
  <2>6. s # t
    BY <1>1, <2>2, <2>5
  <2> QED
    BY <2>1, <2>2, <2>5, <2>6 DEF LogOnce
<1>5. \A k, l \in 1..n : k # l /\ shown[k] = shown[l] => shown[k] \in unsure
  BY <1>2 DEF ShownOnce, GivenOnce
<1>6. \A k \in 1..(n + Len(b)) : k \in 1..n \/ k \in (n + 1)..(n + Len(b))
  BY <1>3
<1>7. ASSUME NEW k \in 1..(n + Len(b)), NEW l \in 1..(n + Len(b)), k # l, r[k] = r[l]
      PROVE  r[k] \in unsure
  <2>1. CASE k \in 1..n /\ l \in 1..n
    BY <1>3, <1>5, <1>7, <2>1
  <2>2. CASE k \in 1..n /\ l \in (n + 1)..(n + Len(b))
    <3>1. l - n \in 1..Len(b) /\ r[l] = b[l - n] /\ r[k] = shown[k]
      BY <1>3, <2>2
    <3>2. b[l - n] \in unsure
      BY <1>4, <1>7, <2>2, <3>1
    <3> QED
      BY <1>7, <3>1, <3>2
  <2>3. CASE k \in (n + 1)..(n + Len(b)) /\ l \in 1..n
    <3>1. k - n \in 1..Len(b) /\ r[k] = b[k - n] /\ r[l] = shown[l]
      BY <1>3, <2>3
    <3>2. b[k - n] \in unsure
      BY <1>4, <1>7, <2>3, <3>1
    <3> QED
      BY <3>1, <3>2
  <2>4. CASE k \in (n + 1)..(n + Len(b)) /\ l \in (n + 1)..(n + Len(b))
    <3>1. k - n \in 1..Len(b) /\ l - n \in 1..Len(b) /\ k - n # l - n /\ r[k] = b[k - n] /\ b[k - n] = b[l - n]
      BY <1>3, <1>7, <2>4, SMTT(30)
    <3>2. PICK s, t \in DOMAIN rows : s # t /\ b[k - n] = rows[s] /\ b[l - n] = rows[t]
      BY <3>1
    <3> QED
      BY <3>1, <3>2 DEF LogOnce
  <2> QED
    BY <1>6, <2>1, <2>2, <2>3, <2>4
<1>8. \A k, l \in 1..Len(r) : k # l /\ r[k] = r[l] => r[k] \in unsure
  BY <1>3, <1>7
<1>9. ASSUME NEW k \in 1..Len(r)
      PROVE  Origin(r[k])'
  <2>1. CASE k \in 1..n
    <3>1. PICK e : e = shown[k]
      OBVIOUS
    <3>2. Origin(e)
      BY <1>2, <2>1, <3>1 DEF ShownOnce
    <3>3. RowsKept
      BY DEF RowsKept
    <3>4. Origin(e)'
      BY <1>1, <3>2, <3>3, OriginStays
    <3> QED
      BY <1>3, <2>1, <3>1, <3>4
  <2>2. CASE k \in (n + 1)..(n + Len(b))
    <3>1. k - n \in 1..Len(b) /\ r[k] = b[k - n]
      BY <1>3, <2>2
    <3>2. PICK s \in DOMAIN rows : s <= cursor' /\ r[k] = rows[s]
      BY <3>1
    <3> QED
      BY <3>2 DEF Origin
  <2> QED
    BY <1>3, <1>6, <2>1, <2>2
<1>10. shown' = r
  BY <1>2
<1>11. ASSUME NEW k \in 1..Len(shown')
       PROVE  Origin(shown[k])'
  BY <1>9, <1>10 DEF Origin
<1>12. GivenOnce'
  BY <1>8, <1>10 DEF GivenOnce
<1> QED
  BY <1>11, <1>12 DEF ShownOnce

\* A step of the client leaves what the others have.
LEMMA OthersOnce ==
  ASSUME StreamInv, Once, UNCHANGED clientOthers
  PROVE  LogOnce' /\ SpokenOnce' /\ RowsKept /\ UNCHANGED <<rows, unsure, user>>
<1>1. OwnOK
  BY DEF StreamInv
<1>2. UNCHANGED <<rows, unsure, user, made, turns, driven, unread, writer>>
  BY DEF clientOthers, logVars, actorSide
<1>3. LogOnce' /\ RowsKept
  BY <1>2, LogFrame DEF Once, RowsKept
<1>4. SpokenOnce'
  BY <1>1, <1>2, SpokenFrame DEF Once
<1> QED
  BY <1>2, <1>3, <1>4

\* A step of the client that is given nothing, and has its queue as it was or emptied.
LEMMA ClientOnce ==
  ASSUME StreamInv, Once, UNCHANGED <<clientOthers, cursor, shown>>,
         chan' = chan \/ chan' = Subscribed \/ chan' = Unsubscribed
  PROVE  Once'
<1>1. LogOnce' /\ SpokenOnce' /\ RowsKept
  BY OthersOnce
<1>2. CASE chan' = chan
  BY <1>1, <1>2, QuietClient DEF Once
<1>3. CASE chan' = Subscribed \/ chan' = Unsubscribed
  <2>1. chan'.queue = <<>>
    BY <1>3 DEF Subscribed, Unsubscribed
  <2>2. \A k \in 1..Len(chan'.queue) : \E item :
          chan'.queue[k] = item /\ ((\E j \in 1..Len(chan.queue) : chan.queue[j] = item) \/ Kept(item)')
    BY <2>1
  <2>3. ChanOnce' /\ ShownOnce'
    BY <1>1, <2>2, ClientKeeps DEF Once
  <2> QED
    BY <1>1, <2>3 DEF Once
<1> QED
  BY <1>1, <1>2, <1>3 DEF Once

LEMMA ListsOnce ==
  ASSUME StreamInv, Once, Lists
  PROVE  Once'
<1>1. Typed /\ cursor \in Int /\ cursor >= -1
  BY DEF StreamInv, Typed, ClientTyped
<1>2. PICK b : b = ListAfter(cursor)
  OBVIOUS
<1>3. shown' = shown \o b /\ cursor' = Max({cursor, LastSeq}) /\ UNCHANGED <<clientOthers, chan>>
  BY <1>2 DEF Lists
<1>4. LogOnce' /\ SpokenOnce' /\ RowsKept /\ UNCHANGED <<rows, unsure, user>>
  BY <1>3, OthersOnce
<1>5. /\ LastSeq \in Int /\ \A s \in DOMAIN rows : s \in Nat /\ s <= LastSeq
  BY <1>1, LastSeqIs
<1>6. cursor' \in Int /\ cursor <= cursor' /\ LastSeq <= cursor'
  BY <1>1, <1>3, <1>5, MaxOfTwo
<1>7. /\ b \in Seq(Entries)
      /\ \A k \in 1..Len(b) : \E s \in DOMAIN rows : s > cursor /\ b[k] = rows[s]
      /\ \A k, l \in 1..Len(b) : k # l => \E s, t \in DOMAIN rows : s # t /\ b[k] = rows[s] /\ b[l] = rows[t]
  <2>1. /\ ListAfter(cursor) \in Seq(Entries)
        /\ \A k \in 1..Len(ListAfter(cursor)) : \E s \in DOMAIN rows : s > cursor /\ ListAfter(cursor)[k] = rows[s]
        /\ \A k, l \in 1..Len(ListAfter(cursor)) : k # l =>
             \E s, t \in DOMAIN rows : s # t /\ ListAfter(cursor)[k] = rows[s] /\ ListAfter(cursor)[l] = rows[t]
    BY <1>1, ListedAll
  <2> QED
    BY <1>2, <2>1
<1>9. \A k \in 1..Len(b) : \E s \in DOMAIN rows : s > cursor /\ s <= cursor' /\ b[k] = rows[s]
  BY <1>5, <1>6, <1>7
<1>10. ShownOnce'
  BY <1>3, <1>4, <1>6, <1>7, <1>9, MoreOnce DEF Once
<1>11. ChanOnce'
  <2>1. \A k \in 1..Len(chan.queue) : Kept(chan.queue[k])'
    <3> TAKE k \in 1..Len(chan.queue)
    <3>1. PICK item : item = chan.queue[k]
      OBVIOUS
    <3>2. Kept(item)'
      BY <1>4, <3>1, KeptStays DEF Once, ChanOnce
    <3> QED
      BY <1>3, <3>1, <3>2 DEF Kept
  <2> QED
    BY <1>3, <2>1 DEF ChanOnce
<1> QED
  BY <1>4, <1>10, <1>11 DEF Once

LEMMA ReceivesOnce ==
  ASSUME StreamInv, Once, Receives
  PROVE  Once'
<1>1. Typed /\ cursor \in Int /\ chan \in Chans
  BY DEF StreamInv, Typed, ClientTyped
<1>2. PICK q, item : q = chan.queue /\ item = Head(q)
  OBVIOUS
<1> DEFINE fresh == item[1] = "entry" /\ item[2] > cursor
<1>3. /\ q # <<>> /\ UNCHANGED clientOthers
      /\ shown' = (IF fresh THEN Append(shown, item[3]) ELSE shown)
      /\ cursor' = (IF fresh THEN item[2] ELSE cursor)
      /\ chan' = Unsubscribed \/ chan' = [chan EXCEPT !.queue = Tail(q)]
  BY <1>2 DEF Receives, IsNew
<1>4. /\ q \in Seq(Items) /\ Len(q) \in Nat /\ item = q[1] /\ item \in Items /\ 1 \in 1..Len(q)
      /\ Tail(q) \in Seq(Items) /\ Len(Tail(q)) = Len(q) - 1
      /\ \A k \in 1..Len(Tail(q)) : k + 1 \in 1..Len(q) /\ Tail(q)[k] = q[k + 1]
  BY <1>1, <1>2, <1>3 DEF Chans
<1>5. LogOnce' /\ SpokenOnce' /\ RowsKept /\ UNCHANGED <<rows, unsure, user>>
  BY <1>3, OthersOnce
<1>6. \A k \in 1..Len(q) : Kept(q[k])
  BY <1>2 DEF Once, ChanOnce
<1>7. ShownOnce'
  <2>1. CASE fresh
    <3>1. item[2] \in DOMAIN rows /\ rows[item[2]] = item[3] /\ item[2] \in Nat
      BY <1>1, <1>4, <1>6, <2>1, LastSeqIs DEF Kept
    <3>2. item[3] \in Entries /\ shown \in Seq(Entries)
      BY <1>1, <3>1 DEF Typed, LogTyped, ClientTyped
    <3>3. PICK b : b = <<item[3]>>
      OBVIOUS
    <3>4. b \in Seq(Entries) /\ Len(b) = 1 /\ b[1] = item[3] /\ shown' = shown \o b
      BY <1>3, <2>1, <3>2, <3>3
    <3>5. cursor' = item[2] /\ cursor' \in Int /\ cursor <= cursor'
      BY <1>1, <1>3, <2>1, <3>1
    <3>6. \A k \in 1..Len(b) : \E s \in DOMAIN rows : s > cursor /\ s <= cursor' /\ b[k] = rows[s]
      BY <2>1, <3>1, <3>4, <3>5
    <3>7. \A k, l \in 1..Len(b) : k = l
      BY <3>4
    <3> QED
      BY <1>5, <3>4, <3>5, <3>6, <3>7, MoreOnce DEF Once
  <2>2. CASE ~ fresh
    <3>1. shown' = shown /\ cursor' = cursor
      BY <1>3, <2>2
    <3>2. \A e : Origin(e) => Origin(e)'
      BY <1>5, <3>1 DEF Origin
    <3>3. ASSUME NEW k \in 1..Len(shown) PROVE Origin(shown[k])'
      <4>1. PICK e : e = shown[k]
        OBVIOUS
      <4>2. Origin(e)'
        BY <3>2, <4>1 DEF Once, ShownOnce
      <4> QED
        BY <3>1, <4>1, <4>2 DEF Origin
    <3>4. GivenOnce'
      BY <1>5, <3>1 DEF Once, ShownOnce, GivenOnce
    <3> QED
      BY <3>1, <3>3, <3>4 DEF ShownOnce
  <2> QED
    BY <2>1, <2>2
<1>8. ChanOnce'
  <2>1. CASE chan' = Unsubscribed
    <3>1. chan'.queue = <<>>
      BY <2>1 DEF Unsubscribed
    <3> QED
      BY <3>1 DEF ChanOnce
  <2>2. CASE chan' = [chan EXCEPT !.queue = Tail(q)]
    <3>1. chan'.queue = Tail(q)
      BY <1>1, <2>2 DEF Chans
    <3>2. ASSUME NEW k \in 1..Len(chan'.queue) PROVE Kept(chan.queue[k])'
      <4>1. PICK x : x = q[k + 1]
        OBVIOUS
      <4>2. Kept(x)
        BY <1>4, <1>6, <3>1, <4>1
      <4>3. Kept(x)'
        BY <1>5, <4>2, KeptStays
      <4>4. chan'.queue[k] = x
        BY <1>4, <3>1, <4>1
      <4> QED
        BY <4>3, <4>4 DEF Kept
    <3> QED
      BY <3>2 DEF ChanOnce
  <2> QED
    BY <1>3, <2>1, <2>2
<1> QED
  BY <1>5, <1>7, <1>8 DEF Once

LEMMA OtherClientOnce ==
  ASSUME StreamInv, Once, Opens \/ Checks \/ Heartbeats \/ Drops
  PROVE  Once'
<1>1. /\ UNCHANGED <<clientOthers, cursor, shown>>
      /\ chan' = chan \/ chan' = Subscribed \/ chan' = Unsubscribed
  BY DEF Opens, Checks, Heartbeats, Drops
<1> QED
  BY <1>1, ClientOnce

LEMMA InitOnce ==
  ASSUME StreamInit
  PROVE  Once
<1>1. DOMAIN rows = {} /\ unsure = {} /\ shown = <<>> /\ unread = <<>> /\ chan.queue = <<>> /\ writer.at = "idle"
  BY DEF StreamInit, IdleWriter
<1>2. LogOnce
  BY <1>1 DEF LogOnce, Stored
<1>3. SpokenOnce
  BY <1>1 DEF SpokenOnce
<1>4. ChanOnce /\ ShownOnce
  BY <1>1 DEF ChanOnce, ShownOnce, GivenOnce
<1> QED
  BY <1>2, <1>3, <1>4 DEF Once

LEMMA StutterOnce ==
  ASSUME StreamInv, Once, UNCHANGED streamVars
  PROVE  Once'
<1>1. UNCHANGED <<clientOthers, cursor, shown, chan>>
  BY DEF streamVars, clientOthers, castVars, clientVars
<1> QED
  BY <1>1, ClientOnce

LEMMA StepOnce ==
  ASSUME StreamInv, Once, [StreamNext]_streamVars
  PROVE  Once'
BY AdmittedOnce, UserWritesOnce, UserFailsOnce, QueuedOnce, UndoneOnce, UndoFailsOnce, AcceptedOnce, RefusedOnce, ReconnectedOnce,
   SpeaksOnce, ResultsOnce, TakeMessageOnce, ChecksTailOnce, ReadsSeqOnce, WritesOnce, BroadcastsOnce,
   WriteFailsOnce, ListsOnce, ReceivesOnce, OtherClientOnce, StutterOnce
   DEF StreamNext

\* No entry is given to a client twice, by lists, by the queue or after reconnects, and
\* whatever is deleted meanwhile, unless a write of it was committed and yet raised: then
\* the retry of the pipeline stores it under another seq, and both are given.
THEOREM GivenOnceHolds == StreamSpec => []GivenOnce
<1>1. StreamInit => Once
  BY InitOnce
<1>2. StreamInv /\ Once /\ [StreamNext]_streamVars => Once'
  BY StepOnce
<1>3. StreamInv /\ Once => GivenOnce
  BY DEF Once, ShownOnce, GivenOnce
<1> QED
  BY <1>1, <1>2, <1>3, StreamHolds, PTL DEF StreamSpec

-----------------------------------------------------------------------------
(* The queue of the subscriber is bounded *)

Fits(c) == Len(c.queue) <= QueueMax
StatusOK == status \in {"idle", "running", "completed", "interrupted", "error"}

\* A delivery to a full queue makes room, drops the item or ends the stream.
LEMMA DeliverFits ==
  ASSUME NEW c \in Chans, NEW item \in Items, NEW d, d = Deliver(c, item), Fits(c)
  PROVE  d \in Chans /\ Fits(d)
<1>0. c.queue \in Seq(Items) /\ Len(c.queue) \in Nat /\ c.on \in BOOLEAN /\ QueueMax \in Nat \ {0}
  BY StreamAssumption DEF Chans
<1>1. d \in Chans
  BY DeliverGives
<1>2. CASE d = c
  BY <1>2
<1>3. CASE Len(c.queue) < QueueMax /\ d = [c EXCEPT !.queue = Append(@, item)]
  <2>1. d.queue = Append(c.queue, item)
    BY <1>3 DEF Chans
  <2> QED
    BY <1>0, <1>1, <1>3, <2>1 DEF Fits
<1>4. CASE Evictable(c.queue) # {} /\ d = [c EXCEPT !.queue = Append(RemoveAt(@, Min(Evictable(c.queue))), item)]
  <2>1. PICK m : m = Min(Evictable(c.queue))
    OBVIOUS
  <2>2. m \in 1..Len(c.queue) /\ ~ Critical(c.queue[m])
    <3>1. Evictable(c.queue) \in SUBSET Nat
      BY <1>0 DEF Evictable
    <3>2. m \in Evictable(c.queue)
      BY <1>4, <2>1, <3>1, MinOf
    <3> QED
      BY <3>2 DEF Evictable
  <2>3. d.queue = Append(RemoveAt(c.queue, m), item)
    BY <1>4, <2>1 DEF Chans
  <2>4. Len(d.queue) = Len(c.queue)
    BY <1>0, <2>2, <2>3, EvictFollows
  <2> QED
    BY <1>1, <2>4 DEF Fits
<1>5. CASE d = [queue |-> <<<<"eos">>>>, on |-> FALSE]
  BY <1>0, <1>1, <1>5 DEF Fits
<1>6. \/ d = c
      \/ Len(c.queue) < QueueMax /\ d = [c EXCEPT !.queue = Append(@, item)]
      \/ Evictable(c.queue) # {} /\ d = [c EXCEPT !.queue = Append(RemoveAt(@, Min(Evictable(c.queue))), item)]
      \/ d = [queue |-> <<<<"eos">>>>, on |-> FALSE]
  BY DEF Deliver
<1> QED
  BY <1>1, <1>2, <1>3, <1>4, <1>5, <1>6

\* One item or two are broadcast.
LEMMA DeliveredFits ==
  ASSUME Typed, Fits(chan), NEW a \in Items, NEW b \in Items,
         chan' = Delivered(<<a>>) \/ chan' = Delivered(<<a, b>>)
  PROVE  Fits(chan)'
<1>1. PICK c, d, e : c = chan /\ d = Deliver(c, a) /\ e = Deliver(d, b)
  OBVIOUS
<1>2. c \in Chans /\ Fits(c)
  BY <1>1 DEF Typed
<1>3. d \in Chans /\ Fits(d)
  BY <1>1, <1>2, DeliverFits
<1>4. e = Deliver(d, b)
  BY <1>1
<1>5. Fits(e)
  BY <1>3, <1>4, DeliverFits
<1>6. chan' = d \/ chan' = e
  BY <1>1, DeliveredOne, DeliveredTwo
<1> QED
  BY <1>3, <1>5, <1>6 DEF Fits

\* What a message of the SDK is announced with is an item of the channel.
LEMMA WriterItems ==
  ASSUME Typed, OwnOK, writer.at # "idle"
  PROVE  /\ <<"complete", writer.msg[3]>> \in Items
         /\ writer.at = "cast" => <<"entry", writer.seq, writer.msg>> \in Items
<1>1. writer.msg \in Messages /\ writer.msg[1] \in {"say", "echo", "result"}
  BY DEF Typed, WriterTyped, OwnOK
<1>2. writer.msg \in Entries /\ writer.msg[3] \in Nat
  BY <1>1 DEF Messages, Entries
<1>3. writer.at = "cast" => writer.seq \in Nat
  BY LastSeqIs DEF OwnOK
<1> QED
  BY <1>2, <1>3 DEF Items

LEMMA StepFits ==
  ASSUME StreamInv, Fits(chan), [StreamNext]_streamVars
  PROVE  Fits(chan)'
<1>1. Typed /\ OwnOK /\ chan.queue \in Seq(Items) /\ QueueMax \in Nat
  BY StreamAssumption DEF StreamInv, Typed, Chans
<1>2. {<<"raw">>, <<"result">>, <<"runtime">>} \subseteq Items
  BY DEF Items
<1>3. CASE chan' = chan
  BY <1>3 DEF Fits
<1>4. CASE chan' \in {Subscribed, Unsubscribed, [chan EXCEPT !.on = FALSE]}
  <2>1. chan'.queue \in {<<>>, chan.queue}
    BY <1>1, <1>4 DEF Subscribed, Unsubscribed, Typed, Chans
  <2> QED
    BY <1>1, <2>1 DEF Fits
<1>5. CASE Accepted
  <2>1. PICK u : u = Head(waiting)
    OBVIOUS
  <2>2. PICK item : item = <<"entry", user[u].seq, UserEntry(u)>>
    OBVIOUS
  <2>3. waiting # <<>> /\ chan' = Delivered(<<item>>)
    BY <1>5, <2>1, <2>2 DEF Accepted, CastEntry
  <2>4. u \in Users /\ user[u].at = "sent"
    BY <1>1, <2>1, <2>3 DEF Typed, ActorTyped, OwnOK
  <2>5. user[u].seq \in Nat
    BY <1>1, <2>4, LastSeqIs DEF OwnOK
  <2>6. item \in Items
    BY <2>2, <2>4, <2>5, UserEntryIs DEF Items
  <2> QED
    BY <1>1, <2>3, <2>6, DeliveredFits
<1>6. CASE \E kind \in {"say", "echo"} : Speaks(kind)
  <2>1. chan' = Delivered(<<<<"raw">>>>)
    BY <1>6 DEF Speaks, Cast
  <2> QED
    BY <1>1, <1>2, <2>1, DeliveredFits
<1>7. CASE \E how \in {"completed", "result"} : Results(how)
  <2>1. chan' = Delivered(<<<<"result">>>>)
    BY <1>7 DEF Results, Cast
  <2> QED
    BY <1>1, <1>2, <2>1, DeliveredFits
<1>8. CASE TakeMessage
  <2>1. PICK m : m = Head(unread)
    OBVIOUS
  <2>2. unread \in Seq(Messages) /\ unread # <<>>
    BY <1>1, <1>8 DEF Typed, ActorTyped, TakeMessage
  <2>3. m[3] \in Nat /\ m[1] \in {"say", "echo", "completed", "result", "crash"}
    BY <2>1, <2>2 DEF Messages
  <2>4. CASE m[1] = "crash"
    <3>1. chan' = Delivered(<<<<"runtime">>>>)
      BY <1>8, <2>1, <2>4 DEF TakeMessage, Cast
    <3> QED
      BY <1>1, <1>2, <3>1, DeliveredFits
  <2>5. CASE m[1] = "completed"
    <3>1. PICK item : item = <<"complete", m[3]>>
      OBVIOUS
    <3>2. chan' = Delivered(<<item>>)
      BY <1>8, <2>1, <2>5, <3>1 DEF TakeMessage, Cast
    <3>3. item \in Items
      BY <2>3, <3>1 DEF Items
    <3> QED
      BY <1>1, <3>2, <3>3, DeliveredFits
  <2>6. CASE m[1] \in {"say", "echo", "result"}
    <3>1. chan' = chan
      BY <1>8, <2>1, <2>6 DEF TakeMessage, castVars
    <3> QED
      BY <1>3, <3>1
  <2> QED
    BY <2>3, <2>4, <2>5, <2>6
<1>9. CASE ChecksTail
  <2>1. PICK item : item = <<"complete", writer.msg[3]>>
    OBVIOUS
  <2>2. writer.at # "idle" /\ (chan' = chan \/ chan' = Delivered(<<item>>))
    BY <1>9, <2>1 DEF ChecksTail, Cast, castVars
  <2>3. item \in Items
    BY <1>1, <2>1, <2>2, WriterItems
  <2> QED
    BY <1>1, <1>3, <2>2, <2>3, DeliveredFits
<1>10. CASE Broadcasts
  <2>1. PICK a, b : a = <<"entry", writer.seq, writer.msg>> /\ b = <<"complete", writer.msg[3]>>
    OBVIOUS
  <2>2. writer.at = "cast" /\ (chan' = Delivered(<<a>>) \/ chan' = Delivered(<<a, b>>))
    BY <1>10, <2>1 DEF Broadcasts, CastEntry, AfterWrite
  <2>3. a \in Items /\ b \in Items
    BY <1>1, <2>1, <2>2, WriterItems
  <2> QED
    BY <1>1, <2>2, <2>3, DeliveredFits
<1>11. CASE Receives
  <2>1. chan.queue # <<>> /\ (chan' = Unsubscribed \/ chan' = [chan EXCEPT !.queue = Tail(@)])
    BY <1>11 DEF Receives
  <2>2. CASE chan' = [chan EXCEPT !.queue = Tail(@)]
    <3>1. chan'.queue = Tail(chan.queue)
      BY <1>1, <2>2 DEF Typed, Chans
    <3> QED
      BY <1>1, <2>1, <3>1 DEF Fits
  <2> QED
    BY <1>4, <2>1, <2>2
<1>12. CASE Opens \/ Lists \/ Checks \/ Heartbeats \/ Drops \/ Reconnected
  <2>1. chan' \in {chan, Subscribed, Unsubscribed, [chan EXCEPT !.on = FALSE]}
    BY <1>12 DEF Opens, Lists, Checks, Heartbeats, Drops, Reconnected
  <2> QED
    BY <1>3, <1>4, <2>1
<1>13. CASE \/ \E u \in Users :
                 Admitted(u) \/ UserWrites(u) \/ UserFails(u) \/ Queued(u) \/ Undone(u) \/ UndoFails(u)
            \/ Refused \/ ReadsSeq \/ Writes \/ WriteFails \/ UNCHANGED streamVars
  <2>1. chan' = chan
    BY <1>13 DEF Admitted, UserWrites, UserFails, Queued, Undone, UndoFails, Refused, ReadsSeq, Writes, WriteFails, streamVars, castVars
  <2> QED
    BY <1>3, <2>1
<1> QED
  BY <1>5, <1>6, <1>7, <1>8, <1>9, <1>10, <1>11, <1>12, <1>13 DEF StreamNext

LEMMA StepStatus ==
  ASSUME StatusOK, [StreamNext]_streamVars
  PROVE  StatusOK'
<1>1. \/ status' = status
      \/ status' \in {"idle", "running", "completed", "interrupted", "error"}
  <2>1. CASE \E u \in Users :
               Admitted(u) \/ UserWrites(u) \/ UserFails(u) \/ Queued(u) \/ Undone(u) \/ UndoFails(u)
    BY <2>1 DEF Admitted, UserWrites, UserFails, Queued, Undone, UndoFails
  <2>2. CASE Accepted \/ Refused \/ Reconnected
    BY <2>2 DEF Accepted, Refused, Reconnected
  <2>3. CASE \/ \E kind \in {"say", "echo"} : Speaks(kind)
             \/ \E how \in {"completed", "result"} : Results(how)
    BY <2>3 DEF Speaks, Results
  <2>4. CASE TakeMessage
    BY <2>4 DEF TakeMessage
  <2>5. CASE ChecksTail
    BY <2>5 DEF ChecksTail
  <2>6. CASE ReadsSeq \/ Writes
    BY <2>6 DEF ReadsSeq, Writes
  <2>7. CASE Broadcasts \/ WriteFails
    BY <2>7 DEF Broadcasts, WriteFails, Finalized
  <2>8. CASE Opens \/ Lists \/ Checks \/ Receives \/ Heartbeats \/ Drops
    BY <2>8 DEF Opens, Lists, Checks, Receives, Heartbeats, Drops, clientOthers
  <2>9. CASE UNCHANGED streamVars
    BY <2>9 DEF streamVars
  <2> QED
    BY <2>1, <2>2, <2>3, <2>4, <2>5, <2>6, <2>7, <2>8, <2>9 DEF StreamNext
<1> QED
  BY <1>1 DEF StatusOK

\* The values are those of their types, and the queue of a subscriber never holds more than
\* queue_maxsize items, whatever is broadcast at a time.
THEOREM StreamTypes == StreamSpec => []StreamTypeOK
<1>1. StreamInit => Fits(chan) /\ StatusOK
  BY StreamAssumption DEF StreamInit, Fits, StatusOK
<1>2. StreamInv /\ (Fits(chan) /\ StatusOK) /\ [StreamNext]_streamVars => (Fits(chan) /\ StatusOK)'
  BY StepFits, StepStatus
<1>3. StreamInv /\ (Fits(chan) /\ StatusOK) => StreamTypeOK
  BY LastSeqIs DEF StreamInv, Typed, LogTyped, WriterTyped, ClientTyped, Fits, StatusOK, StreamTypeOK
<1> QED
  BY <1>1, <1>2, <1>3, StreamHolds, PTL DEF StreamSpec
=============================================================================
