-------------------------- MODULE IpcRendezvousProofs --------------------------
(******************************************************************************)
(* Proof, for any number of processes, that the kernel's message passing (Ipc)*)
(* keeps the promise of Rendezvous, step by step.  Most of the work is in the *)
(* linked lists: the sequence a list of senders stands for, and what the      *)
(* pointer operations of msg_send and msg_recv do to it.                      *)
(******************************************************************************)
EXTENDS IpcRendezvous, IpcProofs, FiniteSetTheorems, SequenceTheorems

--------------------------------------------------------------------------------
(* Linked lists: members B, first member head, successors succ.               *)

\* The list is one chain through all of B.
IsList(B, head, succ) ==
  /\ head = Null => B = {}
  /\ head # Null => head \in B
  /\ \A p \in B : succ[p] # Null => succ[p] \in B
  /\ \A p \in B : succ[p] # head
  /\ B # {} => \E p \in B : succ[p] = Null
  /\ \A S \in SUBSET Proc : head \in S /\ Closed(S, succ) => B \subseteq S

\* The members up to p, the place of p, and the list as a sequence.
Ahead(B, succ, p) == {q \in B : p \in Chain(succ, q)}
Place(B, succ, p) == Cardinality(Ahead(B, succ, p))
Listed(B, succ) ==
  [i \in 1 .. Cardinality(B) |-> CHOOSE p \in B : Place(B, succ, p) = i]

LEMMA ProcFinite ==
  IsFiniteSet(Proc) /\ \A B \in SUBSET Proc : IsFiniteSet(B) /\ Cardinality(B) \in Nat
<1>1. IsFiniteSet(Proc)
  BY NumProcAssumption, FS_Interval DEF Proc
<1>2. \A B \in SUBSET Proc : IsFiniteSet(B)
  BY <1>1, FS_Subset
<1> QED
  BY <1>1, <1>2, FS_CardinalityType

\* A chain goes on behind its first member, and the rest is part of it.
LEMMA ChainStep ==
  ASSUME NEW succ, NEW p \in Proc, NEW q \in Chain(succ, p), q # p
  PROVE  succ[p] \in Proc /\ q \in Chain(succ, succ[p])
<1>1. succ[p] \in Proc
  <2>1. SUFFICES ASSUME succ[p] \notin Proc PROVE FALSE
    OBVIOUS
  <2>2. Closed({p}, succ)
    BY <2>1 DEF Closed
  <2> QED
    BY <2>2, ChainLeast
<1>2. Closed({p} \cup Chain(succ, succ[p]), succ)
  BY <1>1, ChainClosed DEF Closed
<1>3. {p} \cup Chain(succ, succ[p]) \subseteq Proc
  BY <1>1, ChainClosed
<1>4. Chain(succ, p) \subseteq {p} \cup Chain(succ, succ[p])
  BY <1>2, <1>3, ChainLeast
<1> QED
  BY <1>1, <1>4

LEMMA ChainTransitive ==
  ASSUME NEW succ, NEW p \in Proc, NEW q \in Chain(succ, p)
  PROVE  Chain(succ, q) \subseteq Chain(succ, p)
<1>1. q \in Proc /\ Chain(succ, p) \subseteq Proc /\ Closed(Chain(succ, p), succ)
  BY ChainClosed
<1> QED
  BY <1>1, ChainLeast

\* Every member of a list follows its head.
LEMMA HeadLeads ==
  ASSUME NEW B \in SUBSET Proc, NEW head, NEW succ, IsList(B, head, succ), NEW p \in B
  PROVE  head \in B /\ p \in Chain(succ, head)
<1>1. head \in B
  BY DEF IsList
<1>2. /\ Chain(succ, head) \in SUBSET Proc /\ head \in Chain(succ, head)
      /\ Closed(Chain(succ, head), succ)
  BY <1>1, ChainClosed
<1> QED
  BY <1>1, <1>2 DEF IsList

\* Chains of members stay among the members.
LEMMA ChainInList ==
  ASSUME NEW B \in SUBSET Proc, NEW head, NEW succ, IsList(B, head, succ), NEW p \in B
  PROVE  Chain(succ, p) \subseteq B
<1>1. Closed(B, succ)
  BY Distinct DEF IsList, Closed
<1> QED
  BY <1>1, ChainLeast

\* Of two members one follows the other.
LEMMA ListIsLinear ==
  ASSUME NEW B \in SUBSET Proc, NEW head, NEW succ, IsList(B, head, succ),
         NEW p \in B, NEW q \in B
  PROVE  p \in Chain(succ, q) \/ q \in Chain(succ, p)
<1> DEFINE S == {x \in Proc : p \in Chain(succ, x)} \cup Chain(succ, p)
<1>1. S \in SUBSET Proc
  BY ChainClosed
<1>2. Closed(S, succ)
  <2>1. ASSUME NEW x \in S, succ[x] \in Proc PROVE succ[x] \in S
    <3>1. CASE x \in Chain(succ, p)
      BY <2>1, <3>1, ChainClosed DEF Closed
    <3>2. CASE x \in Proc /\ p \in Chain(succ, x) /\ x # p
      BY <2>1, <3>2, ChainStep
    <3>3. CASE x = p
      BY <3>1, <3>3, ChainClosed
    <3> QED
      BY <2>1, <3>1, <3>2, <3>3
  <2> QED
    BY <2>1 DEF Closed
<1>3. head \in S
  BY HeadLeads
<1>4. B \subseteq S
  BY <1>1, <1>2, <1>3 DEF IsList
<1> QED
  BY <1>4

\* No two members follow each other.
LEMMA ListIsAcyclic ==
  ASSUME NEW B \in SUBSET Proc, NEW head, NEW succ, IsList(B, head, succ),
         NEW p \in B, NEW q \in B, p \in Chain(succ, q), q \in Chain(succ, p)
  PROVE  p = q
<1> SUFFICES ASSUME p # q PROVE FALSE
  OBVIOUS
<1> DEFINE S == {x \in Proc : p \in Chain(succ, x)}
<1>1. succ[p] \in Proc /\ q \in Chain(succ, succ[p])
  BY ChainStep
<1>2. p \in Chain(succ, succ[p])
  BY <1>1, ChainTransitive
<1>3. Closed(S, succ)
  <2>1. ASSUME NEW x \in S, succ[x] \in Proc PROVE succ[x] \in S
    <3>1. CASE x = p
      BY <1>1, <1>2, <3>1
    <3>2. CASE x # p
      BY <2>1, <3>2, ChainStep
    <3> QED
      BY <3>1, <3>2
  <2> QED
    BY <2>1 DEF Closed
<1>4. head \in S
  BY HeadLeads
<1>5. B \subseteq S
  BY <1>3, <1>4 DEF IsList
<1>6. PICK e \in B : succ[e] = Null
  BY DEF IsList
<1>7. Closed({e}, succ)
  BY <1>6, Distinct DEF Closed
<1>8. Chain(succ, e) \subseteq {e}
  BY <1>7, ChainLeast
<1>9. p = e
  BY <1>5, <1>8
<1> QED
  BY <1>8, <1>9

\* The places of a list are the numbers up to its length, one for each member.
LEMMA PlacesFit ==
  ASSUME NEW B \in SUBSET Proc, NEW head, NEW succ, IsList(B, head, succ)
  PROVE  /\ Cardinality(B) \in Nat
         /\ \A p \in B : Place(B, succ, p) \in 1 .. Cardinality(B)
         /\ \A p, q \in B : Place(B, succ, p) = Place(B, succ, q) => p = q
         /\ \A p, q \in B : q \in Chain(succ, p) <=> Place(B, succ, p) <= Place(B, succ, q)
         /\ \A i \in 1 .. Cardinality(B) : \E p \in B : Place(B, succ, p) = i
         /\ head \in B => Place(B, succ, head) = 1
<1>1. Cardinality(B) \in Nat /\ IsFiniteSet(B)
  BY ProcFinite
<1>2. ASSUME NEW p \in B
      PROVE  /\ p \in Ahead(B, succ, p) /\ Ahead(B, succ, p) \subseteq B
             /\ IsFiniteSet(Ahead(B, succ, p))
             /\ Place(B, succ, p) \in 1 .. Cardinality(B)
  <2>1. p \in Ahead(B, succ, p) /\ Ahead(B, succ, p) \subseteq B
    BY ChainClosed DEF Ahead
  <2>2. /\ IsFiniteSet(Ahead(B, succ, p))
        /\ Place(B, succ, p) \in Nat /\ Place(B, succ, p) <= Cardinality(B)
    BY <1>1, <2>1, FS_Subset, ProcFinite DEF Place
  <2>3. Place(B, succ, p) # 0
    BY <2>1, <2>2, FS_EmptySet DEF Place
  <2> QED
    BY <1>1, <2>1, <2>2, <2>3
<1>3. ASSUME NEW p \in B, NEW q \in B, q \in Chain(succ, p)
      PROVE  /\ Place(B, succ, p) <= Place(B, succ, q)
             /\ Place(B, succ, p) = Place(B, succ, q) => p = q
  <2>1. Ahead(B, succ, p) \subseteq Ahead(B, succ, q)
    BY <1>3, ChainTransitive DEF Ahead
  <2>2. /\ Place(B, succ, p) <= Place(B, succ, q)
        /\ Place(B, succ, p) = Place(B, succ, q) => Ahead(B, succ, p) = Ahead(B, succ, q)
    BY <1>2, <2>1, FS_Subset DEF Place
  <2>3. Ahead(B, succ, p) = Ahead(B, succ, q) => p = q
    BY <1>2, <1>3, ListIsAcyclic DEF Ahead
  <2> QED
    BY <2>2, <2>3
<1>4. \A p, q \in B : Place(B, succ, p) = Place(B, succ, q) => p = q
  BY <1>3, ListIsLinear
<1>5. \A p, q \in B : q \in Chain(succ, p) <=> Place(B, succ, p) <= Place(B, succ, q)
  <2> TAKE p \in B
  <2> TAKE q \in B
  <2>1. CASE q \in Chain(succ, p)
    BY <1>3, <2>1
  <2>2. CASE q \notin Chain(succ, p)
    <3>1. p \in Chain(succ, q) /\ p # q
      BY <2>2, ListIsLinear, ChainClosed
    <3>2. Place(B, succ, q) <= Place(B, succ, p) /\ Place(B, succ, q) # Place(B, succ, p)
      BY <1>3, <3>1
    <3> QED
      BY <1>2, <2>2, <3>2
  <2> QED
    BY <2>1, <2>2
<1>6. \A i \in 1 .. Cardinality(B) : \E p \in B : Place(B, succ, p) = i
  <2> DEFINE n == Cardinality(B)
             f == [p \in B |-> Place(B, succ, p)]
  <2>1. IsFiniteSet(1 .. n) /\ Cardinality(1 .. n) = n
    BY <1>1, FS_Interval
  <2>2. f \in Injection(B, 1 .. n)
    BY <1>2, <1>4 DEF Injection, IsInjective
  <2>3. f \in Surjection(B, 1 .. n)
    BY <2>1, <2>2, FS_Injection
  <2> QED
    BY <2>3 DEF Surjection
<1>7. ASSUME head \in B PROVE Place(B, succ, head) = 1
  <2>1. Ahead(B, succ, head) = {head}
    <3>1. ASSUME NEW q \in Ahead(B, succ, head) PROVE q = head
      BY <1>7, <3>1, HeadLeads, ListIsAcyclic DEF Ahead
    <3> QED
      BY <1>2, <1>7, <3>1
  <2> QED
    BY <2>1, FS_Singleton DEF Place
<1> QED
  BY <1>1, <1>2, <1>4, <1>5, <1>6, <1>7

\* The sequence of a list has each member at its place.
LEMMA ListedAtPlace ==
  ASSUME NEW B \in SUBSET Proc, NEW head, NEW succ, IsList(B, head, succ)
  PROVE  /\ Listed(B, succ) \in Seq(B) /\ Len(Listed(B, succ)) = Cardinality(B)
         /\ \A i \in 1 .. Cardinality(B) : Place(B, succ, Listed(B, succ)[i]) = i
         /\ \A p \in B : Listed(B, succ)[Place(B, succ, p)] = p
<1> DEFINE n == Cardinality(B)
           e(i) == CHOOSE p \in B : Place(B, succ, p) = i
<1>1. n \in Nat
  BY PlacesFit
<1>2. ASSUME NEW i \in 1 .. n PROVE e(i) \in B /\ Place(B, succ, e(i)) = i
  BY PlacesFit
<1>3. Listed(B, succ) = [i \in 1 .. n |-> e(i)]
  BY DEF Listed
<1> HIDE DEF n, e
<1>4. Listed(B, succ) \in Seq(B) /\ Len(Listed(B, succ)) = n
  BY <1>1, <1>2, <1>3
<1>5. \A i \in 1 .. n : Listed(B, succ)[i] = e(i)
  BY <1>3
<1>6. ASSUME NEW p \in B PROVE Listed(B, succ)[Place(B, succ, p)] = p
  <2>1. Place(B, succ, p) \in 1 .. n
    BY PlacesFit DEF n
  <2>2. e(Place(B, succ, p)) \in B /\ Place(B, succ, e(Place(B, succ, p))) = Place(B, succ, p)
    BY <1>2, <2>1
  <2>3. e(Place(B, succ, p)) = p
    BY <2>2, PlacesFit
  <2> QED
    BY <1>5, <2>1, <2>3
<1> QED
  BY <1>2, <1>4, <1>5, <1>6 DEF n

LEMMA ListedHasMember ==
  ASSUME NEW B \in SUBSET Proc, NEW head, NEW succ, IsList(B, head, succ), NEW p \in B
  PROVE  Listed(B, succ)[Place(B, succ, p)] = p
BY ListedAtPlace

\* A sequence of the right length with each member at its place is the list's.
LEMMA ListedIsUnique ==
  ASSUME NEW B \in SUBSET Proc, NEW head, NEW succ, IsList(B, head, succ),
         NEW S, NEW s \in Seq(S), Len(s) = Cardinality(B),
         \A p \in B : s[Place(B, succ, p)] = p
  PROVE  s = Listed(B, succ)
<1> DEFINE t == Listed(B, succ)
<1>1. t \in Seq(B) /\ Len(t) = Len(s)
  BY ListedAtPlace
<1>2. \A i \in 1 .. Len(s) : t[i] \in B /\ s[i] = t[i]
  <2> TAKE i \in 1 .. Len(s)
  <2>1. t[i] \in B
    BY <1>1
  <2>2. Place(B, succ, t[i]) = i
    BY ListedAtPlace
  <2> QED
    BY <2>1, <2>2
<1>3. s \in Seq(B)
  BY <1>2
<1> HIDE DEF t
<1>4. s = t
  BY <1>1, <1>2, <1>3
<1> QED
  BY <1>4 DEF t

\* The members of a list are the elements of its sequence.
LEMMA ListedElements ==
  ASSUME NEW B \in SUBSET Proc, NEW head, NEW succ, IsList(B, head, succ)
  PROVE  Promise!ToSet(Listed(B, succ)) = B
<1>1. Listed(B, succ) \in Seq(B) /\ Len(Listed(B, succ)) = Cardinality(B)
  BY ListedAtPlace
<1>2. \A p \in B : Place(B, succ, p) \in DOMAIN Listed(B, succ)
  BY <1>1, PlacesFit
<1>3. \A i \in DOMAIN Listed(B, succ) : Listed(B, succ)[i] \in B
  BY <1>1
<1>4. \A p \in B : Listed(B, succ)[Place(B, succ, p)] = p
  BY ListedAtPlace
<1> QED
  BY <1>2, <1>3, <1>4 DEF Promise!ToSet

\* A list whose members keep their successors keeps its sequence.
LEMMA ListedFrame ==
  ASSUME NEW B \in SUBSET Proc, NEW head, NEW succ, NEW succ2,
         IsList(B, head, succ), \A p \in B : succ2[p] = succ[p]
  PROVE  Listed(B, succ2) = Listed(B, succ)
<1>1. ASSUME NEW p \in B PROVE Chain(succ2, p) = Chain(succ, p)
  <2>1. Chain(succ, p) \subseteq B
    BY ChainInList
  <2>2. Closed(Chain(succ, p), succ2)
    BY <2>1, ChainClosed DEF Closed
  <2>3. Chain(succ2, p) \subseteq Chain(succ, p)
    BY <2>2, ChainLeast, ChainClosed
  <2>4. Closed(Chain(succ2, p), succ)
    BY <2>1, <2>3, ChainClosed DEF Closed
  <2> QED
    BY <2>3, <2>4, ChainLeast, ChainClosed
<1>2. \A p \in B : Ahead(B, succ2, p) = Ahead(B, succ, p)
  BY <1>1 DEF Ahead
<1>3. \A p \in B : Place(B, succ2, p) = Place(B, succ, p)
  BY <1>2 DEF Place
<1> QED
  BY <1>3 DEF Listed

\* succ2 hangs p behind the last member of B.
HangsBehind(B, succ, p, succ2) ==
  /\ succ[p] = Null /\ succ2[p] = Null
  /\ \A q \in Proc \ {p} :
       succ2[q] = IF q \in B /\ succ[q] = Null THEN p ELSE succ[q]

\* s with p behind its last element.
Joined(s, p) == Append(s, p)

\* Hanging p behind the last member appends it to the sequence.
LEMMA ListedAppend ==
  ASSUME NEW B \in SUBSET Proc, NEW head, NEW succ, IsList(B, head, succ),
         NEW p \in Proc, NEW succ2, HangsBehind(B, succ, p, succ2),
         NEW C \in SUBSET Proc, NEW head2, IsList(C, head2, succ2),
         p \notin B, C = B \cup {p}
  PROVE  Listed(C, succ2) = Joined(Listed(B, succ), p)
<1> USE DEF HangsBehind
<1> DEFINE n == Cardinality(B)
<1>1. n \in Nat /\ IsFiniteSet(B) /\ Cardinality(C) = n + 1
  BY ProcFinite, FS_AddElement
<1>2. Chain(succ2, p) = {p}
  <2>1. Closed({p}, succ2)
    BY Distinct DEF Closed
  <2> QED
    BY <2>1, ChainLeast, ChainClosed
<1>3. ASSUME NEW q \in B PROVE Place(C, succ2, q) = Place(B, succ, q)
  <2>1. ASSUME NEW x \in B PROVE q \in Chain(succ2, x) <=> q \in Chain(succ, x)
    <3>1. Closed(Chain(succ, x) \cup {p}, succ2)
      <4>1. ASSUME NEW y \in Chain(succ, x), y # p, succ2[y] \in Proc
            PROVE  succ2[y] \in Chain(succ, x) \cup {p}
        BY <4>1, ChainClosed DEF Closed
      <4> QED
        BY <4>1, Distinct DEF Closed
    <3>2. Chain(succ2, x) \subseteq Chain(succ, x) \cup {p}
      BY <3>1, ChainLeast, ChainClosed
    <3>3. Closed(Chain(succ2, x), succ)
      <4>1. ASSUME NEW y \in Chain(succ2, x), succ[y] \in Proc
            PROVE  succ[y] \in Chain(succ2, x)
        <5>1. y # p /\ succ2[y] = succ[y]
          BY <4>1, ChainClosed, Distinct
        <5> QED
          BY <4>1, <5>1, ChainClosed DEF Closed
      <4> QED
        BY <4>1 DEF Closed
    <3>4. Chain(succ, x) \subseteq Chain(succ2, x)
      BY <3>3, ChainLeast, ChainClosed
    <3> QED
      BY <3>2, <3>4
  <2>2. Ahead(C, succ2, q) = Ahead(B, succ, q)
    BY <1>2, <2>1 DEF Ahead
  <2> QED
    BY <2>2 DEF Place
<1>4. Place(C, succ2, p) = n + 1
  <2>1. \A q \in C : p \in Chain(succ2, q)
    BY <1>2, ListIsLinear, ChainClosed
  <2>2. Ahead(C, succ2, p) = C
    BY <2>1 DEF Ahead
  <2> QED
    BY <1>1, <2>2 DEF Place
<1> DEFINE s == Listed(B, succ)
<1>5. s \in Seq(B) /\ Len(s) = n
  BY ListedAtPlace
<1>6. \A q \in B : Place(B, succ, q) \in 1 .. n /\ s[Place(B, succ, q)] = q
  <2>1. \A q \in B : Place(B, succ, q) \in 1 .. n
    BY PlacesFit
  <2>2. ASSUME NEW q \in B PROVE s[Place(B, succ, q)] = q
    BY <2>2, ListedHasMember
  <2> QED
    BY <2>1, <2>2
<1> HIDE DEF s, n
<1>7. s \in Seq(C) /\ p \in C
  BY <1>5
<1>8. /\ Append(s, p) \in Seq(C) /\ Len(Append(s, p)) = n + 1
      /\ Append(s, p)[n + 1] = p /\ \A i \in 1 .. n : Append(s, p)[i] = s[i]
  BY <1>1, <1>5, <1>7
<1>9. \A q \in C : Append(s, p)[Place(C, succ2, q)] = q
  <2>1. \A q \in B : Append(s, p)[Place(C, succ2, q)] = q
    BY <1>3, <1>6, <1>8
  <2> QED
    BY <1>4, <1>8, <2>1
<1>10. Append(s, p) = Listed(C, succ2)
  <2> DEFINE a == Append(s, p)
  <2>2. a \in Seq(C) /\ Len(a) = Cardinality(C)
    BY <1>1, <1>8
  <2>3. \A q \in C : a[Place(C, succ2, q)] = q
    BY <1>9
  <2> HIDE DEF a
  <2>4. a = Listed(C, succ2)
    BY ONLY C \in SUBSET Proc, IsList(C, head2, succ2), <2>2, <2>3, ListedIsUnique
  <2> QED
    BY <2>4 DEF a
<1> QED
  BY <1>10 DEF s, Joined

\* RemoveAt takes out one element and moves the rest up.
LEMMA RemoveAtFacts ==
  ASSUME NEW S, NEW s \in Seq(S), NEW i \in 1 .. Len(s)
  PROVE  /\ Promise!RemoveAt(s, i) \in Seq(S)
         /\ Len(Promise!RemoveAt(s, i)) = Len(s) - 1
         /\ \A j \in 1 .. Len(s) - 1 :
              Promise!RemoveAt(s, i)[j] = IF j < i THEN s[j] ELSE s[j + 1]
<1> DEFINE a == SubSeq(s, 1, i - 1)
           b == SubSeq(s, i + 1, Len(s))
<1>1. a \in Seq(S) /\ Len(a) = i - 1 /\ \A j \in 1 .. i - 1 : a[j] = s[j]
  OBVIOUS
<1>2. b \in Seq(S) /\ Len(b) = Len(s) - i /\ \A j \in 1 .. Len(s) - i : b[j] = s[i + j]
  OBVIOUS
<1>3. Promise!RemoveAt(s, i) = a \o b
  BY DEF Promise!RemoveAt
<1> HIDE DEF a, b
<1>4. a \o b \in Seq(S) /\ Len(a \o b) = Len(s) - 1
  <2>1. a \o b \in Seq(S) /\ Len(a \o b) = Len(a) + Len(b)
    BY <1>1, <1>2, ConcatProperties
  <2>2. Len(s) \in Nat
    OBVIOUS
  <2> QED
    BY <1>1, <1>2, <2>1, <2>2
<1>5. \A j \in 1 .. Len(s) - 1 : (a \o b)[j] = IF j < i THEN s[j] ELSE s[j + 1]
  <2> TAKE j \in 1 .. Len(s) - 1
  <2>1. (a \o b)[j] = IF j <= Len(a) THEN a[j] ELSE b[j - Len(a)]
    BY <1>1, <1>2
  <2>2. CASE j < i
    BY <1>1, <2>1, <2>2
  <2>3. CASE ~(j < i)
    <3>1. j - (i - 1) \in 1 .. Len(s) - i
      BY <2>3
    <3>2. b[j - (i - 1)] = s[i + (j - (i - 1))]
      BY <1>2, <3>1
    <3> QED
      BY <1>1, <2>1, <2>3, <3>2
  <2> QED
    BY <2>2, <2>3
<1> QED
  BY <1>3, <1>4, <1>5

\* succ2 leads past r.
LeadsPast(head, succ, r, succ2) ==
  /\ succ2[r] = Null
  /\ \A q \in Proc \ {r} :
       succ2[q] = IF head # r /\ succ[q] = r THEN succ[r] ELSE succ[q]

\* Taking r out of a list takes it out of the sequence.
LEMMA ListedRemove ==
  ASSUME NEW B \in SUBSET Proc, NEW head, NEW succ, IsList(B, head, succ),
         NEW r \in B, NEW succ2, LeadsPast(head, succ, r, succ2),
         NEW C \in SUBSET Proc, NEW head2, IsList(C, head2, succ2), C = B \ {r}
  PROVE  Listed(C, succ2) = Promise!RemoveAt(Listed(B, succ), Place(B, succ, r))
<1> USE DEF LeadsPast
<1> DEFINE n == Cardinality(B)
           i == Place(B, succ, r)
<1>1. n \in Nat /\ IsFiniteSet(B) /\ Cardinality(C) = n - 1
  <2>1. n \in Nat /\ IsFiniteSet(B)
    BY ProcFinite
  <2> QED
    BY <2>1, FS_RemoveElement
<1>2. ASSUME NEW x \in C, NEW q \in C PROVE q \in Chain(succ2, x) <=> q \in Chain(succ, x)
  <2>1. Closed(Chain(succ, x), succ2)
    <3>1. ASSUME NEW y \in Chain(succ, x), succ2[y] \in Proc PROVE succ2[y] \in Chain(succ, x)
      <4>1. y \in Proc /\ y # r
        BY <3>1, ChainClosed, Distinct
      <4>2. CASE head # r /\ succ[y] = r
        BY <3>1, <4>1, <4>2, ChainClosed DEF Closed
      <4>3. CASE ~(head # r /\ succ[y] = r)
        BY <3>1, <4>1, <4>3, ChainClosed DEF Closed
      <4> QED
        BY <4>2, <4>3
    <3> QED
      BY <3>1 DEF Closed
  <2>2. Chain(succ2, x) \subseteq Chain(succ, x)
    BY <2>1, ChainLeast, ChainClosed
  <2>3. Chain(succ2, x) \subseteq B
    BY <2>2, ChainInList
  <2>4. CASE \E y \in Chain(succ2, x) \ {r} : succ[y] = r
    <3> DEFINE S == Chain(succ2, x) \cup {r}
    <3>1. PICK y \in Chain(succ2, x) \ {r} : succ[y] = r
      BY <2>4
    <3>2. head # r
      BY <2>3, <3>1 DEF IsList
    <3>3. succ2[y] = succ[r]
      BY <2>3, <3>1, <3>2
    <3>4. ASSUME NEW z \in S, succ[z] \in Proc PROVE succ[z] \in S
      <4>1. CASE z = r
        BY <3>1, <3>3, <3>4, <4>1, ChainClosed DEF Closed
      <4>2. CASE z # r /\ succ[z] # r
        <5>1. z \in Chain(succ2, x) /\ succ2[z] = succ[z]
          BY <2>3, <4>2
        <5> QED
          BY <3>4, <5>1, ChainClosed DEF Closed
      <4> QED
        BY <4>1, <4>2
    <3>5. Closed(S, succ) /\ S \in SUBSET Proc /\ x \in S
      BY <2>3, <3>4, ChainClosed DEF Closed
    <3> HIDE DEF S
    <3>6. Chain(succ, x) \subseteq S
      BY <3>5, ChainLeast
    <3> QED
      BY <2>2, <3>6 DEF S
  <2>5. CASE \A y \in Chain(succ2, x) \ {r} : succ[y] # r
    <3> DEFINE S == Chain(succ2, x) \ {r}
    <3>1. ASSUME NEW z \in S, succ[z] \in Proc PROVE succ[z] \in S
      <4>1. z \in Proc /\ succ2[z] = succ[z]
        BY <2>3, <2>5
      <4> QED
        BY <2>5, <3>1, <4>1, ChainClosed DEF Closed
    <3>2. Closed(S, succ) /\ S \in SUBSET Proc /\ x \in S
      BY <2>3, <3>1, ChainClosed DEF Closed
    <3> HIDE DEF S
    <3>3. Chain(succ, x) \subseteq S
      BY <3>2, ChainLeast
    <3> QED
      BY <2>2, <3>3 DEF S
  <2> QED
    BY <2>4, <2>5
<1>3. ASSUME NEW q \in C
      PROVE  /\ Place(B, succ, q) \in 1 .. n /\ Place(B, succ, q) # i
             /\ Place(C, succ2, q) = IF i < Place(B, succ, q)
                                     THEN Place(B, succ, q) - 1
                                     ELSE Place(B, succ, q)
  <2>1. Ahead(C, succ2, q) = Ahead(B, succ, q) \ {r}
    BY <1>2 DEF Ahead
  <2>2. r \in Ahead(B, succ, q) <=> i <= Place(B, succ, q)
    BY PlacesFit DEF Ahead
  <2>3. IsFiniteSet(Ahead(B, succ, q)) /\ Place(B, succ, q) \in Nat
    BY ProcFinite DEF Ahead, Place
  <2>4. Place(C, succ2, q) = IF r \in Ahead(B, succ, q)
                             THEN Place(B, succ, q) - 1 ELSE Place(B, succ, q)
    BY <2>1, <2>3, FS_RemoveElement DEF Place
  <2>5. Place(B, succ, q) \in 1 .. n /\ Place(B, succ, q) # i /\ i \in 1 .. n
    BY PlacesFit
  <2> HIDE DEF i, n
  <2> QED
    BY <2>2, <2>4, <2>5
<1> DEFINE s == Listed(B, succ)
<1>4. s \in Seq(B) /\ Len(s) = n /\ i \in 1 .. n
  BY ListedAtPlace, PlacesFit
<1>5. ASSUME NEW q \in B PROVE s[Place(B, succ, q)] = q
  BY <1>5, ListedHasMember
<1> DEFINE a == Promise!RemoveAt(s, i)
<1> HIDE DEF s, n, i
<1>6. /\ a \in Seq(B) /\ Len(a) = n - 1
      /\ \A j \in 1 .. n - 1 : a[j] = IF j < i THEN s[j] ELSE s[j + 1]
  BY <1>4, RemoveAtFacts
<1> HIDE DEF a
<1>7. ASSUME NEW q \in C PROVE a[Place(C, succ2, q)] = q
  <2> DEFINE k == Place(B, succ, q)
             l == Place(C, succ2, q)
  <2>1. k \in 1 .. n /\ k # i /\ l = IF i < k THEN k - 1 ELSE k
    BY <1>3
  <2>2. s[k] = q
    BY <1>5
  <2> HIDE DEF k, l
  <2>3. l \in 1 .. n - 1 /\ (IF l < i THEN l ELSE l + 1) = k
    BY <1>1, <1>4, <2>1
  <2>4. a[l] = q
    BY <1>6, <2>2, <2>3
  <2> QED
    BY <2>4 DEF l
<1>8. Len(a) = Cardinality(C)
  BY <1>1, <1>6
<1>9. a = Listed(C, succ2)
  BY <1>6, <1>7, <1>8, ListedIsUnique
<1> QED
  BY <1>9 DEF a, s, i

--------------------------------------------------------------------------------
(* The handover.                                                              *)

LEMMA InitHandover ==
  ASSUME Init
  PROVE  HandoverOK
BY DEF Init, HandoverOK, SendPoint

\* Until it is completed, nothing disturbs a receiver that a message is handed to.
LEMMA StepHandover ==
  ASSUME IInv, HandoverOK, [Next]_vars
  PROVE  HandoverOK'
<1> USE DEF IInv
<1>1. TypeOK /\ CallOK /\ process_ready \in Proc
  BY DEF TypeOK
<1>2. ASSUME pc' \notin SendPoint PROVE HandoverOK'
  BY <1>2 DEF HandoverOK
<1>3. ASSUME NEW d \in Proc, NEW m \in Payload, SendMeet(d, m) PROVE HandoverOK'
  <2>1. /\ buffer'[process_ready].source = process_ready
        /\ pc' = "send_assert" /\ peer' = d /\ Accepts(d, process_ready)
        /\ UNCHANGED <<flags, msg, recv_from, process_ready>>
    BY <1>1, <1>3 DEF SendMeet, SendCall, procVars, TypeOK
  <2>2. msg[d]
    BY <1>3, <2>1 DEF BlockedIsReachable, Accepts, SendMeet, SendCall
  <2> QED
    BY <2>1, <2>2 DEF HandoverOK, Accepts
<1>4. CASE SendAssert
  <2>1. CASE msg[peer]
    BY <1>4, <2>1 DEF SendAssert, Goto, HandoverOK, SendPoint, Accepts, procVars
  <2>2. CASE ~msg[peer]
    BY <1>2, <1>4, <2>2 DEF SendAssert, Halt, SendPoint
  <2> QED
    BY <2>1, <2>2
<1>5. CASE SendLatch
  BY <1>5 DEF SendLatch, HandoverOK, SendPoint, Accepts, procVars
<1>6. CASE SendSource
  <2>1. peer \in Proc \ {process_ready}
    BY <1>1, <1>6 DEF SendSource, CallOK, SendPoint
  <2>2. /\ buffer'[process_ready] = buffer[process_ready]
        /\ latched => buffer'[peer].source = buffer[process_ready].source
    BY <1>1, <1>6, <2>1 DEF SendSource, TypeOK, Message
  <2>3. /\ pc = "send_source" /\ pc' = "send_body"
        /\ UNCHANGED <<flags, msg, recv_from, process_ready, peer, latched>>
    BY <1>6 DEF SendSource, Goto, procVars
  <2> QED
    BY <2>2, <2>3 DEF HandoverOK, SendPoint, Accepts
<1>7. CASE SendBody
  <2>1. peer \in Proc \ {process_ready}
    BY <1>1, <1>7 DEF SendBody, CallOK, SendPoint
  <2>2. buffer'[process_ready] = buffer[process_ready]
    BY <1>1, <1>7, <2>1 DEF SendBody, TypeOK
  <2>3. ASSUME latched, buffer[peer].source = buffer[process_ready].source
        PROVE  buffer'[peer] = buffer[process_ready]
    <3>1. buffer'[peer] = [buffer[peer] EXCEPT !.body = buffer[process_ready].body]
      BY <1>1, <1>7, <2>1, <2>3 DEF SendBody, TypeOK
    <3>2. buffer[peer] \in Message /\ buffer[process_ready] \in Message
      BY <1>1, <2>1 DEF TypeOK
    <3> QED
      BY <2>3, <3>1, <3>2 DEF Message
  <2>4. /\ pc = "send_body" /\ pc' = "send_null"
        /\ UNCHANGED <<flags, msg, recv_from, process_ready, peer, latched>>
    BY <1>7 DEF SendBody, Goto, procVars
  <2> QED
    BY <2>2, <2>3, <2>4 DEF HandoverOK, SendPoint, Accepts
<1>8. CASE SendNull
  BY <1>8 DEF SendNull, Goto, HandoverOK, SendPoint, Accepts
<1>9. CASE SendWake
  BY <1>2, <1>9 DEF SendWake, Dispatch, Halt, SendPoint
<1>10. CASE DiskInterrupt
  <2>1. CASE /\ "RECVING" \in flags[HddTask]
             /\ recv_from[HddTask] \in {Interrupt, AnySource}
    <3>1. flags[HddTask] = {"RECVING"} /\ HddTask \in Proc
      BY <1>1, <2>1, HddTaskAssumption DEF BlockedIsReachable, TypeOK, Flag
    <3>2. flags' = [flags EXCEPT ![HddTask] = {}]
      BY <1>10, <2>1, <3>1 DEF DiskInterrupt, FlagsWithout
    <3>3. /\ UNCHANGED <<process_ready, pc, peer, latched>>
          /\ \A p \in Proc \ {HddTask} :
               flags'[p] = flags[p] /\ msg'[p] = msg[p] /\ recv_from'[p] = recv_from[p]
               /\ buffer'[p] = buffer[p]
      BY <1>1, <1>10, <2>1, <3>1, <3>2 DEF DiskInterrupt, Unblock, callVars, TypeOK
    <3>4. pc \in SendPoint => process_ready # HddTask /\ peer \in Proc
      BY <1>1, <3>1 DEF CallOK
    <3>5. "RECVING" \notin flags'[HddTask]
      BY <1>1, <3>1, <3>2 DEF TypeOK
    <3> QED
      BY <1>1, <3>3, <3>4, <3>5 DEF HandoverOK, Accepts
  <2>2. CASE ~ /\ "RECVING" \in flags[HddTask]
               /\ recv_from[HddTask] \in {Interrupt, AnySource}
    BY <1>10, <2>2 DEF DiskInterrupt, HandoverOK, Accepts, callVars
  <2> QED
    BY <2>1, <2>2
<1>11. CASE UNCHANGED vars
  BY <1>11 DEF vars, procVars, callVars, HandoverOK, Accepts
<1>12. ASSUME NEW d \in Proc, NEW m \in Payload, SendDeadLock(d, m) \/ SendQueue(d, m)
       PROVE  HandoverOK'
  BY <1>2, <1>12 DEF SendDeadLock, SendQueue, Halt, Goto, SendPoint
<1>13. CASE CallSelf \/ Receive \/ Block \/ \E q \in Proc : Schedule(q) \/ ClockSwitch(q)
  <2>1. pc' \notin SendPoint
    BY <1>13, SenderIsBlocked
       DEF CallSelf, Receive, ReceiveInterrupt, ReceiveCall, ReceiveProceed, RecvCollect, Collect,
           RecvWait, Block, Schedule, ClockSwitch, Halt, Goto, Dispatch, callVars, SendPoint
  <2> QED
    BY <1>2, <2>1
<1> QED
  BY <1>3, <1>4, <1>5, <1>6, <1>7, <1>8, <1>9, <1>10, <1>11, <1>12, <1>13 DEF Next, Send

\* What the mapping of a handover relies on holds in every reachable state, with the
\* disk interrupting msg_send between any two of its steps.
THEOREM HandoverInductive == Spec => [](IInv /\ HandoverOK)
<1>1. Init => IInv /\ HandoverOK
  BY InitIInv, InitHandover
<1>2. (IInv /\ HandoverOK) /\ [Next]_vars => (IInv /\ HandoverOK)'
  BY StepIInv, StepHandover
<1> QED
  BY <1>1, <1>2, PTL DEF Spec

--------------------------------------------------------------------------------
(* The variables of the promise, as functions of the state of the kernel.     *)

Held(p) ==
  IF Awaits(p) = NoTask THEN buffer[p] ELSE [source |-> NoTask, body |-> Blank]

Lines == [d \in Proc |-> Line(d)]
Waits == [p \in Proc |-> Awaits(p)]
Letters == [p \in Proc |-> Held(p)]

LEMMA LineIsListed ==
  ASSUME NEW d
  PROVE  Line(d) = Listed(BlockedOn(d), next_send)
BY DEF Line, UpTo, Listed, Place, Ahead

LEMMA GoodListIsList ==
  ASSUME ListOK, NEW d \in Proc
  PROVE  /\ BlockedOn(d) \in SUBSET Proc
         /\ IsList(BlockedOn(d), current_send[d], next_send)
BY DEF ListOK, GoodList, IsList, BlockedOn

\* The line of d holds the senders blocked on d and nobody else.
LEMMA LineElements ==
  ASSUME ListOK, NEW d \in Proc
  PROVE  Promise!ToSet(Line(d)) = BlockedOn(d)
<1>1. /\ BlockedOn(d) \in SUBSET Proc
      /\ IsList(BlockedOn(d), current_send[d], next_send)
  BY GoodListIsList
<1>2. Promise!ToSet(Listed(BlockedOn(d), next_send)) = BlockedOn(d)
  BY <1>1, ListedElements
<1> QED
  BY <1>2, LineIsListed

LEMMA EmptyLine ==
  ASSUME NEW d, BlockedOn(d) = {}
  PROVE  Line(d) = <<>>
<1>1. Cardinality({}) = 0
  BY FS_EmptySet
<1> QED
  BY <1>1 DEF Line

\* Without a step of the list operations the lines stay as they are.
LEMMA LinesFrame ==
  ASSUME UNCHANGED next_send, \A d \in Proc : BlockedOn(d)' = BlockedOn(d)
  PROVE  Lines' = Lines
<1>1. ASSUME NEW d \in Proc PROVE Line(d)' = Line(d)
  <2>1. BlockedOn(d)' = BlockedOn(d)
    OBVIOUS
  <2> QED
    BY <2>1 DEF Line, UpTo, Chain, Closed
<1> QED
  BY <1>1 DEF Lines

\* Whether a process awaits a message, as its flags and the call in progress say.
LEMMA AwaitsFacts ==
  ASSUME IInv, NEW p \in Proc
  PROVE  /\ Awaits(p) = NoTask <=>
              "RECVING" \notin flags[p] /\ ~(pc = "recv" /\ process_ready = p)
         /\ "RECVING" \in flags[p] => Awaits(p) = recv_from[p]
         /\ pc = "recv" /\ process_ready = p => Awaits(p) = peer
         /\ pc = "recv" => peer \in (Proc \cup {AnySource, Interrupt}) \ {process_ready}
<1>1. "RECVING" \in flags[p] => recv_from[p] # NoTask
  BY Distinct DEF IInv, BlockedIsReachable
<1>2. pc = "recv" => /\ flags[process_ready] = {}
                     /\ peer \in (Proc \cup {AnySource, Interrupt}) \ {process_ready}
  BY Distinct DEF IInv, CallOK, TypeOK, ReceiveSources
<1> QED
  BY <1>1, <1>2, Distinct DEF Awaits

\* A process that runs, or that nobody has blocked, is free to act.
LEMMA FreeWhenRunnable ==
  ASSUME IInv, NEW p \in Proc, flags[p] = {}, ~(pc = "recv" /\ process_ready = p)
  PROVE  Promise!Free(p)
<1>1. Awaits(p) = NoTask
  BY AwaitsFacts
<1>2. \A d \in Proc : p \notin Promise!ToSet(Line(d))
  <2>1. \A d \in Proc : p \notin BlockedOn(d)
    BY DEF BlockedOn
  <2> QED
    BY <2>1, LineElements DEF IInv
<1> QED
  BY <1>1, <1>2 DEF Promise!Free

--------------------------------------------------------------------------------
(* One lemma for each step of the promise.                                    *)

LEMMA IsStutter ==
  ASSUME Lines' = Lines, Waits' = Waits, Letters' = Letters
  PROVE  UNCHANGED Promise!vars
BY DEF Promise!vars, Lines, Waits, Letters, Held

LEMMA IsCompose ==
  ASSUME NEW p \in Proc, Promise!Free(p), NEW l \in Message,
         Letters' = [Letters EXCEPT ![p] = l], Lines' = Lines, Waits' = Waits
  PROVE  Promise!Next
<1>1. Promise!Compose(p)
  BY DEF Promise!Compose, Lines, Waits, Letters, Held
<1> QED
  BY <1>1 DEF Promise!Next

LEMMA IsPost ==
  ASSUME NEW p \in Proc, NEW d \in Proc \ {p}, Promise!Free(p),
         Awaits(d) \notin {p, AnySource}, NEW l \in Message, l.source = p,
         Letters' = [Letters EXCEPT ![p] = l],
         Lines' = [Lines EXCEPT ![d] = Append(@, p)], Waits' = Waits
  PROVE  Promise!Next
<1>1. Promise!Post(p, d)
  BY DEF Promise!Post, Lines, Waits, Letters, Held
<1> QED
  BY <1>1 DEF Promise!Next

LEMMA IsHandover ==
  ASSUME NEW p \in Proc, NEW d \in Proc \ {p}, Promise!Free(p),
         Awaits(d) = p \/ (Awaits(d) = AnySource /\ Line(d) = <<>>), Held(p).source = p,
         Letters' = [Letters EXCEPT ![d] = Held(p)],
         Waits' = [Waits EXCEPT ![d] = NoTask], Lines' = Lines
  PROVE  Promise!Next
<1>1. Promise!Handover(p, d)
  BY DEF Promise!Handover, Lines, Waits, Letters, Held
<1> QED
  BY <1>1 DEF Promise!Next

LEMMA IsAsk ==
  ASSUME NEW d \in Proc, Promise!Free(d), NEW source,
         source \in (Proc \ {d}) \cup {AnySource} \/ (d = HddTask /\ source = Interrupt),
         Letters' = [Letters EXCEPT ![d] = [source |-> NoTask, body |-> Blank]],
         Waits' = [Waits EXCEPT ![d] = source], Lines' = Lines
  PROVE  Promise!Next
<1>1. Promise!Ask(d, source)
  BY DEF Promise!Ask, Lines, Waits, Letters, Held
<1> QED
  BY <1>1 DEF Promise!Next

LEMMA IsCollect ==
  ASSUME NEW d \in Proc, NEW i \in 1 .. Len(Line(d)), Line(d)[i] \in Proc,
         Awaits(d) = Line(d)[i] \/ (Awaits(d) = AnySource /\ i = 1),
         Lines' = [Lines EXCEPT ![d] = Promise!RemoveAt(@, i)],
         Letters' = [Letters EXCEPT ![d] = Held(Line(d)[i])],
         Waits' = [Waits EXCEPT ![d] = NoTask]
  PROVE  Promise!Next
<1>1. Promise!Collect(d, i)
  BY DEF Promise!Collect, Lines, Waits, Letters, Held
<1>2. i \in 1 .. Len(Lines[d])
  BY DEF Lines
<1> QED
  BY <1>1, <1>2 DEF Promise!Next, Lines

LEMMA IsAnswer ==
  ASSUME Awaits(HddTask) \in {AnySource, Interrupt}, NEW l \in Message,
         Letters' = [Letters EXCEPT ![HddTask] = l],
         Waits' = [Waits EXCEPT ![HddTask] = NoTask], Lines' = Lines
  PROVE  Promise!Next
<1>1. Promise!Answer
  BY HddTaskAssumption DEF Promise!Answer, Lines, Waits, Letters, Held
<1> QED
  BY <1>1 DEF Promise!Next

--------------------------------------------------------------------------------
(* Each step of the kernel is a step of the promise, or none.                 *)

\* The flags, and what receivers wait for, decide who awaits what.
LEMMA WaitsFrame ==
  ASSUME IInv, UNCHANGED <<flags, recv_from>>, pc # "recv", pc' # "recv"
  PROVE  /\ Waits' = Waits
         /\ \A p \in Proc : Awaits(p)' = Awaits(p)
<1>1. ASSUME NEW p \in Proc PROVE Awaits(p)' = Awaits(p)
  BY DEF Awaits
<1> QED
  BY <1>1 DEF Waits

\* A caller that fills its own buffer composes.
LEMMA CallerComposes ==
  ASSUME IInv, pc = "user", pc' # "recv",
         UNCHANGED <<flags, recv_from, send_to, next_send>>,
         NEW l \in Message, buffer' = [buffer EXCEPT ![process_ready] = l]
  PROVE  Promise!Next
<1> DEFINE p == process_ready
<1>1. p \in Proc /\ flags[p] = {}
  BY DEF IInv, TypeOK, CallOK
<1>2. Promise!Free(p) /\ Awaits(p) = NoTask
  BY <1>1, FreeWhenRunnable, AwaitsFacts
<1>3. Lines' = Lines
  BY LinesFrame DEF BlockedOn
<1>4. Waits' = Waits /\ \A q \in Proc : Awaits(q)' = Awaits(q)
  BY WaitsFrame
<1>5. Letters' = [Letters EXCEPT ![p] = l]
  <2>1. buffer \in [Proc -> Message] /\ buffer' = [buffer EXCEPT ![p] = l]
    BY DEF IInv, TypeOK
  <2> HIDE DEF p
  <2>2. \A q \in Proc : Held(q)' = IF q = p THEN l ELSE Held(q)
    BY <1>1, <1>2, <1>4, <2>1 DEF Held
  <2> QED
    BY <1>1, <2>2 DEF Letters
<1> QED
  BY <1>1, <1>2, <1>3, <1>4, <1>5, IsCompose

LEMMA CallsCompose ==
  ASSUME IInv,
         \/ CallSelf
         \/ \E d \in Proc, m \in Payload : SendDeadLock(d, m) \/ SendMeet(d, m)
         \/ \E src \in Proc \cup {AnySource, Interrupt} : ReceiveInterrupt(src)
  PROVE  Promise!Next
<1>1. process_ready \in Proc
  BY DEF IInv, TypeOK
<1>2. PICK l \in Message : buffer' = [buffer EXCEPT ![process_ready] = l]
  <2>1. CASE \E src \in Proc \cup {AnySource, Interrupt} : ReceiveInterrupt(src)
    <3>1. [source |-> Interrupt, body |-> HwInt] \in Message
      BY MessageFacts
    <3> QED
      BY <2>1, <3>1 DEF ReceiveInterrupt
  <2>2. CASE CallSelf \/ \E d \in Proc, m \in Payload : SendDeadLock(d, m) \/ SendMeet(d, m)
    <3>1. \A m \in Payload : [source |-> process_ready, body |-> m] \in Message
      BY <1>1, MessageFacts
    <3>2. PICK d \in Proc, m \in Payload : SendCall(d, m)
      BY <1>1, <2>2 DEF CallSelf, SendDeadLock, SendMeet
    <3> QED
      BY <3>1, <3>2 DEF SendCall
  <2> QED
    BY <2>1, <2>2
<1>3. pc = "user" /\ pc' # "recv" /\ UNCHANGED <<flags, recv_from, send_to, next_send>>
  BY DEF CallSelf, SendDeadLock, SendMeet, ReceiveInterrupt, ReceiveCall, SendCall, Halt,
         procVars, listVars, callVars
<1> QED
  BY <1>2, <1>3, CallerComposes

\* Joining the list of the destination is joining its line.
LEMMA QueuePosts ==
  ASSUME IInv, IInv', NEW d \in Proc, NEW m \in Payload, SendQueue(d, m)
  PROVE  Promise!Next
<1> DEFINE p == process_ready
           l == [source |-> p, body |-> m]
<1>1. p \in Proc /\ flags[p] = {} /\ TypeOK /\ ListOK /\ ListOK'
  BY DEF IInv, TypeOK, CallOK, SendQueue, SendCall
<1>2. /\ d # p /\ ~Accepts(d, p)
      /\ flags' = [flags EXCEPT ![p] = @ \cup {"SENDING"}]
      /\ send_to' = [send_to EXCEPT ![p] = d]
      /\ current_send' = HeadWith(d, p)
      /\ next_send' = NextWith(d, p)
      /\ pc = "user" /\ pc' = "block" /\ process_ready' = p
      /\ buffer' = [buffer EXCEPT ![p] = l]
      /\ UNCHANGED recv_from
  BY DEF SendQueue, SendCall, Goto
<1>3. l \in Message /\ l.source = p
  BY <1>1, MessageFacts
<1>4. Promise!Free(p) /\ Awaits(p) = NoTask
  BY <1>1, <1>2, FreeWhenRunnable, AwaitsFacts
<1>5. Awaits(d) \notin {p, AnySource}
  BY <1>1, <1>2, AwaitsFacts, Distinct DEF Accepts
<1> HIDE DEF p, l
<1>6. \A q \in Proc : "RECVING" \in flags'[q] <=> "RECVING" \in flags[q]
  BY <1>1, <1>2 DEF TypeOK
<1>7. \A q \in Proc : Awaits(q)' = Awaits(q)
  BY <1>2, <1>6 DEF Awaits
<1>8. Waits' = Waits
  BY <1>7 DEF Waits
<1>9. Letters' = [Letters EXCEPT ![p] = l]
  <2>1. \A q \in Proc : Held(q)' = IF q = p THEN l ELSE Held(q)
    BY <1>1, <1>2, <1>4, <1>7 DEF Held, TypeOK
  <2> QED
    BY <1>1, <2>1 DEF Letters
<1>10. /\ BlockedOn(d)' = BlockedOn(d) \cup {p}
       /\ \A e \in Proc \ {d} : BlockedOn(e)' = BlockedOn(e)
       /\ \A e \in Proc : p \notin BlockedOn(e)
  BY <1>1, <1>2, EnqueueBlocked
<1>11. /\ next_send[p] = Null /\ next_send'[p] = Null
       /\ \A q \in Proc \ {p} :
            next_send'[q] = IF q \in BlockedOn(d) /\ next_send[q] = Null
                            THEN p ELSE next_send[q]
  <2>1. next_send[p] = Null
    BY <1>1 DEF ListOK
  <2>2. CASE current_send[d] = Null
    BY <1>1, <1>2, <2>1, <2>2 DEF NextWith, ListOK, GoodList
  <2>3. CASE current_send[d] # Null
    BY <1>1, <1>2, <2>1, <2>3, ChainIsBlocked DEF NextWith
  <2> QED
    BY <2>2, <2>3
<1>12. Line(d)' = Append(Line(d), p)
  <2>1. /\ BlockedOn(d) \in SUBSET Proc /\ BlockedOn(d)' \in SUBSET Proc
        /\ IsList(BlockedOn(d), current_send[d], next_send)
        /\ IsList(BlockedOn(d)', current_send'[d], next_send')
    <3>1. IsList(BlockedOn(d), current_send[d], next_send)
      BY <1>1, GoodListIsList
    <3>2. IsList(BlockedOn(d)', current_send'[d], next_send')
      BY <1>1 DEF ListOK, GoodList, IsList, BlockedOn, Closed
    <3> QED
      BY <3>1, <3>2 DEF BlockedOn
  <2>2. HangsBehind(BlockedOn(d), next_send, p, next_send')
    BY <1>11 DEF HangsBehind
  <2>4. p \in Proc /\ p \notin BlockedOn(d) /\ BlockedOn(d)' = BlockedOn(d) \cup {p}
    BY <1>1, <1>10
  <2>5. Listed(BlockedOn(d)', next_send') = Joined(Listed(BlockedOn(d), next_send), p)
    BY <2>1, <2>2, <2>4, ListedAppend
  <2>3. Line(d)' = Listed(BlockedOn(d)', next_send')
    BY DEF Line, UpTo, Listed, Place, Ahead, Chain, Closed
  <2> QED
    BY <2>3, <2>5, LineIsListed DEF Joined
<1>13. ASSUME NEW e \in Proc \ {d} PROVE Line(e)' = Line(e)
  <2>1. \A q \in BlockedOn(e) : next_send'[q] = next_send[q]
    BY <1>10, <1>11 DEF BlockedOn
  <2>2. Listed(BlockedOn(e), next_send') = Listed(BlockedOn(e), next_send)
    BY <1>1, <2>1, GoodListIsList, ListedFrame
  <2>3. Line(e)' = Listed(BlockedOn(e)', next_send')
    BY DEF Line, UpTo, Listed, Place, Ahead, Chain, Closed
  <2> QED
    BY <1>10, <2>2, <2>3, LineIsListed
<1>14. Lines' = [Lines EXCEPT ![d] = Append(@, p)]
  BY <1>12, <1>13 DEF Lines
<1> QED
  BY <1>1, <1>2, <1>3, <1>4, <1>5, <1>8, <1>9, <1>14, IsPost

\* Between the calls' visible steps the promise stands still.
LEMMA QuietStep ==
  ASSUME IInv,
         \/ SendAssert \/ SendLatch \/ SendNull \/ Block
         \/ \E q \in Proc : Schedule(q) \/ ClockSwitch(q)
         \/ UNCHANGED vars
  PROVE  UNCHANGED Promise!vars
<1>1. /\ UNCHANGED <<flags, recv_from, send_to, next_send, buffer>>
      /\ pc = "recv" => UNCHANGED <<pc, process_ready, peer>>
      /\ pc' = "recv" => pc = "recv"
  BY DEF SendAssert, SendLatch, SendNull, Block, Schedule, ClockSwitch, Goto, Halt, Dispatch,
         vars, procVars, listVars, callVars
<1>2. Lines' = Lines
  BY <1>1, LinesFrame DEF BlockedOn
<1>3. \A p \in Proc : Awaits(p)' = Awaits(p)
  BY <1>1 DEF Awaits
<1>4. Waits' = Waits /\ Letters' = Letters
  BY <1>1, <1>3 DEF Waits, Letters, Held
<1> QED
  BY <1>2, <1>4, IsStutter

\* While the copy is under way the receiver still awaits it, so nothing is seen of
\* it; a driver that the disk has completed meanwhile gets its own memory changed.
LEMMA CopyIsUnseen ==
  ASSUME IInv, IInv', HandoverOK, SendSource \/ SendBody
  PROVE  Promise!Next \/ UNCHANGED Promise!vars
<1>1. /\ pc \in {"send_source", "send_body"} /\ pc' # "recv"
      /\ UNCHANGED <<flags, recv_from, send_to, next_send>>
      /\ \A q \in Proc \ {peer} : buffer'[q] = buffer[q]
  BY DEF SendSource, SendBody, Goto, procVars, listVars, IInv, TypeOK
<1>2. peer \in Proc /\ flags[peer] \in {{}, {"RECVING"}}
  BY <1>1 DEF IInv, CallOK, SendPoint
<1>3. Lines' = Lines
  BY <1>1, LinesFrame DEF BlockedOn
<1>4. Waits' = Waits /\ \A p \in Proc : Awaits(p)' = Awaits(p)
  BY <1>1, WaitsFrame
<1>5. CASE flags[peer] = {"RECVING"}
  <2>1. Awaits(peer) # NoTask
    BY <1>2, <1>5, AwaitsFacts
  <2>2. \A p \in Proc : Held(p)' = Held(p)
    BY <1>1, <1>4, <2>1 DEF Held
  <2> QED
    BY <1>3, <1>4, <2>2, IsStutter DEF Letters
<1>6. CASE flags[peer] = {}
  <2>1. Promise!Free(peer) /\ Awaits(peer) = NoTask
    BY <1>1, <1>2, <1>6, FreeWhenRunnable, AwaitsFacts
  <2>2. \A p \in Proc : Held(p)' = IF p = peer THEN buffer'[peer] ELSE Held(p)
    BY <1>1, <1>4, <2>1 DEF Held
  <2> DEFINE l == buffer'[peer]
  <2>3. l \in Message
    BY <1>2 DEF IInv, TypeOK
  <2>4. Letters' = [Letters EXCEPT ![peer] = l]
    BY <1>2, <2>2 DEF Letters
  <2> HIDE DEF l
  <2> QED
    BY <1>2, <1>3, <1>4, <2>1, <2>3, <2>4, IsCompose
<1> QED
  BY <1>2, <1>5, <1>6

\* The message changes hands when the receiver's flag is cleared.
LEMMA WakeHandsOver ==
  ASSUME IInv, HandoverOK, SendWake
  PROVE  Promise!Next \/ UNCHANGED Promise!vars
<1> DEFINE p == process_ready
           d == peer
<1>1. pc = "send_wake" /\ pc \in SendPoint
  BY DEF SendWake, SendPoint
<1>2. /\ TypeOK /\ p \in Proc /\ d \in Proc \ {p} /\ flags[p] = {}
      /\ flags[d] \in {{}, {"RECVING"}}
  BY <1>1 DEF IInv, TypeOK, CallOK
<1>3. /\ flags' = [flags EXCEPT ![d] = {}]
      /\ recv_from' = [recv_from EXCEPT ![d] = NoTask]
      /\ UNCHANGED <<send_to, next_send, buffer>>
  BY <1>2 DEF SendWake, FlagsWithout, listVars
<1>4. pc' # "recv"
  BY DEF SendWake, Dispatch, Halt
<1>5. Lines' = Lines
  <2>1. \A e \in Proc : BlockedOn(e)' = BlockedOn(e)
    BY <1>2, <1>3 DEF BlockedOn, TypeOK
  <2> QED
    BY <1>3, <2>1, LinesFrame
<1>6. Promise!Free(p) /\ Awaits(p) = NoTask
  BY <1>1, <1>2, FreeWhenRunnable, AwaitsFacts
<1>7. ASSUME NEW q \in Proc PROVE Awaits(q)' = IF q = d THEN NoTask ELSE Awaits(q)
  BY <1>1, <1>2, <1>3, <1>4 DEF Awaits, TypeOK
<1>8. CASE flags[d] = {}
  <2>1. Awaits(d) = NoTask
    BY <1>1, <1>2, <1>8, AwaitsFacts
  <2>2. \A q \in Proc : Awaits(q)' = Awaits(q)
    BY <1>7, <2>1
  <2> QED
    BY <1>3, <1>5, <2>2, IsStutter DEF Waits, Letters, Held
<1>9. CASE flags[d] = {"RECVING"}
  <2>1. /\ recv_from[d] \in {p, AnySource} /\ buffer[d] = buffer[p]
        /\ buffer[p].source = p /\ Awaits(d) = recv_from[d]
    BY <1>1, <1>2, <1>9, AwaitsFacts DEF HandoverOK, Accepts
  <2>2. Awaits(d) = p \/ (Awaits(d) = AnySource /\ Line(d) = <<>>)
    <3>1. CASE recv_from[d] = AnySource
      <4>1. BlockedOn(d) = {}
        BY <1>2, <1>9, <3>1 DEF IInv, NoMissedRendezvous, BlockedOn
      <4> QED
        BY <2>1, <3>1, <4>1, EmptyLine
    <3> QED
      BY <2>1, <3>1
  <2>3. Held(p) = buffer[p]
    BY <1>6 DEF Held
  <2>4. \A q \in Proc : Held(q)' = IF q = d THEN Held(p) ELSE Held(q)
    BY <1>2, <1>3, <1>7, <2>1, <2>3 DEF Held
  <2> HIDE DEF p, d
  <2>5. Letters' = [Letters EXCEPT ![d] = Held(p)]
    BY <1>2, <2>4 DEF Letters
  <2>6. Waits' = [Waits EXCEPT ![d] = NoTask]
    BY <1>2, <1>7 DEF Waits
  <2> QED
    BY <1>2, <1>5, <1>6, <2>1, <2>2, <2>3, <2>5, <2>6, IsHandover
<1> QED
  BY <1>2, <1>8, <1>9

LEMMA ReceiveAsks ==
  ASSUME IInv, NEW src \in Proc \cup {AnySource, Interrupt}, NEW m \in Body,
         ReceiveProceed(src, m)
  PROVE  Promise!Next
<1> DEFINE p == process_ready
           nothing == [source |-> NoTask, body |-> Blank]
<1>1. /\ pc = "user" /\ src \in ReceiveSources(p) /\ pc' = "recv" /\ peer' = src
      /\ process_ready' = p
      /\ \A q \in Proc \ {p} : buffer'[q] = buffer[q]
      /\ UNCHANGED <<flags, recv_from, send_to, next_send>>
  BY DEF ReceiveProceed, ReceiveCall, procVars, listVars, IInv, TypeOK
<1>2. p \in Proc /\ flags[p] = {}
  BY <1>1 DEF IInv, TypeOK, CallOK
<1>3. Promise!Free(p)
  BY <1>1, <1>2, FreeWhenRunnable
<1>4. Lines' = Lines
  BY <1>1, LinesFrame DEF BlockedOn
<1>5. src # NoTask
  BY Distinct
<1> HIDE DEF p
<1>6. \A q \in Proc : Awaits(q)' = IF q = p THEN src ELSE Awaits(q)
  BY <1>1, <1>2 DEF Awaits, p
<1>7. \A q \in Proc : Held(q)' = IF q = p THEN nothing ELSE Held(q)
  BY <1>1, <1>5, <1>6 DEF Held
<1>8. Waits' = [Waits EXCEPT ![p] = src]
  BY <1>2, <1>6 DEF Waits
<1>9. Letters' = [Letters EXCEPT ![p] = nothing]
  BY <1>2, <1>7 DEF Letters
<1>10. src \in (Proc \ {p}) \cup {AnySource} \/ (p = HddTask /\ src = Interrupt)
  BY <1>1 DEF ReceiveSources
<1> QED
  BY <1>2, <1>3, <1>4, <1>8, <1>9, <1>10, IsAsk

\* Serving a sender takes it out of the line, and its message with it.
LEMMA ServeTakes ==
  ASSUME IInv, IInv', NEW p \in Proc, NEW s \in Proc, process_ready = p, pc = "recv",
         s = Sender(p, peer), Collect(p, s)
  PROVE  Promise!Next
<1> DEFINE i == Place(BlockedOn(p), next_send, s)
<1>1. TypeOK /\ ListOK /\ ListOK'
  BY DEF IInv
<1>2. s \in BlockedOn(p) /\ current_send[p] # Null
  BY SenderIsBlocked, Distinct
<1>3. s # p /\ flags[p] = {} /\ flags[s] = {"SENDING"}
  BY <1>2 DEF BlockedOn, BlockedIsReachable, CallOK, TypeOK, Flag, IInv
<1>4. flags' = [flags EXCEPT ![s] = {}]
  BY <1>3 DEF Collect, FlagsWithout
<1>5. flags'[s] = {}
  BY <1>1, <1>4 DEF TypeOK
<1>6. /\ current_send' = HeadWithout(p, s)
      /\ next_send' = NextWithout(p, s)
      /\ buffer' = [buffer EXCEPT ![p] = buffer[s]]
      /\ send_to' = [send_to EXCEPT ![s] = NoTask]
      /\ pc' = "user" /\ process_ready' = p
      /\ UNCHANGED recv_from
  BY <1>5 DEF Collect, Unblock, Dispatch
<1>7. Awaits(p) = s \/ (Awaits(p) = AnySource /\ s = current_send[p])
  <2>1. Awaits(p) = peer
    BY <1>3, AwaitsFacts
  <2> QED
    BY <2>1, Distinct DEF Sender
<1>8. Held(s) = buffer[s]
  BY <1>3, AwaitsFacts DEF Held
<1>9. \A q \in Proc : Awaits(q)' = IF q = p THEN NoTask ELSE Awaits(q)
  BY <1>1, <1>3, <1>4, <1>6 DEF Awaits, TypeOK
<1>10. Waits' = [Waits EXCEPT ![p] = NoTask]
  BY <1>9 DEF Waits
<1>11. Letters' = [Letters EXCEPT ![p] = Held(s)]
  <2>1. \A q \in Proc : Held(q)' = IF q = p THEN Held(s) ELSE Held(q)
    BY <1>1, <1>6, <1>8, <1>9 DEF Held, TypeOK
  <2> QED
    BY <2>1 DEF Letters
<1>12. /\ BlockedOn(p)' = BlockedOn(p) \ {s}
       /\ \A e \in Proc \ {p} : BlockedOn(e)' = BlockedOn(e) /\ s \notin BlockedOn(e)
  BY <1>1, <1>2, <1>4, <1>6, Distinct DEF BlockedOn, TypeOK
<1>13. IsList(BlockedOn(p), current_send[p], next_send) /\ BlockedOn(p) \in SUBSET Proc
  BY <1>1, GoodListIsList
<1>14. IsList(BlockedOn(p)', current_send'[p], next_send') /\ BlockedOn(p)' \in SUBSET Proc
  BY <1>1 DEF ListOK, GoodList, IsList, BlockedOn, Closed
<1>15. LeadsPast(current_send[p], next_send, s, next_send')
  BY <1>6 DEF LeadsPast, NextWithout
<1>16. Line(p)' = Promise!RemoveAt(Line(p), i)
  <2>1. Line(p)' = Listed(BlockedOn(p)', next_send')
    BY DEF Line, UpTo, Listed, Place, Ahead, Chain, Closed
  <2>2. Listed(BlockedOn(p)', next_send') = Promise!RemoveAt(Listed(BlockedOn(p), next_send), i)
    BY <1>2, <1>12, <1>13, <1>14, <1>15, ListedRemove
  <2> QED
    BY <2>1, <2>2, LineIsListed
<1>17. ASSUME NEW e \in Proc \ {p} PROVE Line(e)' = Line(e)
  <2>1. IsList(BlockedOn(e), current_send[e], next_send) /\ BlockedOn(e) \in SUBSET Proc
    BY <1>1, GoodListIsList
  <2>2. \A q \in BlockedOn(e) : next_send'[q] = next_send[q]
    <3>1. ASSUME NEW q \in BlockedOn(e) PROVE q \in Proc /\ q # s /\ next_send[q] # s
      <4>1. q \in Proc /\ q # s /\ s \notin BlockedOn(e)
        BY <1>12, <2>1
      <4>2. next_send[q] # Null => next_send[q] \in BlockedOn(e)
        BY <2>1 DEF IsList
      <4> QED
        BY <4>1, <4>2, Distinct
    <3> QED
      BY <1>15, <3>1 DEF LeadsPast
  <2>3. Listed(BlockedOn(e), next_send') = Listed(BlockedOn(e), next_send)
    BY <2>1, <2>2, ListedFrame
  <2>4. Line(e)' = Listed(BlockedOn(e)', next_send')
    BY DEF Line, UpTo, Listed, Place, Ahead, Chain, Closed
  <2> QED
    BY <1>12, <2>3, <2>4, LineIsListed
<1>18. Lines' = [Lines EXCEPT ![p] = Promise!RemoveAt(@, i)]
  BY <1>16, <1>17 DEF Lines
<1>19. i \in 1 .. Len(Line(p)) /\ Line(p)[i] = s
  <2>1. Line(p) = Listed(BlockedOn(p), next_send)
    BY LineIsListed
  <2>2. Len(Listed(BlockedOn(p), next_send)) = Cardinality(BlockedOn(p))
    BY <1>13, ListedAtPlace
  <2>3. i \in 1 .. Cardinality(BlockedOn(p))
    BY <1>2, <1>13, PlacesFit
  <2>4. Listed(BlockedOn(p), next_send)[i] = s
    BY <1>2, <1>13, ListedHasMember
  <2> QED
    BY <2>1, <2>2, <2>3, <2>4
<1>20. s = current_send[p] => i = 1
  BY <1>2, <1>13, PlacesFit
<1> HIDE DEF i
<1> QED
  BY <1>7, <1>10, <1>11, <1>18, <1>19, <1>20, IsCollect

LEMMA CollectTakes ==
  ASSUME IInv, IInv', RecvCollect
  PROVE  Promise!Next
<1>1. pc = "recv" /\ Sender(process_ready, peer) # Null
  BY DEF RecvCollect
<1>2. /\ Sender(process_ready, peer) \in Proc /\ process_ready \in Proc
      /\ Collect(process_ready, Sender(process_ready, peer))
  BY <1>1, SenderIsBlocked DEF RecvCollect, BlockedOn, IInv, TypeOK
<1> QED
  BY <1>1, <1>2, ServeTakes

\* A receiver that blocks goes on awaiting what it asked for.
LEMMA WaitIsUnseen ==
  ASSUME IInv, RecvWait
  PROVE  UNCHANGED Promise!vars
<1> DEFINE p == process_ready
<1>1. /\ TypeOK /\ pc = "recv" /\ p \in Proc /\ flags[p] = {}
  BY DEF RecvWait, IInv, TypeOK, CallOK
<1>2. /\ flags' = [flags EXCEPT ![p] = {"RECVING"}]
      /\ recv_from' = [recv_from EXCEPT ![p] = peer]
      /\ pc' = "block" /\ UNCHANGED <<send_to, next_send, buffer>>
  BY <1>1 DEF RecvWait, Goto, listVars
<1>3. Lines' = Lines
  <2>1. \A e \in Proc : BlockedOn(e)' = BlockedOn(e)
    BY <1>1, <1>2 DEF BlockedOn, TypeOK
  <2> QED
    BY <1>2, <2>1, LinesFrame
<1>4. \A q \in Proc : Awaits(q)' = Awaits(q)
  BY <1>1, <1>2 DEF Awaits, TypeOK
<1> QED
  BY <1>2, <1>3, <1>4, IsStutter DEF Waits, Letters, Held

\* The disk completes the driver, or only records its interrupt.
LEMMA DiskAnswers ==
  ASSUME IInv, IInv', DiskInterrupt
  PROVE  Promise!Next \/ UNCHANGED Promise!vars
<1>1. TypeOK /\ HddTask \in Proc
  BY HddTaskAssumption DEF IInv
<1>2. CASE /\ "RECVING" \in flags[HddTask]
           /\ recv_from[HddTask] \in {Interrupt, AnySource}
  <2>1. flags[HddTask] = {"RECVING"}
    BY <1>1, <1>2 DEF IInv, BlockedIsReachable, TypeOK, Flag
  <2>2. flags' = [flags EXCEPT ![HddTask] = {}]
    BY <1>2, <2>1 DEF DiskInterrupt, FlagsWithout
  <2>3. /\ recv_from' = [recv_from EXCEPT ![HddTask] = NoTask]
        /\ \A q \in Proc \ {HddTask} : buffer'[q] = buffer[q]
        /\ UNCHANGED <<send_to, next_send, process_ready, pc, peer>>
    BY <1>1, <1>2, <2>2 DEF DiskInterrupt, Unblock, callVars, listVars, TypeOK
  <2>4. pc = "recv" => process_ready # HddTask
    BY <2>1 DEF IInv, CallOK
  <2>5. Awaits(HddTask) \in {AnySource, Interrupt}
    BY <1>1, <1>2, AwaitsFacts
  <2>6. Lines' = Lines
    <3>1. \A e \in Proc : BlockedOn(e)' = BlockedOn(e)
      BY <1>1, <2>1, <2>2, <2>3 DEF BlockedOn, TypeOK
    <3> QED
      BY <2>3, <3>1, LinesFrame
  <2>7. \A q \in Proc : Awaits(q)' = IF q = HddTask THEN NoTask ELSE Awaits(q)
    BY <1>1, <2>1, <2>2, <2>3, <2>4 DEF Awaits, TypeOK
  <2> DEFINE l == buffer'[HddTask]
  <2>8. \A q \in Proc : Held(q)' = IF q = HddTask THEN l ELSE Held(q)
    BY <2>3, <2>7 DEF Held
  <2>9. l \in Message
    BY <1>1 DEF IInv, TypeOK
  <2>10. Letters' = [Letters EXCEPT ![HddTask] = l]
    BY <1>1, <2>8 DEF Letters
  <2>11. Waits' = [Waits EXCEPT ![HddTask] = NoTask]
    BY <1>1, <2>7 DEF Waits
  <2> HIDE DEF l
  <2> QED
    BY <2>5, <2>6, <2>9, <2>10, <2>11, IsAnswer
<1>3. CASE ~ /\ "RECVING" \in flags[HddTask]
             /\ recv_from[HddTask] \in {Interrupt, AnySource}
  <2>1. UNCHANGED <<flags, recv_from, send_to, next_send, buffer, pc, process_ready, peer>>
    BY <1>3 DEF DiskInterrupt, callVars, listVars
  <2>2. Lines' = Lines
    BY <2>1, LinesFrame DEF BlockedOn
  <2>3. \A q \in Proc : Awaits(q)' = Awaits(q)
    BY <2>1 DEF Awaits
  <2> QED
    BY <2>1, <2>2, <2>3, IsStutter DEF Waits, Letters, Held
<1> QED
  BY <1>2, <1>3

LEMMA InitPromise ==
  ASSUME Init
  PROVE  Promise!Init
<1>1. \A d \in Proc : BlockedOn(d) = {}
  BY DEF Init, BlockedOn
<1>2. \A d \in Proc : Line(d) = <<>>
  BY <1>1, EmptyLine
<1>3. \A p \in Proc : Awaits(p) = NoTask
  BY DEF Init, Awaits
<1>4. buffer \in [Proc -> Message]
  BY MessageFacts DEF Init
<1> QED
  BY <1>2, <1>3, <1>4 DEF Promise!Init

LEMMA StepPromise ==
  ASSUME IInv, IInv', HandoverOK, [Next]_vars
  PROVE  Promise!Next \/ UNCHANGED Promise!vars
<1>1. CASE Send
  <2>1. ASSUME NEW d \in Proc, NEW m \in Payload, SendQueue(d, m) PROVE Promise!Next
    BY <2>1, QueuePosts
  <2> QED
    BY <1>1, <2>1, CallsCompose, QuietStep, CopyIsUnseen, WakeHandsOver DEF Send
<1>2. CASE Receive
  <2>1. ASSUME NEW src \in Proc \cup {AnySource, Interrupt}, NEW m \in Body,
               ReceiveProceed(src, m)
        PROVE  Promise!Next
    BY <2>1, ReceiveAsks
  <2> QED
    BY <1>2, <2>1, CallsCompose, CollectTakes, WaitIsUnseen DEF Receive
<1> QED
  BY <1>1, <1>2, QuietStep, DiskAnswers DEF Next

\* For any number of processes the message passing of the kernel is a rendezvous:
\* every step of send_recv, msg_send, msg_recv and of the disk interrupt is one of
\* the steps the promise allows, or nothing that a process could see.
THEOREM KeepsThePromise == Spec => ImplementsRendezvous
<1>1. Init => Promise!Init
  BY InitPromise
<1>2. (IInv /\ HandoverOK) /\ (IInv /\ HandoverOK)' /\ [Next]_vars
        => Promise!Next \/ UNCHANGED Promise!vars
  BY StepPromise
<1>3. Spec => [](IInv /\ HandoverOK)
  BY HandoverInductive
<1> QED
  BY <1>1, <1>2, <1>3, PTL DEF Spec, ImplementsRendezvous, Promise!Spec
================================================================================
